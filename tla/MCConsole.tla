----------------------------- MODULE MCConsole -------------------------------
(***************************************************************************)
(* A small instance of Console: two versions, a file of one row.           *)
(***************************************************************************)
EXTENDS Console

CONSTANTS v1, v2, ps1
==============================================================================
