---------------------------- MODULE MCSupervisor -----------------------------
(***************************************************************************)
(* A small instance of Supervisor: two compatible versions, one with       *)
(* another feature schema where an instance registers it, three children.  *)
(***************************************************************************)
EXTENDS Supervisor

CONSTANTS v1, v2, v3
==============================================================================
