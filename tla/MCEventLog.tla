----------------------------- MODULE MCEventLog ------------------------------
(***************************************************************************)
(* A small instance of EventLog: a worker with two request threads around  *)
(* the turn of one hour.                                                   *)
(***************************************************************************)
EXTENDS EventLog

CONSTANTS w1, t1, t2, e1, e2
==============================================================================
