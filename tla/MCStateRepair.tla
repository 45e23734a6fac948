---------------------------- MODULE MCStateRepair ----------------------------
(***************************************************************************)
(* A small instance of StateRepair: one account with three staged rows,    *)
(* two tied on their timestamp, read in any order.                         *)
(***************************************************************************)
EXTENDS StateRepair

CONSTANTS a1

Row(i, a, s, m) == [id |-> i, account |-> a, ts |-> s, amount |-> m]

TiedRows == {Row(1, a1, 1, 4), Row(2, a1, 2, 1), Row(3, a1, 2, 2)}
==============================================================================
