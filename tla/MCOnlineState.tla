---------------------------- MODULE MCOnlineState ----------------------------
(***************************************************************************)
(* A small instance of OnlineState: one account, live transactions on both *)
(* sides of a staged row's timestamp and one tied with a staged row, so    *)
(* that late events and equal clocks happen on both sides.                 *)
(***************************************************************************)
EXTENDS OnlineState

CONSTANTS a1

Event(i, s, m) == [id |-> i, account |-> a1, ts |-> s, amount |-> m]

LiveTxns   == {Event(1, 1, 1), Event(4, 3, 1)}
StagedRows == {Event(2, 2, 2), Event(3, 3, 4)}
==============================================================================
