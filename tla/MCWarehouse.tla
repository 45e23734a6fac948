----------------------------- MODULE MCWarehouse -----------------------------
(***************************************************************************)
(* A small instance of Warehouse: two files that share row numbers, one of *)
(* them with rows of two accounts, so that gold is flushed in two parts.   *)
(***************************************************************************)
EXTENDS Warehouse

Row(n, a, f) == [num |-> n, account |-> a, file |-> f]

TwoFiles == {{Row(1, "a", "x"), Row(2, "b", "x")}, {Row(1, "a", "y")}}
==============================================================================
