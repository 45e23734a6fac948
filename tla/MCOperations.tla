----------------------------- MODULE MCOperations -----------------------------
(***************************************************************************)
(* A small instance of Operations: a file whose first account has two      *)
(* rows, one of them a fraud, and a file of one row with its number.       *)
(***************************************************************************)
EXTENDS Operations

Row(n, a, f, earlier, fraud) ==
  [num |-> n, account |-> a, file |-> f, before |-> earlier, fraud |-> fraud,
   type |-> IF fraud THEN "CASH_OUT" ELSE "PAYMENT"]

TwoFiles ==
  {{Row(1, "a", "x", {}, FALSE), Row(2, "a", "x", {1}, TRUE),
    Row(3, "b", "x", {}, FALSE)},
   {Row(1, "a", "y", {}, TRUE)}}
==============================================================================
