------------------------------ MODULE MCScorer -------------------------------
(***************************************************************************)
(* A small instance of Scorer: two threads; one account whose three        *)
(* transactions arrive in any order and any grouping, two of them tied on  *)
(* their timestamp, and a second account that shares their requests.       *)
(***************************************************************************)
EXTENDS Scorer, TLC

CONSTANTS a1, a2

Txn(i, a, s, m) == [id |-> i, account |-> a, ts |-> s, amount |-> m]

\* one account; transactions 2 and 3 have the same timestamp
OneAccount == {Txn(1, a1, 1, 4), Txn(2, a1, 2, 1), Txn(3, a1, 2, 2)}

\* a transaction of a second account besides
TwoAccounts == OneAccount \cup {Txn(4, a2, 1, 1)}

ThreadSymmetry == Permutations(Threads)
==============================================================================
