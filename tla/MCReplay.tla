------------------------------ MODULE MCReplay -------------------------------
(***************************************************************************)
(* A small instance of Replay: a file of four rows, two accounts and two   *)
(* steps, in batches of two; the account a1 spans both batches and steps.  *)
(***************************************************************************)
EXTENDS Replay, TLC

CONSTANTS a1, a2

Row(a, s, m) == [account |-> a, step |-> s, amount |-> m]

OneFile == {<<Row(a1, 1, 3), Row(a2, 1, 1), Row(a1, 1, 2), Row(a1, 2, 4)>>}

\* every row the files can be turned into, for each limit
FileEvents == UNION {{EventOf(f, n, i) : i \in 1..n} :
                       f \in Files, n \in 1..4}

ThreadSymmetry == Permutations(Threads)
==============================================================================
