----------------------------- MODULE PointInTime -----------------------------
(***************************************************************************)
(* The feature tables of the training notebooks, row by row: what the      *)
(* features of one transaction are computed from, while the ledger they    *)
(* are computed over grows.  Rows stand in the order of the file, which is *)
(* the order of their steps.  What is a function of these numbers and of   *)
(* the row itself (means, ratios, flags, logarithms) is left out.          *)
(***************************************************************************)
EXTENDS Integers, Sequences, FiniteSets, FiniteSetsExt

CONSTANTS
  Accounts,
  Amounts,     \* of which an amount is taken
  Hours,       \* hours of a day: 24
  Windows,     \* widths of the recipient's windows: 1, 24 and 168
  TrainEnd,    \* last step of the training rows
  Folds,       \* folds of the target encoding: five
  LastStep,    \* bound: steps
  MaxRows      \* bound: rows

ASSUME PointInTimeAssumption ==
  /\ Amounts \subseteq Nat
  /\ Hours \in Nat \ {0}
  /\ Windows \subseteq Nat
  /\ TrainEnd \in Nat /\ LastStep \in Nat /\ MaxRows \in Nat

Never == 999   \* no event in the widest window

VARIABLE ledger

Rows ==
  [step : 1..LastStep, type : {"TRANSFER", "CASH_OUT"}, nameOrig : Accounts,
   nameDest : Accounts, amount : Amounts, isFraud : {0, 1}, fold : Folds]

Total(L, S) == SumFunction([j \in S |-> L[j].amount])
Day(row) == row.step \div Hours
------------------------------------------------------------------------------
\* Expanding histories: cumcount, and cumsum less the row's own amount

Before(L, i) == 1..(i - 1)
DestBefore(L, i) == {j \in Before(L, i) : L[j].nameDest = L[i].nameDest}
OrigBefore(L, i) == {j \in Before(L, i) : L[j].nameOrig = L[i].nameOrig}

History(L, i) ==
  [dest_count_hist |-> Cardinality(DestBefore(L, i)),
   dest_amount_sum_hist |-> Total(L, DestBefore(L, i)),
   orig_count_hist |-> Cardinality(OrigBefore(L, i)),
   orig_amount_sum_hist |-> Total(L, OrigBefore(L, i)),
   edge_count_hist |-> Cardinality(DestBefore(L, i) \cap OrigBefore(L, i))]

\* transfers into the account that now cashes out, over the whole file; only
\* the first counts, and only if it came in an earlier step
Inflows(L, i) == {j \in DOMAIN L : L[j].type = "TRANSFER" /\ L[j].nameDest = L[i].nameOrig}
FirstInflow(L, i) == CHOOSE j \in Inflows(L, i) : \A k \in Inflows(L, i) : j <= k
Gap(x, y) == IF x < y THEN y - x ELSE x - y

is_mule(L, i) ==
  /\ L[i].type = "CASH_OUT"
  /\ \E j \in Inflows(L, i) : L[j].step < L[i].step

Mule(L, i) ==
  IF ~is_mule(L, i) THEN [is_mule_chain |-> 0, mule_time_since_transfer |-> 0, is_rapid |-> 0]
  ELSE LET j == FirstInflow(L, i)
           since == L[i].step - L[j].step
       IN [is_mule_chain |-> 1,
           mule_time_since_transfer |-> since,
           is_rapid |-> IF since <= 6 /\ 5 * Gap(L[i].amount, L[j].amount) <= L[j].amount + 1
                        THEN 1 ELSE 0]

\* mutant of Window: events of the row's own step are in it
WindowToNow(L, i, w) ==
  {j \in DOMAIN L : /\ L[j].nameDest = L[i].nameDest
                    /\ L[j].step >= L[i].step - w /\ L[j].step <= L[i].step /\ j # i}

\* the recipient's events in [step - w, step - 1], by a self-join
Window(L, i, w) ==
  {j \in DOMAIN L : /\ L[j].nameDest = L[i].nameDest
                    /\ L[j].step >= L[i].step - w /\ L[j].step <= L[i].step - 1}

Recipient(L, i) ==
  [w \in Windows |->
     LET past == Window(L, i, w)
     IN [pit_prior_count |-> Cardinality(past),
         pit_prior_amount |-> Total(L, past),
         pit_distinct_senders |-> Cardinality({L[j].nameOrig : j \in past}),
         pit_steps_since_last_event |->
           IF past = {} THEN Never ELSE L[i].step - Max({L[j].step : j \in past})]]

Settled(L, i) == <<History(L, i), Mule(L, i), Recipient(L, i)>>
------------------------------------------------------------------------------
\* Velocities: transform('count') over the step and over the day

\* mutant of Peers: a week of days falls together (day_of_week, not day_index)
PeersByHour(L, i) ==
  {j \in DOMAIN L : L[j].step % Hours = L[i].step % Hours}

Peers(L, i) == {j \in DOMAIN L : Day(L[j]) = Day(L[i])}

Velocity(L, i) ==
  LET dest == {j \in Peers(L, i) : L[j].nameDest = L[i].nameDest}
      orig == {j \in Peers(L, i) : L[j].nameOrig = L[i].nameOrig}
      sameStep(S) == {j \in S : L[j].step = L[i].step}
  IN [dest_velocity_1h |-> Cardinality(sameStep(dest)),
      dest_velocity_24h |-> Cardinality(dest),
      orig_velocity_1h |-> Cardinality(sameStep(orig)),
      orig_velocity_24h |-> Cardinality(orig)]
------------------------------------------------------------------------------
\* What is fitted: statistics by type and hour, and the risk of the recipient

\* mutant of TrainRows: every row there is
TrainRowsAll(L) == DOMAIN L

TrainRows(L) == {j \in DOMAIN L : L[j].step <= TrainEnd}

\* amount_zscore_by_type_hour is a function of these rows (or of all training
\* rows when there are none) and of the row
Channel(L, i) ==
  {j \in TrainRows(L) : /\ L[j].type = L[i].type
                        /\ L[j].step % Hours = L[i].step % Hours}

\* mutant of EncodingRows: the row's own fold is not left out
EncodingRowsAll(L, i) == TrainRows(L)

\* a training row is encoded from the other folds, any other from all of them
EncodingRows(L, i) ==
  {j \in TrainRows(L) : L[i].step <= TrainEnd => L[j].fold # L[i].fold}

\* count and sum of dest_stats; fillna(prior) is what they smooth to when empty
dest_stats(L, i) ==
  LET seen == {j \in EncodingRows(L, i) : L[j].nameDest = L[i].nameDest}
  IN [count |-> Cardinality(seen), sum |-> Cardinality({j \in seen : L[j].isFraud = 1})]

global_train_prior(L) ==
  [count |-> Cardinality(TrainRows(L)),
   sum |-> Cardinality({j \in TrainRows(L) : L[j].isFraud = 1})]

Fitted(L, i) == <<Channel(L, i), dest_stats(L, i), global_train_prior(L)>>
------------------------------------------------------------------------------

PointInTimeInit == ledger = <<>>

\* one more row of the file; a fold is dealt to it by the shuffle
ReadRow ==
  /\ Len(ledger) < MaxRows
  /\ \E row \in Rows :
       /\ row.nameOrig # row.nameDest
       /\ ledger # <<>> => row.step >= ledger[Len(ledger)].step
       /\ ledger' = Append(ledger, row)

PointInTimeSpec == PointInTimeInit /\ [][ReadRow]_ledger
------------------------------------------------------------------------------

(***************************************************************************)
(* Histories, mule chains and the recipient's windows are those of the     *)
(* time of the transaction: no later row, not even one of the same step,   *)
(* changes those of a row already there, though mule chains and windows    *)
(* are computed over the whole file.                                       *)
(***************************************************************************)
PastStays ==
  \A i \in DOMAIN ledger : Settled(ledger', i) = Settled(ledger, i)
PastIsSettled == [][PastStays]_ledger

(***************************************************************************)
(* The velocities do look ahead, and this is how far: only to rows of the  *)
(* same day (step // 24, so the last step of a partition shares its day    *)
(* with the next partition) and of one of the row's two accounts.          *)
(***************************************************************************)
SameDayAndAccount(row, new) ==
  /\ Day(new) = Day(row)
  /\ new.nameDest = row.nameDest \/ new.nameOrig = row.nameOrig
OnlyWithinTheDay ==
  \A i \in DOMAIN ledger :
    Velocity(ledger', i) # Velocity(ledger, i) =>
      SameDayAndAccount(ledger[i], ledger'[Len(ledger')])
LookaheadIsOneDay == [][OnlyWithinTheDay]_ledger

(***************************************************************************)
(* What was fitted when the training rows ended (z-score statistics, risk  *)
(* encoding, prior) is what every row, also of later partitions, is        *)
(* given: calibration, policy and test rows add nothing to it.             *)
(***************************************************************************)
FitStays ==
  (\E j \in DOMAIN ledger : ledger[j].step > TrainEnd) =>
    \A i \in DOMAIN ledger : Fitted(ledger', i) = Fitted(ledger, i)
FittedOnTrainOnly == [][FitStays]_ledger

Relabelled(i) == [ledger EXCEPT ![i].isFraud = 1 - @]

(***************************************************************************)
(* The encoding is out of fold: a training row's own label has no part in  *)
(* the statistics it is encoded with (it has one in the prior, as the code *)
(* computes it).                                                           *)
(***************************************************************************)
OwnLabelUnseen ==
  \A i \in DOMAIN ledger : dest_stats(Relabelled(i), i) = dest_stats(ledger, i)

(***************************************************************************)
(* The feature tables leak no more than they say: the four statements      *)
(* above together.                                                         *)
(***************************************************************************)
FeaturesSettle ==
  PastIsSettled /\ LookaheadIsOneDay /\ FittedOnTrainOnly /\ []OwnLabelUnseen
==============================================================================
