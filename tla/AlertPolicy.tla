----------------------------- MODULE AlertPolicy -----------------------------
(***************************************************************************)
(* How the notebooks turn scores into alerts: the threshold rules, on the  *)
(* rows they are chosen on, and the evaluation that prices the alerts.     *)
(* Scores are fractions of Unit.  Money is counted in fifths, so that 0.20 *)
(* of an amount is whole; F-beta is compared by its numerator and its      *)
(* denominator, never divided.                                             *)
(***************************************************************************)
EXTENDS Integers, Sequences, FiniteSets, FiniteSetsExt

CONSTANTS
  Unit,       \* the score 1.0
  Sums,       \* amounts of transactions
  Betas,      \* quarters of beta: 4 for F1, and 6, 7, 8 (1.50, 1.75, 2.00)
  Budget,     \* FPR budget, one in so many legitimate rows: 100 and others
  OneIn,      \* alert capacity, one in so many rows: 100
  Points,     \* thresholds the net-value search tries at least: 50
  MaxScored   \* bound: rows

ASSUME AlertPolicyAssumption ==
  /\ Unit \in Nat \ {0} /\ Sums \subseteq Nat /\ Betas \subseteq Nat \ {0}
  /\ Budget \in Nat \ {0, 1} /\ OneIn \in Nat \ {0} /\ Points \in Nat \ {0}
  /\ MaxScored \in Nat

VARIABLE scored   \* rows a policy is chosen on or evaluated on

ScoredRows == [score : 0..Unit, isFraud : {0, 1}, amount : Sums]

PolicyInit == scored = <<>>

\* the order of the file matters only among equal scores: rows come by score
ScoreRow ==
  /\ Len(scored) < MaxScored
  /\ \E row \in ScoredRows :
       /\ scored # <<>> => row.score >= scored[Len(scored)].score
       /\ scored' = Append(scored, row)

PolicySpec == PolicyInit /\ [][ScoreRow]_scored
------------------------------------------------------------------------------
\* Evaluation of a set of alerts

Fraud(rows) == {i \in DOMAIN rows : rows[i].isFraud = 1}
Legit(rows) == DOMAIN rows \ Fraud(rows)
Alerts(rows, t) == {i \in DOMAIN rows : rows[i].score >= t}
Sum5(rows, S) == SumFunction([i \in S |-> 5 * rows[i].amount])

\* mutant of NetValue: false positives cost no friction
NetValueFree(rows, A) ==
  Sum5(rows, A \cap Fraud(rows)) - 25 * Cardinality(A)

\* capture 1.00, friction 0.20, handling 5.00 an alert
NetValue(rows, A) ==
  Sum5(rows, A \cap Fraud(rows)) - Sum5(rows, A \cap Legit(rows)) \div 5 - 25 * Cardinality(A)

\* mutant of OracleValue: it pays for every row
OracleValueAll(rows) == Sum5(rows, Fraud(rows)) - 25 * Len(rows)

OracleValue(rows) == Sum5(rows, Fraud(rows)) - 25 * Cardinality(Fraud(rows))

\* 1.20 * p * amount - 0.20 * amount - 5.00, times 5 * Unit
expected_alert_value(row) == 6 * row.score * row.amount - Unit * row.amount - 25 * Unit
------------------------------------------------------------------------------
\* F-beta thresholds

Positives(rows, t) == Cardinality(Alerts(rows, t) \cap Fraud(rows))

\* mutant of Score: precision and recall swapped in the denominator
ScoreSwapped(rows, b, t) ==
  [num |-> Positives(rows, t),
   den |-> 16 * Cardinality(Fraud(rows)) + b * b * Cardinality(Alerts(rows, t))]

\* (1 + beta^2) * precision * recall / (beta^2 * precision + recall), without
\* the constant factor; 0 when nothing is caught
Score(rows, b, t) ==
  [num |-> Positives(rows, t),
   den |-> b * b * Cardinality(Fraud(rows)) + 16 * Cardinality(Alerts(rows, t))]

AtLeast(x, y) == x.num * y.den >= y.num * x.den

\* the thresholds of precision_recall_curve
Thresholds(rows) == {rows[i].score : i \in DOMAIN rows}

\* thresholds whose score is the maximum
Tied(rows, b) ==
  {t \in Thresholds(rows) :
     \A u \in Thresholds(rows) : AtLeast(Score(rows, b, t), Score(rows, b, u))}

\* the highest of tied thresholds
fb_select_threshold(rows, b) == Max(Tied(rows, b))

\* argmax over ascending thresholds: the lowest
ChosenThreshold(rows, b) == Min(Tied(rows, b))
------------------------------------------------------------------------------
\* The exact frontier: rows by descending score, then by row id, summed up

UpTo(rows, i) ==
  {j \in DOMAIN rows : \/ rows[j].score > rows[i].score
                       \/ rows[j].score = rows[i].score /\ j <= i}

\* mutant of Boundary: the first row of equal scores
BoundaryFirst(rows) ==
  {i \in DOMAIN rows : ~\E j \in DOMAIN rows : rows[j].score = rows[i].score /\ j < i}

\* where the next score differs, and the last row
Boundary(rows) ==
  {i \in DOMAIN rows : ~\E j \in DOMAIN rows : rows[j].score = rows[i].score /\ j > i}

exact_threshold_frontier(rows) ==
  {[threshold |-> rows[i].score,
    tp |-> Cardinality(UpTo(rows, i) \cap Fraud(rows)),
    fp |-> Cardinality(UpTo(rows, i) \cap Legit(rows)),
    captured |-> Sum5(rows, UpTo(rows, i) \cap Fraud(rows)),
    legit_alerted |-> Sum5(rows, UpTo(rows, i) \cap Legit(rows))] : i \in Boundary(rows)}

InBudget(rows, fp) == Budget * fp <= Max({Cardinality(Legit(rows)), 1})
Highest(F) == CHOOSE f \in F : \A g \in F : g.threshold <= f.threshold

\* mutant of BudgetPoints: within the budget by one row
BudgetPointsStrict(rows) ==
  {f \in exact_threshold_frontier(rows) : InBudget(rows, f.fp + 1)}

BudgetPoints(rows) == {f \in exact_threshold_frontier(rows) : InBudget(rows, f.fp)}

\* the points sort_values may put first: it does not keep the order of equals
BudgetThresholds(rows) ==
  LET sub == BudgetPoints(rows)
  IN IF sub = {} THEN {Highest(exact_threshold_frontier(rows)).threshold}
     ELSE {f.threshold : f \in {g \in sub : \A h \in sub : h.captured <= g.captured}}

\* mutant of Stride: rounded up
StrideUp(rows) == Max({1, Cardinality(Thresholds(rows)) \div Points + 1})

\* every so many points of the frontier are tried for net value
Stride(rows) == Max({1, Cardinality(Thresholds(rows)) \div Points})
Tried(rows) ==
  {t \in Thresholds(rows) :
     Cardinality({u \in Thresholds(rows) : u > t}) % Stride(rows) = 0}

\* the first best from the top
NetValueThreshold(rows) ==
  Max({t \in Tried(rows) : \A u \in Tried(rows) :
         NetValue(rows, Alerts(rows, u)) <= NetValue(rows, Alerts(rows, t))})

\* mutant of Capacity: rounded down
CapacityFloor(rows) == Max({1, Len(rows) \div OneIn})

\* k = ceil(0.01 * n)
Capacity(rows) == (Len(rows) + OneIn - 1) \div OneIn

\* the k-th highest score
TopCutoff(rows) ==
  Max({t \in Thresholds(rows) : Cardinality(Alerts(rows, t)) >= Capacity(rows)})
------------------------------------------------------------------------------
\* The same rules in nb03: a grid of thresholds, and a percentile

Grid == 1..(Unit - 1)
FalseAlerts(rows, t) == Cardinality(Alerts(rows, t) \cap Legit(rows))

\* of the grid, the thresholds within the budget
fpr1pct_candidates(rows) == {t \in Grid : InBudget(rows, FalseAlerts(rows, t))}

\* ascending order: the k-th value
Ascending(rows, k) ==
  CHOOSE t \in Thresholds(rows) :
    /\ Cardinality({i \in DOMAIN rows : rows[i].score < t}) < k
    /\ Cardinality({i \in DOMAIN rows : rows[i].score <= t}) >= k

\* np.percentile, linear between neighbours; times OneIn
t_top1pct(rows) ==
  LET h == (Len(rows) - 1) * (OneIn - 1)
      below == Ascending(rows, h \div OneIn + 1)
      above == IF h % OneIn = 0 THEN below ELSE Ascending(rows, h \div OneIn + 2)
  IN OneIn * below + (h % OneIn) * (above - below)
------------------------------------------------------------------------------

Chosen == scored # <<>>
Cutoffs == 0..(Unit + 1)

\* external: sklearn's fbeta_score, from the counts of the confusion matrix
fbeta_score(rows, b, t) ==
  LET tp == Positives(rows, t)
      fp == FalseAlerts(rows, t)
      fn == Cardinality(Fraud(rows)) - tp
  IN [num |-> (16 + b * b) * tp,
      den |-> Max({1, (16 + b * b) * tp + b * b * fn + 16 * fp})]

(***************************************************************************)
(* Both F-beta rules do find the best F-beta there is, over every cutoff   *)
(* and not only the scores seen, ties or not.                              *)
(***************************************************************************)
ThresholdsAreBest ==
  Chosen =>
    \A b \in Betas : \A t \in Cutoffs :
      /\ AtLeast(fbeta_score(scored, b, fb_select_threshold(scored, b)), fbeta_score(scored, b, t))
      /\ AtLeast(fbeta_score(scored, b, ChosenThreshold(scored, b)), fbeta_score(scored, b, t))

(***************************************************************************)
(* Recall-oriented: a larger beta never raises the threshold, so it alerts *)
(* on every row the smaller beta alerts on.                                *)
(***************************************************************************)
BetaMonotone ==
  Chosen =>
    \A b, c \in Betas :
      b <= c => fb_select_threshold(scored, c) <= fb_select_threshold(scored, b)

Labelled(row, y) == <<[row EXCEPT !.isFraud = y]>>

(***************************************************************************)
(* The expected value a row is alerted on is what the evaluation pays in   *)
(* expectation, if the probability is right: p of the net value of an      *)
(* alert on a fraud, and 1 - p of that on a legitimate row.  (The factors  *)
(* of the two formulas are written down separately.)                       *)
(***************************************************************************)
EvIsExpectedNbv ==
  \A i \in DOMAIN scored :
    LET row == scored[i]
    IN expected_alert_value(row) =
         row.score * NetValue(Labelled(row, 1), {1})
         + (Unit - row.score) * NetValue(Labelled(row, 0), {1})

(***************************************************************************)
(* The oracle is an upper bound, so that nbv_efficiency is at most one,    *)
(* when no fraud is smaller than the cost of an alert.                     *)
(***************************************************************************)
OracleIsBest ==
  (\A i \in Fraud(scored) : scored[i].amount >= 5) =>
    \A t \in Cutoffs : NetValue(scored, Alerts(scored, t)) <= OracleValue(scored)

(***************************************************************************)
(* The cumulated frontier says what an evaluation at its threshold says,   *)
(* ties included, and it has every threshold there is.                     *)
(***************************************************************************)
FrontierIsEvaluation ==
  /\ {f.threshold : f \in exact_threshold_frontier(scored)} = Thresholds(scored)
  /\ \A f \in exact_threshold_frontier(scored) :
       LET A == Alerts(scored, f.threshold)
       IN /\ f.tp = Cardinality(A \cap Fraud(scored))
          /\ f.fp = Cardinality(A \cap Legit(scored))
          /\ f.captured = Sum5(scored, A \cap Fraud(scored))
          /\ f.legit_alerted = Sum5(scored, A \cap Legit(scored))

(***************************************************************************)
(* The lowest grid threshold within the FPR budget (nb03) and the frontier *)
(* point within it that captures most (Master) capture the same amount,    *)
(* whichever of equal points the sort puts first, if each has one and there *)
(* is a legitimate row to count.                                           *)
(***************************************************************************)
FprRulesAgree ==
  (fpr1pct_candidates(scored) # {} /\ BudgetPoints(scored) # {} /\ Legit(scored) # {}) =>
    \A t \in BudgetThresholds(scored) :
      Sum5(scored, Alerts(scored, t) \cap Fraud(scored))
        = Sum5(scored, Alerts(scored, Min(fpr1pct_candidates(scored))) \cap Fraud(scored))

(***************************************************************************)
(* The strided search for net value finds the best cutoff while the        *)
(* frontier has fewer than two strides' worth of points.                   *)
(***************************************************************************)
NetValueRuleIsBest ==
  (Chosen /\ Cardinality(Thresholds(scored)) < 2 * Points) =>
    \A t \in Cutoffs :
      Alerts(scored, t) # {} =>
        NetValue(scored, Alerts(scored, t))
          <= NetValue(scored, Alerts(scored, NetValueThreshold(scored)))

(***************************************************************************)
(* The interpolated percentile (nb03) and the k-th highest score (Master)  *)
(* alert on the same rows, and they exceed the capacity only by ties.      *)
(***************************************************************************)
CapacityRulesAgree ==
  Chosen =>
    /\ Alerts(scored, TopCutoff(scored))
         = {i \in DOMAIN scored : OneIn * scored[i].score >= t_top1pct(scored)}
    /\ Cardinality(Alerts(scored, TopCutoff(scored) + 1)) < Capacity(scored)

(***************************************************************************)
(* The rules of the notebooks are sound: the five statements above and     *)
(* ThresholdsAreBest.                                                      *)
(***************************************************************************)
RulesAreSound ==
  /\ ThresholdsAreBest /\ OracleIsBest /\ NetValueRuleIsBest
  /\ FrontierIsEvaluation /\ FprRulesAgree /\ CapacityRulesAgree

(***************************************************************************)
(* Claimed by PolicySpec.exact_tie_break_rule = "raw_row_id_ascending":    *)
(* ties are broken, so the capacity is kept.                               *)
(***************************************************************************)
CapacityIsKept ==
  Chosen => Cardinality(Alerts(scored, TopCutoff(scored))) <= Capacity(scored)
==============================================================================
