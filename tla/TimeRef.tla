------------------------------- MODULE TimeRef -------------------------------
(***************************************************************************)
(* core/timeref.py: the event time of a PaySim row, which has only an hour *)
(* index (step).  The rows of a step are spread over its hour by integer   *)
(* floor division.  The same formula is in bronze_to_silver (SQL) and in   *)
(* replay (pandas).  SIM_EPOCH_US is 0 here.                               *)
(***************************************************************************)
EXTENDS Integers

CONSTANT HourUs   \* US_PER_HOUR

ASSUME HourAssumption == HourUs \in Nat \ {0}

DeriveEventTs(step, intraStepSeq, stepCardinality) ==
  LET cardinality == IF stepCardinality > 1 THEN stepCardinality ELSE 1 IN
  (step - 1) * HourUs + ((intraStepSeq - 1) * HourUs) \div cardinality

\* the step a timestamp lies in; a time before the epoch counts as step 1
DeriveStepFromTs(ts) ==
  LET hours == ts \div HourUs IN 1 + (IF hours >= 0 THEN hours ELSE 0)
==============================================================================
