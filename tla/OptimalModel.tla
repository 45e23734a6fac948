----------------------------- MODULE OptimalModel -----------------------------
(***************************************************************************)
(* 04.BuildOptimalModel.ipynb: the four-stage temporal protocol (train,    *)
(* calibrate, choose thresholds, evaluate once), and the sections appended *)
(* to it, which take a champion from disk or train one and save it.  Files *)
(* are looked for in the Artifact of the working directory and in that of  *)
(* its parent ("sub" is a directory of "root").                            *)
(***************************************************************************)
EXTENDS Notebook

\* the stages, in their order, and the first and last step of each
OptStages == {"train", "calib", "policy", "oot"}
OptWindow ==
  [train |-> <<1, 480>>, calib |-> <<481, 552>>, policy |-> <<553, 600>>,
   oot |-> <<601, 743>>]

Here == cwd
Parents == IF cwd = "sub" THEN {"root"} ELSE {}

\* CFG.output_dir; it is created
OptConfig ==
  LET up == {d \in Parents : OnDisk(d, "Artifact")}
      out == IF OnDisk(Here, "Artifact") \/ up = {} THEN Here ELSE CHOOSE d \in up : TRUE
  IN /\ At("config") /\ Goto("load")
     /\ Bind([out |-> out])
     /\ Write(out, "Artifact", "dir")
     /\ NoTraining /\ UNCHANGED restarts

\* TRANSFER and CASH_OUT only, without the balance columns
OptLoad ==
  Compute("load", "split", [df |-> [p \in OptStages |-> Mix({X(p), Y(p)})]])

\* the masks, and the asserts that each ends before the next begins
OptSplit ==
  /\ OptWindow.train[2] < OptWindow.calib[1]
  /\ OptWindow.calib[2] < OptWindow.policy[1]
  /\ OptWindow.policy[2] < OptWindow.oot[1]
  /\ Compute("split", "features", [masks |-> OptWindow])

\* what a row's features are made of: rows before it and rows of its day (the
\* velocities), and the statistics and the encoding fitted on training rows
OptFeatures ==
  Compute("features", "partitions",
          [X_raw_fe |-> [p \in OptStages |-> Featured(OptWindow, p)]])

\* X_train, y_train, X_calib, ...
OptPartitions ==
  Compute("partitions", "resolve",
          [X |-> mem.X_raw_fe, y |-> [p \in OptStages |-> Y(p)]])
------------------------------------------------------------------------------
\* The first appended section

Candidates == <<mem.out, Here>> \o (IF Parents = {} THEN <<>> ELSE <<"root">>)

\* the first candidate that exists, if any
Found(f) == {d \in {Candidates[i] : i \in 1..Len(Candidates)} : OnDisk(d, f)}
FirstPath(f) ==
  LET i == CHOOSE i \in 1..Len(Candidates) :
             OnDisk(Candidates[i], f) /\ \A j \in 1..(i - 1) : ~OnDisk(Candidates[j], f)
  IN disk[<<Candidates[i], f>>]

\* raw scores through the calibrator, on the policy and the OOT rows
Calibrated(model, calibrator) ==
  [policy_prob |-> Mix({model, calibrator, mem.X["policy"]}),
   oot_prob |-> Mix({model, calibrator, mem.X["oot"]})]

\* what was found is loaded and used; a torn file raises
Take(c, next, m, k) ==
  IF Torn \in {m, k} THEN Raise(c)
  ELSE Compute(c, next, Calibrated(m, k))

\* fb_resolve_optimal_probabilities: no cell defines the vectors or the objects
\* it looks for in memory; model and calibrator are looked for one by one
Resolve ==
  /\ cell = "resolve"
  /\ IF Found("model.json") # {} /\ Found("calibrator.pkl") # {}
     THEN Take("resolve", "first", FirstPath("model.json"), FirstPath("calibrator.pkl"))
     ELSE Compute("resolve", "champion", NoNames)

\* thresholds are chosen on the policy rows and applied to the OOT rows
FirstSelection ==
  LET t == Mix({mem.y["policy"], mem.policy_prob})
  IN Compute("first", "champion",
             [fb_phase04_oot |-> Mix({t, mem.oot_prob, mem.y["oot"]})])
------------------------------------------------------------------------------
\* The second one

Saved(f) == OnDisk(Here, f)

\* mutant of Champion: each file is taken from wherever it is found
ChampionAnywhere ==
  /\ cell = "champion"
  /\ Found("model.json") # {} /\ Found("calibrator.pkl") # {}
  /\ Take("champion", "select", FirstPath("model.json"), FirstPath("calibrator.pkl"))

\* both files are there: they are loaded
Champion ==
  /\ cell = "champion"
  /\ Saved("model.json") /\ Saved("calibrator.pkl")
  /\ Take("champion", "select", disk[<<Here, "model.json">>], disk[<<Here, "calibrator.pkl">>])

\* mutant of ChampionEvalSet: early stopping watches the OOT rows
ChampionEvalSetOot == {mem.X["oot"], mem.y["oot"]}

\* eval_set of the fit, which stops early on it
ChampionEvalSet == {mem.X["calib"], mem.y["calib"]}

\* one of them is not: a model is trained, and its file opened
TrainChampion ==
  /\ At("champion") /\ Goto("save")
  /\ ~(Saved("model.json") /\ Saved("calibrator.pkl"))
  /\ Bind([fb_optimal_model |->
             Trained({mem.X["train"], mem.y["train"]} \cup ChampionEvalSet)])
  /\ disk' = Put(Put(disk, <<Here, "Artifact">>, "dir"), <<Here, "model.json">>, Torn)
  /\ Training /\ UNCHANGED restarts

SaveChampion == Close("save", "calibrate", Here, "model.json", mem.fb_optimal_model)

\* the Platt calibrator, on the calibration rows; its file is opened
FitCalibrator ==
  /\ At("calibrate") /\ Goto("dump")
  /\ Bind([fb_calibrator |-> Mix({mem.fb_optimal_model, mem.X["calib"], mem.y["calib"]})])
  /\ Write(Here, "calibrator.pkl", Torn)
  /\ NoTraining /\ UNCHANGED restarts

DumpCalibrator ==
  /\ At("dump") /\ Goto("select")
  /\ Bind(Calibrated(mem.fb_optimal_model, mem.fb_calibrator))
  /\ Write(Here, "calibrator.pkl", mem.fb_calibrator)
  /\ NoTraining /\ UNCHANGED restarts

SelectThresholds ==
  Compute("select", "oot",
          [fb_frozen_thresholds |-> Mix({mem.y["policy"], mem.policy_prob})])

EvaluateOot ==
  Compute("oot", "daily",
          [df_fb_phase04_oot |->
             Mix({mem.fb_frozen_thresholds, mem.oot_prob, mem.y["oot"]})])

\* the same thresholds, day by day
EvaluateDaily ==
  Compute("daily", "done",
          [df_fb_daily_oot |-> Mix({mem.fb_frozen_thresholds, mem.oot_prob, mem.y["oot"]})])

OptimalNext ==
  /\ book = "optimal"
  /\ \/ OptConfig \/ OptLoad \/ OptSplit \/ OptFeatures \/ OptPartitions
     \/ Resolve \/ FirstSelection
     \/ Champion \/ TrainChampion \/ SaveChampion \/ FitCalibrator \/ DumpCalibrator
     \/ SelectThresholds \/ EvaluateOot \/ EvaluateDaily
     \/ KernelRestart("optimal", "config")

\* an older pair may be in root's Artifact
OptimalInit ==
  \E files \in {NoNames,
                [f \in {"root"} \X {"Artifact", "model.json", "calibrator.pkl"} |->
                   IF f[2] = "Artifact" THEN "dir" ELSE From({}, {0})]} :
    NotebookInit("optimal", "config", files)

\* names of nb04 that decide something before the OOT rows are evaluated
OptimalDecisions == {"fb_optimal_model", "fb_calibrator", "fb_frozen_thresholds"}
------------------------------------------------------------------------------

(***************************************************************************)
(* Whatever was left on disk by kernels that died, in whichever directory  *)
(* they ran, the thresholds and the scores of the final OOT report come    *)
(* from one model and the calibrator fitted to it.                         *)
(***************************************************************************)
EvaluatedPairMatches ==
  book = "optimal" /\ Is("df_fb_phase04_oot") =>
    Cardinality(mem.df_fb_phase04_oot.of) = 1

(***************************************************************************)
(* Claimed by the first appended section: thresholds "must be computed on  *)
(* calibrated probabilities generated by the verified Champion".  The      *)
(* resolver pairs files it finds separately.                               *)
(***************************************************************************)
ResolvedPairMatches ==
  book = "optimal" /\ Is("fb_phase04_oot") => Cardinality(mem.fb_phase04_oot.of) = 1

(***************************************************************************)
(* Claimed by both sections: the calibration steps are "exclusively        *)
(* reserved" for the calibrator.                                           *)
(***************************************************************************)
CalibrationReserved ==
  book = "optimal" /\ Is("fb_optimal_model") =>
    "calib" \notin Labels(mem.fb_optimal_model)
==============================================================================
