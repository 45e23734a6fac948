----------------------------- MODULE EnhancedModel -----------------------------
(***************************************************************************)
(* 03.BuildXGBoostEnhance.ipynb: anchor and weighted models, a study, the  *)
(* enhanced model, operating thresholds and F-beta thresholds, and their   *)
(* evaluation on the out-of-time rows.  Nothing is saved.                  *)
(***************************************************************************)
EXTENDS Notebook

EnhStages == {"train", "val", "test"}
EnhWindow == [train |-> <<1, 480>>, val |-> <<481, 600>>, test |-> <<601, 743>>]

EnhLoad ==
  Compute("load", "features", [df_subset |-> [p \in EnhStages |-> Mix({X(p), Y(p)})]])

\* build_enhanced_features, the z-score and the out-of-fold target encoding
build_enhanced_features ==
  Compute("features", "partitions",
          [X_raw_fe |-> [p \in EnhStages |-> Featured(EnhWindow, p)]])

EnhPartitions ==
  Compute("partitions", "anchor",
          [X |-> mem.X_raw_fe, y |-> [p \in EnhStages |-> Y(p)]])

Part(p) == {mem.X[p], mem.y[p]}

\* mutant of EnhEvalSet: early stopping watches the rows kept for the test
EnhEvalSetTest == Part("train") \cup Part("test")

\* eval_set of the fits; the last set stops them early
EnhEvalSet == Part("train") \cup Part("val")

Anchor ==
  Train("anchor", "weighted", [anchor_model |-> Trained(Part("train") \cup EnhEvalSet)])

Weighted ==
  Train("weighted", "study", [weighted_model |-> Trained(Part("train") \cup EnhEvalSet)])

\* fifty trials, stopped early and scored on the validation rows
optuna_enhanced_objective ==
  Train("study", "enhanced", [study_enh |-> Trained(Part("train") \cup Part("val"))])

Enhanced ==
  Train("enhanced", "explain",
        [enhanced_model |-> Trained({mem.study_enh} \cup Part("train") \cup EnhEvalSet)])

\* gain and weight importance, SHAP of a sample of validation rows
EnhExplain ==
  Compute("explain", "sweep", [shap_values_enh |-> Mix({mem.enhanced_model, mem.X["val"]})])

\* the grid of thresholds: t_fpr1pct, t_biz, t_f1, t_hp
ThresholdSweep ==
  LET val_probs_enh == Mix({mem.enhanced_model, mem.X["val"]})
  IN Compute("sweep", "benchmark",
             [val_probs_enh |-> val_probs_enh,
              df_curves_enh |-> Mix({val_probs_enh, mem.y["val"]})])

\* the frozen thresholds on the test rows; the top 1% cutoff is of test scores
evaluate_enhanced_strategy ==
  LET test_probs_enh == Mix({mem.enhanced_model, mem.X["test"]})
  IN Compute("benchmark", "latency",
             [test_probs_enh |-> test_probs_enh,
              oot_benchmark_records |-> Mix({test_probs_enh, mem.df_curves_enh, mem.y["test"]})])

\* single-row predictions; no label is looked at
Latency ==
  Compute("latency", "fb", [single_latencies_ms |-> Mix({mem.enhanced_model, mem.X["test"]})])

\* the F-beta section binds its own names, and asserts the chronology
FbProvenance ==
  /\ EnhWindow.val[2] < EnhWindow.test[1]
  /\ Compute("fb", "fb_select",
             [fb_selection |-> Mix({mem.y["val"], mem.val_probs_enh}),
              fb_oot |-> Mix({mem.y["test"], mem.test_probs_enh})])

\* fb_select_threshold for each beta, priced on the rows it was chosen on
fb_thresh_records ==
  Compute("fb_select", "fb_frozen", [fb_thresh_records |-> mem.fb_selection])

FbFrozen ==
  Compute("fb_frozen", "fb_daily",
          [fb_phase03_oot |-> Mix({mem.fb_thresh_records, mem.df_curves_enh, mem.fb_oot})])

\* the frozen thresholds day by day
FbDaily ==
  Compute("fb_daily", "done",
          [fb_phase03_daily |-> Mix({mem.fb_thresh_records, mem.fb_oot})])

EnhancedInit == NotebookInit("enhanced", "load", NoNames)

EnhancedNext ==
  /\ book = "enhanced"
  /\ \/ EnhLoad \/ build_enhanced_features \/ EnhPartitions
     \/ Anchor \/ Weighted \/ optuna_enhanced_objective \/ Enhanced \/ EnhExplain
     \/ ThresholdSweep \/ evaluate_enhanced_strategy \/ Latency
     \/ FbProvenance \/ fb_thresh_records \/ FbFrozen \/ FbDaily
     \/ KernelRestart("enhanced", "load")

EnhancedDecisions ==
  {"anchor_model", "weighted_model", "study_enh", "enhanced_model", "df_curves_enh",
   "fb_thresh_records"}
==============================================================================
