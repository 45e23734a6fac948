----------------------------- MODULE DecisionTree -----------------------------
(***************************************************************************)
(* notebook/nam/decision_tree.ipynb: ten candidate features, a selection,  *)
(* walk-forward folds, a threshold, the final model, and its registration. *)
(* The results file is written before the registration and, with the run   *)
(* that registered the model, after it.  A kernel is known by the number   *)
(* of restarts before it.                                                  *)
(***************************************************************************)
EXTENDS Notebook

TreeParts == {"train", "test"}
TreeRows(part) == {X(part), Y(part)}
Results == "decision_tree_results.json"
RegisteredName == "paysim-fraud-decision_tree"

\* the random split, and aggregates of the training rows
build_step2_features ==
  Compute("features", "ablation",
          [X2 |-> [p \in TreeParts |-> Mix({X(p), X("train")})]])

\* the features are chosen by their PR-AUC on the test rows
Ablation ==
  Compute("ablation", "walk",
          [FEATURES_CANDIDATES |-> Mix(TreeRows("train") \cup TreeRows("test"))])

\* expanding folds over all rows
WalkForward ==
  Compute("walk", "shap",
          [wf |-> Mix({mem.FEATURES_CANDIDATES} \cup TreeRows("train") \cup TreeRows("test"))])

\* a model like the final one is refitted and explained on test rows
ExplainTree ==
  Compute("shap", "threshold",
          [m5 |-> Mix({mem.FEATURES_CANDIDATES} \cup TreeRows("train") \cup TreeRows("test"))])

\* the best F-beta on an inner fifth of the training rows
BaselineThreshold ==
  Compute("threshold", "final",
          [BASELINE_THRESHOLD |-> Mix({mem.FEATURES_CANDIDATES} \cup TreeRows("train"))])

FinalModel ==
  LET final == Mix({mem.FEATURES_CANDIDATES} \cup TreeRows("train"))
  IN Compute("final", "results",
             [final_model |-> final,
              TEST_METRICS_BASELINE |->
                Mix({final, mem.BASELINE_THRESHOLD} \cup TreeRows("test"))])

\* mutant of Measured: the registration an earlier kernel wrote stays
MeasuredBeside ==
  [kernel |-> restarts,
   mlflow |-> IF OnDisk(cwd, Results) THEN disk[<<cwd, Results>>].mlflow ELSE {}]

\* what the file says: whose metrics, and the version they are registered as
TornFile == [kernel |-> MaxRestarts + 1, mlflow |-> {}]
Measured == [kernel |-> restarts, mlflow |-> {}]

OpenJson(c, next) ==
  /\ At(c) /\ Goto(next) /\ Write(cwd, Results, TornFile)
  /\ UNCHANGED <<mem, fits, restarts>>
OpenResults ==
  /\ At("results") /\ Goto("dump")
  /\ Bind([results |-> Measured]) /\ Write(cwd, Results, TornFile)
  /\ UNCHANGED <<fits, restarts>>
SaveResults == Close("dump", "register", cwd, Results, mem.results)

TreeVersions ==
  IF OnDisk("mlflow", RegisteredName) THEN disk[<<"mlflow", RegisteredName>>] ELSE <<>>

\* every kernel registers a version, or the server does not answer
register_sklearn_model ==
  \/ /\ At("register") /\ Goto("update")
     /\ Bind([MLFLOW_RESULT |-> Len(TreeVersions) + 1])
     /\ Write("mlflow", RegisteredName, Append(TreeVersions, [kernel |-> restarts]))
     /\ UNCHANGED <<fits, restarts>>
  \/ Raise("register")

OpenUpdate == OpenJson("update", "dump_update")
UpdateResults ==
  Close("dump_update", "done", cwd, Results,
        [mem.results EXCEPT !.mlflow = {mem.MLFLOW_RESULT}])

TreeInit == NotebookInit("tree", "features", NoNames)
TreeNext ==
  /\ book = "tree"
  /\ \/ build_step2_features \/ Ablation \/ WalkForward \/ ExplainTree
     \/ BaselineThreshold \/ FinalModel
     \/ OpenResults \/ SaveResults \/ register_sklearn_model
     \/ OpenUpdate \/ UpdateResults
     \/ KernelRestart("tree", "features")
------------------------------------------------------------------------------

(***************************************************************************)
(* Whichever kernels died before or between the two writes, a results file *)
(* that names a registered version holds the metrics of the kernel that    *)
(* registered it.                                                          *)
(***************************************************************************)
ResultsNameTheirModel ==
  book = "tree" =>
    \A d \in {"root", "sub"} :
      OnDisk(d, Results) =>
        \A v \in disk[<<d, Results>>].mlflow :
          TreeVersions[v].kernel = disk[<<d, Results>>].kernel

(***************************************************************************)
(* Claimed by "PIT-safe" and "freeze" in the notebook and contradicted by  *)
(* the comparison's own governance table: nothing that is decided before   *)
(* the test metrics is a function of test labels.                          *)
(***************************************************************************)
SelectionIsBlind ==
  book = "tree" /\ Is("final_model") => "test" \notin Labels(mem.final_model)
==============================================================================
