----------------------------- MODULE RandomForest -----------------------------
(***************************************************************************)
(* The random-forest notebooks colab_01 to colab_06.  They hand each other *)
(* files in the _cache of the directory their kernel runs in ("sub" is     *)
(* notebooks/colab, "root" the repository), and register models with       *)
(* MLflow.  Each can be run or rerun at any time and die at any cell.      *)
(* Seeds are fixed, so a model is known by its features, its parameters    *)
(* and the partitions it was fitted to.                                    *)
(***************************************************************************)
EXTENDS Notebook

RfBooks == {"colab_01", "colab_02", "colab_03", "colab_04", "colab_05", "colab_06"}
RfStages == {"train", "val", "test"}
RfWindow == [train |-> <<1, 520>>, val |-> <<521, 631>>, test |-> <<632, 743>>]

\* features: request-time and deployable ones, or all ten
\* parameters: make_rf's own, or the best of a study on such features
Default == <<"default", "">>
Best(features) == <<"best", features>>

\* rows with their labels
RowsOf(part) == {X(part), Y(part)}
Forest(features, params, parts) ==
  From(Mix(UNION {RowsOf(p) : p \in parts}).facts, {<<features, params>>})

\* a frame cut after MAX_STEPS (200) has training rows only: what scores
\* validation rows raises on it
NeedsVal(c, next, new) ==
  /\ cell = c
  /\ IF mem.frame = "whole" THEN Compute(c, next, new) ELSE Raise(c)

\* the first cell finds no file at PAYSIM_CSV, nor another one beside it, and
\* goes on; DuckDB raises when it is to read it
NoCsv == Raise("frame")

\* build_modeling_frame: the cached frame, or one built with this notebook's
\* MAX_STEPS and then cached
ReadFrame(next) ==
  LET file == "modeling_frame.parquet"
      Cached ==
        /\ OnDisk(cwd, file)
        /\ IF disk[<<cwd, file>>] = Torn THEN Raise("frame")
           ELSE Compute("frame", next, [frame |-> disk[<<cwd, file>>].steps])
      Build ==
        /\ ~OnDisk(cwd, file)
        /\ \E steps \in {"whole", "cut"} :
             /\ At("frame") /\ Goto("cache")
             /\ Bind([frame |-> steps, MAX_STEPS |-> steps])
             /\ Write(cwd, file, Torn) /\ NoTraining /\ UNCHANGED restarts
      ToParquet == Close("cache", next, cwd, file, [steps |-> mem.frame])
  IN \/ Cached \/ Build \/ ToParquet
     \/ ~OnDisk(cwd, file) /\ NoCsv

\* load_selected_features
ReadFeatures(c, next, new) ==
  LET file == "selected_features.json"
  IN IF ~OnDisk(cwd, file) THEN Compute(c, next, Override([FEATURES |-> "core"], new))
     ELSE IF disk[<<cwd, file>>] = Torn THEN Raise(c)
     ELSE Compute(c, next, Override([FEATURES |-> disk[<<cwd, file>>].features], new))

\* the tracking server answers the ping, or runs go to files, or the library is
\* not installed
_mlflow_ready(next) ==
  \E uri \in {"server", "local", "none"} : Compute("track", next, [MLFLOW |-> uri])

\* the run of an evaluation, with its tag; the server may be gone by now
SetTags(evaluated, touched) ==
  [run |-> [evaluated |-> evaluated, sealed_test_touched |-> touched]]
log_rf_evaluation(next, evaluated, touched) ==
  /\ cell = "log"
  /\ \/ mem.MLFLOW = "none" /\ Compute("log", next, NoNames)
     \/ mem.MLFLOW # "none" /\ Compute("log", next, SetTags(evaluated, touched))
     \/ mem.MLFLOW = "server" /\ Raise("log")
------------------------------------------------------------------------------
\* colab_01 looks at the raw rows, and profiles them; it makes no frame

connect_paysim ==
  \/ \E steps \in {"whole", "cut"} :
       Compute("frame", "overall", [con |-> steps, MAX_STEPS |-> steps])
  \/ NoCsv

Overall01 == Compute("overall", "track", [overall |-> Y("whole")])

Track01 == _mlflow_ready("log")

\* data_version: what a run says of the rows it profiles
data_version(rows) == [rows |-> rows, max_steps |-> mem.MAX_STEPS]

\* all rows are profiled, whatever MAX_STEPS is
Profile01 ==
  /\ cell = "log"
  /\ \/ mem.MLFLOW = "none" /\ Compute("log", "done", NoNames)
     \/ mem.MLFLOW # "none" /\ Compute("log", "done", [profile |-> data_version("whole")])
     \/ mem.MLFLOW = "server" /\ Raise("log")

Next01 == connect_paysim \/ Overall01 \/ Track01 \/ Profile01
------------------------------------------------------------------------------
\* colab_02: two feature sets, and the choice of one

Load02 == ReadFrame("arms")

train_eval_cm ==
  NeedsVal("arms", "choose",
           [res_base |-> Mix({Forest("static", Default, {"train"}), X("val"), Y("val")}),
            res_hist |-> Mix({Forest("all", Default, {"train"}), X("val"), Y("val")})])

\* the second is chosen, whatever the comparison says
Choose02 == Open("choose", "save", cwd, "selected_features.json")
save_selected_features ==
  Close("save", "track", cwd, "selected_features.json", [features |-> "all"])

Track02 == _mlflow_ready("log")
Log02 == log_rf_evaluation("done", Mix({mem.res_base, mem.res_hist}), FALSE)

Next02 ==
  Load02 \/ train_eval_cm \/ Choose02 \/ save_selected_features \/ Track02 \/ Log02
------------------------------------------------------------------------------
\* colab_03 and colab_04: walk-forward folds

Cuts == {360, 420, 480, 540}

\* mutant of TestWidth: folds twice as wide as the cuts allow
TestWidthTwice == 110

TestWidth == 55

\* partitions whose rows a fold trains on, or is scored on
Meets(part, first, last) == RfWindow[part][1] <= last /\ first <= RfWindow[part][2]
FoldParts ==
  {p \in RfStages :
     \E cut \in Cuts : Meets(p, 1, cut) \/ Meets(p, cut + 1, cut + TestWidth)}

Load03 == ReadFrame("features")
Features03 == ReadFeatures("features", "fit", NoNames)

Fit03 == NeedsVal("fit", "threshold", [model |-> Forest(mem.FEATURES, Default, {"train"})])

\* the threshold whose FPR on the validation rows is nearest 1%
Threshold03 ==
  Compute("threshold", "walk", [chosen_thr |-> Mix({mem.model, X("val"), Y("val")})])

run_walkforward ==
  Compute("walk", "cohorts", [folds_result |-> Forest(mem.FEATURES, Default, FoldParts)])

Cohorts03 == Compute("cohorts", "track", [rows |-> Mix({mem.model, X("val"), Y("val")})])

Track03 == _mlflow_ready("log")
Log03 ==
  log_rf_evaluation("done", Mix({mem.model, mem.chosen_thr, X("val"), Y("val")}), FALSE)

Next03 ==
  \/ Load03 \/ Features03 \/ Fit03 \/ Threshold03
  \/ run_walkforward \/ Cohorts03 \/ Track03 \/ Log03

Load04 == ReadFrame("features")
Features04 == ReadFeatures("features", "tune", NoNames)

\* the study: mean PR-AUC over the folds; without a usable fold no trial
\* completes and the best one raises
objective ==
  NeedsVal("tune", "best",
           [BEST_PARAMS |-> Best(mem.FEATURES),
            study |-> Forest(mem.FEATURES, Best(mem.FEATURES), FoldParts)])

best_model ==
  Compute("best", "threshold",
          [best_model |-> Mix({mem.study, Forest(mem.FEATURES, mem.BEST_PARAMS, {"train"})})])

\* best precision with a recall of at least one half
Threshold04 ==
  Compute("threshold", "save", [CHOSEN_THRESHOLD |-> Mix({mem.best_model, X("val"), Y("val")})])

Save04 == Open("save", "tuning", cwd, "tuning.json")
tuning_out ==
  Close("tuning", "track", cwd, "tuning.json",
        [best_params |-> mem.BEST_PARAMS, chosen_threshold |-> mem.CHOSEN_THRESHOLD,
         features |-> mem.FEATURES])

Track04 == _mlflow_ready("log")
Log04 ==
  log_rf_evaluation("done", Mix({mem.best_model, mem.CHOSEN_THRESHOLD, X("val"), Y("val")}),
                    FALSE)

Next04 ==
  \/ Load04 \/ Features04 \/ objective \/ best_model \/ Threshold04
  \/ Save04 \/ tuning_out \/ Track04 \/ Log04
------------------------------------------------------------------------------
\* colab_05: the tuned model, refitted and tested

Load05 == ReadFrame("tuning")

\* mutant of TunedFeatures: the features are the selected ones
TunedFeaturesSelected(tuning) ==
  IF OnDisk(cwd, "selected_features.json") THEN "all" ELSE "core"

TunedFeatures(tuning) == tuning.features

\* what tuning.json says, or nothing
Tuning05 ==
  /\ cell = "tuning"
  /\ LET found == OnDisk(cwd, "tuning.json")
         tuning == disk[<<cwd, "tuning.json">>]
     IN \/ found /\ tuning = Torn /\ Raise("tuning")
        \/ /\ found /\ tuning # Torn
           /\ Compute("tuning", "refit",
                      [FEATURES |-> TunedFeatures(tuning),
                       BEST_PARAMS |-> tuning.best_params,
                       CHOSEN_THRESHOLD |-> tuning.chosen_threshold])
        \/ ~found /\ ReadFeatures("tuning", "auto", [BEST_PARAMS |-> Default])

\* without one: FPR nearest 1%, with a model fitted for this
Auto05 ==
  NeedsVal("auto", "refit",
           [CHOSEN_THRESHOLD |->
              Mix({Forest(mem.FEATURES, mem.BEST_PARAMS, {"train"}), X("val"), Y("val")})])

Refit05 ==
  Compute("refit", "test",
          [final_model |-> Forest(mem.FEATURES, mem.BEST_PARAMS, {"train", "val"})])

TestReport == Mix({mem.final_model, mem.CHOSEN_THRESHOLD, X("test"), Y("test")})

Test05 == NeedsVal("test", "explain", [test_report |-> TestReport])

\* SHAP on test rows, permutation importance on validation rows
Explain05 ==
  Compute("explain", "report",
          [cmp |-> Mix({mem.final_model, X("test"), X("val"), Y("val")})])

Report05 == Open("report", "final", cwd, "final_report.json")
final_report ==
  Close("final", "track", cwd, "final_report.json",
        Mix({mem.test_report, mem.cmp}))

Versions ==
  IF OnDisk("mlflow", "paysim-fraud-rf") THEN disk[<<"mlflow", "paysim-fraud-rf">>] ELSE <<>>
Untagged(model) ==
  [model |-> model, decision_threshold |-> Torn, threshold_policy |-> FALSE, beta |-> FALSE]

Track05 == _mlflow_ready("log")
Log05 == log_rf_evaluation("register", mem.test_report, TRUE)

\* log_sklearn_model at the end of the run registers a version; one registered
\* in files of this directory no notebook reads
Register05 ==
  /\ cell = "register"
  /\ \/ /\ mem.MLFLOW = "server"
        /\ Close("register", "done", "mlflow", "paysim-fraud-rf",
                 Append(Versions, Untagged(mem.final_model)))
     \/ mem.MLFLOW = "server" /\ Raise("register")
     \/ mem.MLFLOW # "server" /\ Compute("register", "done", NoNames)

Next05 ==
  \/ Load05 \/ Tuning05 \/ Auto05 \/ Refit05 \/ Test05 \/ Explain05
  \/ Report05 \/ final_report \/ Track05 \/ Log05 \/ Register05
------------------------------------------------------------------------------
\* colab_06: the same model under another threshold policy

\* the first _cache that has a frame
CacheDirs ==
  {d \in {cwd, "sub"} : OnDisk(d, "modeling_frame.parquet")}
Cache06 ==
  IF CacheDirs = {} THEN Raise("frame")
  ELSE Compute("frame", "load", [CACHE_DIR |-> IF cwd \in CacheDirs THEN cwd ELSE "sub"])

Load06 ==
  /\ cell = "load"
  /\ LET frame == disk[<<mem.CACHE_DIR, "modeling_frame.parquet">>]
         tuning == disk[<<mem.CACHE_DIR, "tuning.json">>]
         found == OnDisk(mem.CACHE_DIR, "tuning.json")
     IN IF frame = Torn \/ ~found THEN Raise("load")
        ELSE IF tuning = Torn THEN Raise("load")
        ELSE Compute("load", "select",
                     [frame |-> frame.steps, FEATURES |-> tuning.features,
                      BEST_PARAMS |-> tuning.best_params])

selection_model ==
  NeedsVal("select", "threshold",
           [selection_model |-> Forest(mem.FEATURES, mem.BEST_PARAMS, {"train"})])

\* the best F-beta on the validation rows
Threshold06 ==
  Compute("threshold", "test",
          [CHOSEN_THRESHOLD |-> Mix({mem.selection_model, X("val"), Y("val")})])

Test06 ==
  /\ At("test") /\ Goto("report")
  /\ LET final == Forest(mem.FEATURES, mem.BEST_PARAMS, {"train", "val"})
     IN Bind([final_model |-> final,
              test_report |-> Mix({final, mem.CHOSEN_THRESHOLD, X("test"), Y("test")})])
  /\ NoTraining /\ NoWrites

Report06 == Open("report", "artifact", mem.CACHE_DIR, "random_forest_fbeta_175_report.json")
artifact ==
  Close("artifact", "guard", mem.CACHE_DIR, "random_forest_fbeta_175_report.json",
        mem.test_report)

\* mutant of IsExisting: any version of the policy and beta will do
IsExistingAny(version) == version.threshold_policy /\ version.beta

IsExisting(version) ==
  /\ version.threshold_policy /\ version.beta
  /\ version.decision_threshold = mem.CHOSEN_THRESHOLD

Existing == {i \in DOMAIN Versions : IsExisting(Versions[i])}

\* the guard: nothing is registered twice; without the server it raises
Guard06 ==
  /\ cell = "guard"
  /\ \/ Existing # {} /\ Compute("guard", "done", NoNames)
     \/ Existing = {} /\ Compute("guard", "log_model", SetTags(mem.test_report, TRUE))
     \/ Raise("guard")

Newest(change) ==
  [Versions EXCEPT ![Len(Versions)] = change]

\* a version, and then its tags one by one
LogModel06 ==
  Close("log_model", "tag_threshold", "mlflow", "paysim-fraud-rf",
        Append(Versions, Untagged(mem.final_model)))
TagThreshold06 ==
  Close("tag_threshold", "tag_policy", "mlflow", "paysim-fraud-rf",
        Newest([Versions[Len(Versions)] EXCEPT !.decision_threshold = mem.CHOSEN_THRESHOLD]))
TagPolicy06 ==
  Close("tag_policy", "tag_beta", "mlflow", "paysim-fraud-rf",
        Newest([Versions[Len(Versions)] EXCEPT !.threshold_policy = TRUE]))
TagBeta06 ==
  Close("tag_beta", "done", "mlflow", "paysim-fraud-rf",
        Newest([Versions[Len(Versions)] EXCEPT !.beta = TRUE]))

Next06 ==
  \/ Cache06 \/ Load06 \/ selection_model \/ Threshold06 \/ Test06
  \/ Report06 \/ artifact \/ Guard06
  \/ LogModel06 \/ TagThreshold06 \/ TagPolicy06 \/ TagBeta06
------------------------------------------------------------------------------

RandomForestInit == \E b \in RfBooks : NotebookInit(b, "frame", NoNames)

RandomForestNext ==
  \/ book = "colab_01" /\ Next01
  \/ book = "colab_02" /\ Next02
  \/ book = "colab_03" /\ Next03
  \/ book = "colab_04" /\ Next04
  \/ book = "colab_05" /\ Next05
  \/ book = "colab_06" /\ Next06
  \/ book \in RfBooks /\ \E b \in RfBooks : KernelRestart(b, "frame")

RandomForestDecisions ==
  {"model", "chosen_thr", "folds_result", "study", "best_model", "CHOSEN_THRESHOLD",
   "selection_model", "final_model"}
------------------------------------------------------------------------------

(***************************************************************************)
(* Whichever notebooks were run before, in which order and however far,    *)
(* the threshold a test report is made with was chosen with a model of the *)
(* features and parameters of the model that is tested.                    *)
(***************************************************************************)
ReportIsOfOneConfig ==
  book \in {"colab_05", "colab_06"} /\ Is("test_report") =>
    Cardinality(mem.test_report.of) = 1

(***************************************************************************)
(* However often colab_06 was run and wherever it died, when it ends there *)
(* is exactly one version tagged with its threshold, and it is the model   *)
(* that was tested with it.                                                *)
(***************************************************************************)
RegisteredPolicy ==
  book = "colab_06" /\ cell = "done" =>
    LET mine == {i \in DOMAIN Versions :
                   /\ Versions[i].decision_threshold = mem.CHOSEN_THRESHOLD
                   /\ Versions[i].threshold_policy /\ Versions[i].beta}
    IN Cardinality(mine) = 1 /\ \A i \in mine : Versions[i].model = mem.final_model

(***************************************************************************)
(* A run is tagged sealed_test_touched exactly when what it reports was    *)
(* computed from test rows, also when models and thresholds came from the  *)
(* files of other notebooks.                                               *)
(***************************************************************************)
SealedTestTold ==
  book \in RfBooks /\ Is("run") =>
    (mem.run.sealed_test_touched <=> \E f \in mem.run.evaluated.facts : f[1] = "test")

(***************************************************************************)
(* Claimed by data_version ("Danh tinh du lieu", the data's identity): a   *)
(* run that profiles rows names the MAX_STEPS they were read with.         *)
(***************************************************************************)
ProfileNamesItsData ==
  book = "colab_01" /\ Is("profile") => mem.profile.rows = mem.profile.max_steps

(***************************************************************************)
(* Claimed beside MAX_STEPS ("a small number for a quick trial; None = use *)
(* the whole data set"): a notebook that finds a frame, and has None as    *)
(* all of them have, works on the whole data set.                          *)
(***************************************************************************)
FrameIsAsAsked ==
  book \in {"colab_03", "colab_04", "colab_05"} /\ Is("frame") /\ ~Is("MAX_STEPS") =>
    mem.frame = "whole"
==============================================================================
