----------------------------- MODULE MasterCompare -----------------------------
(***************************************************************************)
(* MasterCompareEachUniverseEachModel.ipynb: every researcher's model      *)
(* under every researcher's split ("universe").  Models are trained once   *)
(* per training partition, kept in files, and their scores of all rows are *)
(* shared by the universes with that partition.                            *)
(*                                                                         *)
(* Rows are known by the segment of steps they are in, between two cuts of *)
(* any universe, and by where the random splits put them.  Results that no *)
(* cell reads back are not on disk here.                                   *)
(***************************************************************************)
EXTENDS Notebook

CONSTANT MasterModels   \* bound: the models that are run, in registry order

Ends == {355, 480, 520, 552, 594, 600, 631, 674, 743}
Sides == {"inner_tr", "inner_val", "held_out"}
Segments == Ends \X Sides
Steps(first, last) == {s \in Segments : s[1] \in first..last}
Drawn(sides) == {s \in Segments : s[2] \in sides}

LabelsOf(rows) == From({<<s, "y">> : s \in rows}, {})

\* SplitBundle: a universe without policy rows of its own would use its training rows
SplitBundle(train, calibration, policy, test) ==
  [train_ids |-> train, calibration_ids |-> calibration, policy_ids |-> policy,
   test_ids |-> test]

FourStage ==
  SplitBundle(Steps(1, 480), Steps(481, 552), Steps(553, 600), Steps(601, 743))

all_universe_splits ==
  [U_HOANG_OPT_4STAGE |-> FourStage,
   U_MASTER_COMMON_4STAGE_FPR1 |-> FourStage,
   U_HOANG_3STAGE |-> SplitBundle(Steps(1, 480), {}, Steps(481, 600), Steps(601, 743)),
   U_DUONG_520_631 |-> SplitBundle(Steps(1, 520), {}, Steps(521, 631), Steps(632, 743)),
   U_KIEU_REPORTED_594_674 |->
     SplitBundle(Steps(1, 594), {}, Steps(595, 674), Steps(675, 743)),
   U_KIEU_Q80_SOURCE |-> SplitBundle(Steps(1, 355), {}, Steps(1, 355), Steps(356, 743)),
   U_NAM_RANDOM80_AUTHORED |->
     SplitBundle(Drawn({"inner_tr", "inner_val"}), {}, Drawn({"inner_tr", "inner_val"}),
                 Drawn({"held_out"})),
   U_NAM_RANDOM80_REPAIRED |->
     SplitBundle(Drawn({"inner_tr"}), {}, Drawn({"inner_val"}), Drawn({"held_out"}))]

Universes == DOMAIN all_universe_splits

\* universes whose registry entry warns of leakage
AuthoredWarnLeakage == {"U_KIEU_Q80_SOURCE", "U_NAM_RANDOM80_AUTHORED"}

\* who wrote a policy, its family and its parameter
POLICY_REGISTRY ==
  {<<"Kieu", "TOP_K_CAPACITY", "1.00%">>, <<"Kieu", "RECALL_AT_PRECISION", "0.10">>,
   <<"Duong", "F_BETA", "1.75">>, <<"Nam", "F_BETA", "1.75">>,
   <<"Hoang", "MONETARY_NBV", "">>, <<"Hoang", "INSTANCE_EV", "">>,
   <<"Common", "MONETARY_NBV", "">>}
  \cup ({"Common"} \X {"FPR_BUDGET"} \X {"0.10%", "0.25%", "0.50%", "1.00%", "2.00%"})
  \cup ({"Common"} \X {"TOP_K_CAPACITY"} \X {"0.10%", "0.50%", "1.00%", "2.00%"})
  \cup ({"Common"} \X {"F_BETA"} \X {"0.5", "1.0", "1.75", "2.0", "3.0"})

\* the governance table: models and universes eligible for strict claims
StrictEligible ==
  {<<"KIEU_LGBM_V1", "U_KIEU_Q80_SOURCE">>, <<"DUONG_RF", "U_DUONG_520_631">>,
   <<"NAM_DT6", "U_NAM_RANDOM80_REPAIRED">>, <<"HOANG_XGB25", "U_HOANG_3STAGE">>,
   <<"HOANG_XGB36", "U_HOANG_OPT_4STAGE">>}

\* the features a model reads
feature_spec_id ==
  [KIEU_LGBM_V1 |-> "KIEU_BASE4", KIEU_LGBM_V6 |-> "KIEU_FE7", DUONG_RF |-> "PIT7",
   NAM_DT6 |-> "NAM6", NAM_DT10 |-> "NAM10", HOANG_XGB13 |-> "HOANG13",
   HOANG_XGB25 |-> "HOANG25", HOANG_XGB36 |-> "HOANG36"]

\* mutant of Family: the encoding is of the steps up to the last that is a test row
FamilyAllRows(feature) ==
  From({<<s, "te">> : s \in IF feature \in {"HOANG25", "HOANG36"} THEN Steps(1, 743) ELSE {}},
       {<<feature, "all rows">>})

\* a family for all rows: two of them have a target encoding of steps 1..480
Family(feature) ==
  From({<<s, "te">> : s \in IF feature \in {"HOANG25", "HOANG36"} THEN Steps(1, 480) ELSE {}},
       {<<feature, "all rows">>})

TRAIN_PARTITIONS ==
  [train_1_480 |-> Steps(1, 480), train_1_520 |-> Steps(1, 520),
   train_1_594 |-> Steps(1, 594), train_le_355 |-> Steps(1, 355),
   train_random80 |-> Drawn({"inner_tr", "inner_val"})]

UNIVERSE_TO_TRAIN_KEY ==
  [U_HOANG_OPT_4STAGE |-> "train_1_480", U_HOANG_3STAGE |-> "train_1_480",
   U_MASTER_COMMON_4STAGE_FPR1 |-> "train_1_480", U_DUONG_520_631 |-> "train_1_520",
   U_KIEU_REPORTED_594_674 |-> "train_1_594", U_KIEU_Q80_SOURCE |-> "train_le_355",
   U_NAM_RANDOM80_AUTHORED |-> "train_random80",
   U_NAM_RANDOM80_REPAIRED |-> "train_random80"]

\* what is blended is in the registry beside its blends
Components == {"KIEU_LGBM_V6", "HOANG_XGB13"}
ASSUME MasterAssumption ==
  /\ MasterModels \in Seq(DOMAIN feature_spec_id)
  /\ \A m \in Components : \E i \in DOMAIN MasterModels : MasterModels[i] = m
------------------------------------------------------------------------------
\* The data set is beside the directory the notebook lies in: a kernel started
\* elsewhere does not find it.
MasterLoad ==
  /\ cell = "load"
  /\ IF cwd = "sub" THEN Compute("load", "base4", NoNames) ELSE Raise("load")

\* MasterFeatureCache: this notebook's own directory, then the legacy one
is_cached(feature) == OnDisk("features", feature) \/ OnDisk("legacy", feature)
FeatureFile(feature) ==
  IF OnDisk("features", feature) THEN disk[<<"features", feature>>]
  ELSE disk[<<"legacy", feature>>]
Loads(features) == \A f \in features : is_cached(f) /\ FeatureFile(f) # Torn

\* what is cached is left alone, whole or not
Verified(c, next, features) ==
  (\A f \in features : is_cached(f)) /\ Compute(c, next, NoNames)
Generate(c, next, feature, features) ==
  (\E f \in features : ~is_cached(f)) /\ Open(c, next, "features", feature)
Save(c, next, feature) == Close(c, next, "features", feature, Family(feature))

Kieu == {"KIEU_BASE4", "KIEU_FE7"}
KieuFeatures ==
  \/ Verified("base4", "hoang13", Kieu)
  \/ Generate("base4", "base4_save", "KIEU_BASE4", Kieu)
  \/ Save("base4_save", "fe7", "KIEU_BASE4")
  \/ Open("fe7", "fe7_save", "features", "KIEU_FE7")
  \/ Save("fe7_save", "hoang13", "KIEU_FE7")
HoangFeatures ==
  \/ Verified("hoang13", "nam10", {"HOANG13"})
  \/ Generate("hoang13", "hoang13_save", "HOANG13", {"HOANG13"})
  \/ Save("hoang13_save", "nam10", "HOANG13")
NamFeatures ==
  \/ Verified("nam10", "native", {"NAM10"})
  \/ Generate("nam10", "nam10_save", "NAM10", {"NAM10"})
  \/ Save("nam10_save", "native", "NAM10")
------------------------------------------------------------------------------
\* Training

ModelOf(m, key, rows) ==
  From(Mix({Family(feature_spec_id[m]), LabelsOf(rows)}).facts, {<<m, key>>})

\* each researcher's candidate in that researcher's universe; no file is kept
native_cases ==
  [KIEU_LGBM_V6 |-> "U_KIEU_REPORTED_594_674", DUONG_RF |-> "U_DUONG_520_631",
   NAM_DT6 |-> "U_NAM_RANDOM80_AUTHORED", HOANG_XGB36 |-> "U_HOANG_OPT_4STAGE"]

run_track_a_native_reproduction ==
  /\ cell = "native"
  /\ IF ~Loads({feature_spec_id[m] : m \in DOMAIN native_cases}) THEN Raise("native")
     ELSE Compute("native", "plan",
            [df_native_res |->
               [m \in DOMAIN native_cases |->
                  ModelOf(m, "native", all_universe_splits[native_cases[m]].train_ids)],
             at |-> <<1, 1>>, SCORE_REGISTRY |-> NoNames])

\* every model in every universe under every policy, to be retrained and evaluated
generate_experiment_plan == (DOMAIN feature_spec_id) \X Universes \X POLICY_REGISTRY
ExperimentPlan == Compute("plan", "matrix", NoNames)

\* the loops over partitions and, within each, over models; a partition ends
\* with its blends, at the turn after the last model's
TrainKeys == <<"train_1_480", "train_1_520", "train_1_594", "train_le_355", "train_random80">>
train_key == TrainKeys[mem.at[1]]
Turn == mem.at[2]
m_id == MasterModels[Turn]
After(at) ==
  IF at[2] <= Len(MasterModels) THEN <<at[1], at[2] + 1>> ELSE <<at[1] + 1, 1>>

\* mutant of m_file: the partition is not in the name
m_fileOfModel(m, key) == <<m, "">>

m_file(m, key) == <<m, key>>

\* the scores of a model enter the registry, and the next turn comes
Scored(registry) == [SCORE_REGISTRY |-> registry, at |-> After(mem.at)]
Registered(clf) == Scored(Put(mem.SCORE_REGISTRY, <<m_id, train_key>>, clf))

InMatrix ==
  cell = "matrix" /\ mem.at[1] <= Len(TrainKeys) /\ Turn <= Len(MasterModels)
FeaturesMissing ==
  InMatrix /\ ~Loads({feature_spec_id[m_id]}) /\ Raise("matrix")
LoadModel ==
  /\ InMatrix /\ Loads({feature_spec_id[m_id]})
  /\ OnDisk("models", m_file(m_id, train_key))
  /\ LET clf == disk[<<"models", m_file(m_id, train_key)>>]
     IN IF clf = Torn THEN Raise("matrix")
        ELSE Compute("matrix", "matrix", Registered(clf))
FitModel ==
  /\ InMatrix /\ Loads({feature_spec_id[m_id]})
  /\ ~OnDisk("models", m_file(m_id, train_key))
  /\ Open("matrix", "dump", "models", m_file(m_id, train_key))
DumpModel ==
  /\ At("dump") /\ Goto("matrix")
  /\ LET clf == ModelOf(m_id, train_key, TRAIN_PARTITIONS[train_key])
     IN /\ Bind(Registered(clf))
        /\ Write("models", m_file(m_id, train_key), clf)
  /\ NoTraining /\ UNCHANGED restarts

\* KIEU_BLEND_V8 and V9; the CatBoost model of V9 is fitted and not kept
Blend ==
  /\ cell = "matrix" /\ mem.at[1] <= Len(TrainKeys) /\ Turn > Len(MasterModels)
  /\ LET v8 == Mix({mem.SCORE_REGISTRY[<<m, train_key>>] : m \in Components})
         cat == From(LabelsOf(TRAIN_PARTITIONS[train_key]).facts,
                     {<<"CATBOOST_BASE", train_key>>})
     IN Compute("matrix", "matrix",
                Scored(Put(Put(mem.SCORE_REGISTRY, <<"KIEU_BLEND_V8", train_key>>, v8),
                           <<"KIEU_BLEND_V9", train_key>>, Mix({v8, cat}))))
Matrix == FeaturesMissing \/ LoadModel \/ FitModel \/ DumpModel \/ Blend
------------------------------------------------------------------------------
\* Evaluation

\* calibrators exist for the partition of the four-stage universes only
Calibrators ==
  /\ cell = "matrix" /\ mem.at[1] > Len(TrainKeys)
  /\ Compute("matrix", "factorial",
       [CALIBRATED_SCORES |->
          [k \in DOMAIN mem.SCORE_REGISTRY |->
             IF k[2] = "train_1_480"
             THEN Mix({mem.SCORE_REGISTRY[k], LabelsOf(Steps(481, 552))})
             ELSE mem.SCORE_REGISTRY[k]]])

\* mutant of pol_mask: thresholds are searched on the rows they are tested on
pol_maskTest(u) == all_universe_splits[u].test_ids

\* the rows thresholds are searched on
pol_mask(u) == all_universe_splits[u].policy_ids

ScoresFor(registry, u) ==
  {registry[k] : k \in {k \in DOMAIN registry : k[2] = UNIVERSE_TO_TRAIN_KEY[u]}}

\* the policies the loops evaluate: four families, one of them on a grid
Executed ==
  {p \in POLICY_REGISTRY :
     \/ p[2] = "FPR_BUDGET" \/ p[1] = "Hoang"
     \/ p[1] = "Kieu" /\ p[2] = "TOP_K_CAPACITY"}

\* what a family's alerts in a universe are decided with: the 1% ranks the scores
\* of the test rows themselves, budgets and values search the policy rows, and the
\* expected value takes calibrated scores
DecidedBy(family, u) ==
  CASE family = "TOP_K_CAPACITY" -> Mix(ScoresFor(mem.SCORE_REGISTRY, u))
    [] family \in {"FPR_BUDGET", "MONETARY_NBV"} ->
         Mix(ScoresFor(mem.SCORE_REGISTRY, u) \cup {LabelsOf(pol_mask(u))})
    [] family = "INSTANCE_EV" -> Mix(ScoresFor(mem.CALIBRATED_SCORES, u))

\* per universe: what its alerts are decided with, and their evaluation
Factorial ==
  LET decided ==
        [u \in Universes |-> [family \in {p[2] : p \in Executed} |-> DecidedBy(family, u)]]
  IN Compute("factorial", "leaderboard",
       [decided |-> decided,
        df_factorial |->
          [u \in Universes |->
             Mix({decided[u][family] : family \in DOMAIN decided[u]}
                 \cup {LabelsOf(all_universe_splits[u].test_ids)})]])

Leaderboard ==
  Compute("leaderboard", "daily",
          [robustness_summary |-> Mix({mem.df_factorial[u] : u \in Universes})])

\* raw scores of the four-stage partition, by day and resampled
OotOfFourStage ==
  Mix(ScoresFor(mem.SCORE_REGISTRY, "U_HOANG_OPT_4STAGE")
      \cup {LabelsOf(all_universe_splits.U_HOANG_OPT_4STAGE.test_ids)})
DailyStability == Compute("daily", "bootstrap", [df_stability |-> OotOfFourStage])
run_paired_bootstrap == Compute("bootstrap", "sensitivity", [df_boot |-> OotOfFourStage])

GovernanceSensitivity ==
  Compute("sensitivity", "manifest",
          [gov_sensitivity |-> Mix({mem.df_factorial.U_NAM_RANDOM80_AUTHORED,
                                    mem.df_factorial.U_NAM_RANDOM80_REPAIRED})])

Manifest == Compute("manifest", "done", NoNames)

MasterNext ==
  /\ book = "master"
  /\ \/ MasterLoad \/ KieuFeatures \/ HoangFeatures \/ NamFeatures
     \/ run_track_a_native_reproduction \/ ExperimentPlan \/ Matrix \/ Calibrators
     \/ Factorial \/ Leaderboard \/ DailyStability \/ run_paired_bootstrap
     \/ GovernanceSensitivity \/ Manifest
     \/ KernelRestart("master", "load")

\* the families this notebook does not generate are in the legacy cache, or not
LegacyOnly == {"PIT7", "NAM6", "HOANG25", "HOANG36"}
MasterInit ==
  \E there \in {LegacyOnly, LegacyOnly \ {"PIT7"}, LegacyOnly \ {"HOANG25"}} :
    NotebookInit("master", "load",
                 [f \in {<<"legacy", f>> : f \in there} |-> Family(f[2])])
------------------------------------------------------------------------------

\* rows whose labels went into a value: by fitting ("y"), by the encoding ("te")
LabelledRows(value, kinds) == {f[1] : f \in {g \in value.facts : g[2] \in kinds}}

\* universes tested on rows of steps 1..480, whose labels the target encoding holds
EncodesTestRows ==
  {"U_KIEU_Q80_SOURCE", "U_NAM_RANDOM80_AUTHORED", "U_NAM_RANDOM80_REPAIRED"}

(***************************************************************************)
(* Whatever earlier kernels left in the model and feature directories, no  *)
(* model, calibrator or threshold that decides alerts in a universe, under *)
(* any of the policies, was fitted to labels of the rows that universe is  *)
(* tested on; nor do these labels reach it through the target encoding of  *)
(* HOANG25 and HOANG36, but in the three universes of EncodesTestRows,     *)
(* where they do (see EncodingIsOfTrainRows).  A researcher's own model in *)
(* that researcher's universe is reached by neither way.                   *)
(***************************************************************************)
TestRowsUnseen ==
  /\ book = "master" /\ Is("decided") =>
       \A u \in Universes : \A family \in DOMAIN mem.decided[u] :
         LabelledRows(mem.decided[u][family],
                      IF u \in EncodesTestRows THEN {"y"} ELSE {"y", "te"})
           \cap all_universe_splits[u].test_ids = {}
  /\ book = "master" /\ Is("df_native_res") =>
       \A m \in DOMAIN native_cases :
         LabelledRows(mem.df_native_res[m], {"y", "te"})
           \cap all_universe_splits[native_cases[m]].test_ids = {}

(***************************************************************************)
(* Scores are of the model and the partition they are registered under.    *)
(***************************************************************************)
ScoresAreOfTheirKey ==
  book = "master" /\ Is("SCORE_REGISTRY") =>
    \A k \in DOMAIN mem.SCORE_REGISTRY :
      \A of \in mem.SCORE_REGISTRY[k].of : of[2] = k[2]

(***************************************************************************)
(* Claimed by the registry ("REPAIRED_STRICT", "STRICT_VALID") and by the  *)
(* governance table (strict_eligible): where a claim is strict, thresholds *)
(* are searched on rows the model was not trained on.                      *)
(***************************************************************************)
PolicyRowsHeldOut ==
  book = "master" /\ Is("decided") =>
    \A k \in DOMAIN mem.SCORE_REGISTRY : \A u \in Universes :
      /\ k[2] = UNIVERSE_TO_TRAIN_KEY[u]
      /\ u \notin AuthoredWarnLeakage \/ <<k[1], u>> \in StrictEligible
      => LabelledRows(mem.SCORE_REGISTRY[k], {"y"})
           \cap all_universe_splits[u].policy_ids = {}

(***************************************************************************)
(* Claimed by the experiment plan ("expected_action": "RETRAIN_AND_        *)
(* EVALUATE" of all policies): what was planned is evaluated.              *)
(***************************************************************************)
PlannedIsEvaluated ==
  book = "master" /\ Is("df_factorial") =>
    \A run \in generate_experiment_plan :
      run[2] \in DOMAIN mem.df_factorial /\ run[3] \in Executed

(***************************************************************************)
(* Claimed by the feature registry ("Train-only TE"): no label of a test   *)
(* row is in the target encoding a universe's models read.                 *)
(***************************************************************************)
EncodingIsOfTrainRows ==
  book = "master" /\ Is("decided") =>
    \A u \in Universes :
      \A family \in DOMAIN mem.decided[u] :
        LabelledRows(mem.decided[u][family], {"te"})
          \cap all_universe_splits[u].test_ids = {}
==============================================================================
