------------------------------- MODULE Notebooks -------------------------------
(***************************************************************************)
(* The notebooks together.  One book is opened; the RandomForest books can *)
(* follow each other, since they hand each other files, and every other    *)
(* one is rerun.  Two more "books" are the algorithms the books share:     *)
(* "ledger" reads transactions and computes their features, "policy"       *)
(* scores rows and chooses thresholds.                                     *)
(***************************************************************************)
EXTENDS EnhancedModel, OptimalModel, RandomForest, MasterCompare, DecisionTree,
        PointInTime, AlertPolicy

notebooksVars == <<notebookVars, ledger, scored>>

NotebooksInit ==
  /\ \/ EnhancedInit \/ OptimalInit \/ RandomForestInit \/ MasterInit \/ TreeInit
     \/ cwd = "root" /\ NotebookInit("ledger", "read", NoNames)
     \/ cwd = "root" /\ NotebookInit("policy", "score", NoNames)
  /\ PointInTimeInit /\ PolicyInit

RunBook ==
  /\ EnhancedNext \/ OptimalNext \/ RandomForestNext \/ MasterNext \/ TreeNext
  /\ UNCHANGED <<ledger, scored>>
ReadLedger == book = "ledger" /\ ReadRow /\ UNCHANGED <<notebookVars, scored>>
ScoreRows == book = "policy" /\ ScoreRow /\ UNCHANGED <<notebookVars, ledger>>

NotebooksNext == RunBook \/ ReadLedger \/ ScoreRows
NotebooksSpec == NotebooksInit /\ [][NotebooksNext]_notebooksVars
------------------------------------------------------------------------------

\* the labels a book keeps for its final evaluation, and what it decides with; the
\* decision tree's book keeps none from its decisions (SelectionIsBlind)
Reserved(b) == IF b = "optimal" THEN {"oot"} ELSE {"test"}
Decisions(b) ==
  CASE b = "optimal" -> OptimalDecisions
    [] b = "enhanced" -> EnhancedDecisions
    [] b \in RfBooks -> RandomForestDecisions
    [] OTHER -> {}

(***************************************************************************)
(* Nothing the enhanced, the optimal and the RandomForest books decide     *)
(* with (a study, a model and the rows that stop its training, a           *)
(* calibrator, a threshold, the folds) is a function of the labels they    *)
(* keep for their final evaluation, also when it was read from files of    *)
(* earlier kernels.  In the comparison nothing is of the test labels of a  *)
(* universe, but for the target encoding in three universes it names       *)
(* (TestRowsUnseen).  The decision tree is not covered: its selection is   *)
(* not blind.                                                              *)
(***************************************************************************)
DecisionsBlind ==
  /\ \A n \in Decisions(book) \cap DOMAIN mem : Labels(mem[n]) \cap Reserved(book) = {}
  /\ TestRowsUnseen

(***************************************************************************)
(* Whatever kernels left in files and in the registry, and wherever they   *)
(* died: what is evaluated or published together was made together, and a  *)
(* published evaluation says whether it used the sealed test rows.         *)
(***************************************************************************)
ArtifactsMatch ==
  /\ EvaluatedPairMatches /\ ReportIsOfOneConfig /\ ScoresAreOfTheirKey
  /\ RegisteredPolicy /\ ResultsNameTheirModel /\ SealedTestTold
==============================================================================
