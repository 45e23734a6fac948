------------------------------ MODULE Operations ------------------------------
(***************************************************************************)
(* The scheduled work around the medallion tables (airflow/dags): the      *)
(* hourly run begins with the ingest of scored events, the daily quality   *)
(* checks read tables the hourly run may just have emptied, statistics are *)
(* refreshed from silver, the champion watch and the skew audit query what *)
(* the DDL may not have.  Tasks follow one another only on success         *)
(* (external: Airflow's all_success); what a task queries is compared with *)
(* the catalog the DDL files create.                                       *)
(***************************************************************************)
EXTENDS Warehouse, Sequences

VARIABLES
  scored,    \* a scored event is on disk: the ingest has a file to look at
  red,       \* the tasks whose last run failed
  checking,  \* the daily checks still to run, "parity" first
  counted,   \* what check_row_parity has counted so far
  calm,      \* nothing ran since the daily checks began (history)
  clean,     \* no load ran beside the last hourly run, or after it (history)
  stats      \* gold.feature_stats: {} or {the silver rows it was computed from}

dailyVars == <<checking, counted, calm>>
operationsVars == <<warehouseVars, scored, red, dailyVars, clean, stats>>

\* the relations the files of db/ddl create, with the columns tasks ask for
Catalog ==
  [t \in {"bronze.txn_raw", "silver.txn", "gold.txn_features", "gold.account_state",
          "gold.feature_stats", "ops.pipeline_runs", "ops.model_deployments",
          "ops.prediction_labels"} |->
     CASE t = "ops.model_deployments" -> {"model_name", "version", "resolved_at"}
       [] t = "silver.txn" -> {"event_ts_us", "amount", "txn_type"}
       [] t = "gold.txn_features" -> {"is_fraud", "is_first_txn"}
       [] OTHER -> {}]

\* what the tasks ask for
Asks ==
  [k \in {"ingest_scored_events", "verify_supervisor_synced", "check_deployment_freshness",
          "audit_feature_skew", "audit_model_consistency", "check_fraud_rate",
          "refresh_feature_stats"} |->
     CASE k = "ingest_scored_events" -> <<"ops.file_ingest_log", {"bytes_consumed"}>>
       [] k = "verify_supervisor_synced"
            -> <<"ops.model_deployments", {"model_name", "version", "created_at"}>>
       [] k \in {"check_deployment_freshness", "audit_model_consistency"}
            -> <<"ops.model_deployments", {"version", "created_at"}>>
       [] k = "audit_feature_skew" -> <<"bronze.scored_events", {"payload"}>>
       [] k = "check_fraud_rate" -> <<"gold.txn_features", {"is_fraud"}>>
       [] k = "refresh_feature_stats" -> <<"silver.txn", {"amount"}>>]

\* psycopg2.errors.UndefinedTable, UndefinedColumn
Undefined(k) ==
  /\ k \in DOMAIN Asks
  /\ Asks[k][1] \notin DOMAIN Catalog \/ ~(Asks[k][2] \subseteq Catalog[Asks[k][1]])

\* dag_champion_watch and dag_skew_audit
WatchTasks ==
  {"watch_champion_alias", "verify_supervisor_synced", "check_deployment_freshness",
   "record_watch_run"}
AuditTasks ==
  {"audit_feature_skew", "audit_model_consistency", "audit_state_consistency"}

Checks == {"fraud_rate", "fraud_txn_types", "first_txn"}
Tasks ==
  Checks \cup {"parity"} \cup DOMAIN Asks \cup {"watch_or_audit"}

OperationsTypeOK ==
  /\ WarehouseTypeOK
  /\ red \in SUBSET Tasks
  /\ checking \in SUBSET (Checks \cup {"parity"})
  /\ counted \in Seq(Nat) /\ Len(counted) <= 2
  /\ stats \in SUBSET SUBSET Rows
  /\ {scored, calm, clean} \subseteq BOOLEAN

OperationsInit ==
  /\ WarehouseInit
  /\ scored = FALSE /\ red = {}
  /\ checking = {} /\ counted = <<>> /\ calm = FALSE
  /\ clean = FALSE /\ stats = {}

Report(k, failed) == red' = IF failed THEN red \cup {k} ELSE red \ {k}
------------------------------------------------------------------------------
\* The hourly run, and what people start

\* the scorer appends its first line
FirstScore ==
  /\ ~scored /\ scored' = TRUE
  /\ UNCHANGED <<warehouseVars, red, dailyVars, clean, stats>>

NobodyLoads == \A p \in Manual : pc[p] = "idle"

\* ingest_scored_events looks at the log table for each file there is
IngestPasses == scored => ~Undefined("ingest_scored_events")

\* ingest_scored_events, and bronze_to_silver if it succeeds
HourlyRun ==
  /\ pc[Dag] = "idle"
  /\ Report("ingest_scored_events", ~IngestPasses)
  /\ IF IngestPasses
     THEN StartDag /\ calm' = FALSE /\ clean' = NobodyLoads
     ELSE UNCHANGED <<warehouseVars, calm, clean>>
  /\ UNCHANGED <<scored, checking, counted, stats>>

ManualRun(p) ==
  /\ StartManual(p)
  /\ calm' = FALSE /\ clean' = FALSE
  /\ UNCHANGED <<scored, red, checking, counted, stats>>

\* dag_bronze_ingest_paysim counts the rows once they are committed: a run
\* that fails on another number leaves them where they are
RowCountRefused(p) ==
  /\ pc[p] = "finish" /\ job[p] = "bronze" /\ lock = p
  /\ Raise(p)
  /\ UNCHANGED <<tables, job, started, faults, scored, red, dailyVars, clean, stats>>

JobsGoOn ==
  /\ \/ Check \/ CheckFails
     \/ \E p \in Procs : JobStep(p) \/ Acquire(p) \/ Fail(p) \/ Kill(p)
  /\ UNCHANGED <<scored, red, dailyVars, clean, stats>>
------------------------------------------------------------------------------
\* dag_data_quality: check_row_parity, then the others in any order; each is
\* one statement but the first, which is three

Refreshed ==
  /\ pc[Dag] = "idle" /\ job[Dag] = "staging" /\ status[Dag] = "success"
  /\ clean /\ bronze # {}

StartDaily ==
  /\ checking = {}
  /\ checking' = {"parity"} /\ counted' = <<>>
  /\ calm' = Refreshed
  /\ red' = red \ (Checks \cup {"parity"})
  /\ UNCHANGED <<warehouseVars, scored, clean, stats>>

\* the tables check_row_parity counts, in this order
Counts == <<bronze, silver, gold>>

CountRows ==
  LET n == Cardinality(Counts[Len(counted) + 1])
      all == Append(counted, n)
      failed == \E i \in 1..2 : all[i] # all[i + 1]
  IN /\ "parity" \in checking
     /\ IF Len(counted) < 2
        THEN counted' = all /\ UNCHANGED <<checking, red>>
        ELSE /\ Report("parity", failed)
             /\ checking' = IF failed THEN {} ELSE Checks
             /\ counted' = <<>>
     /\ UNCHANGED <<warehouseVars, scored, calm, clean, stats>>

\* is_first_txn = 1 against the distinct accounts
Firsts(rows) == {r \in rows : ~\E s \in r.before : s < r.num}

\* mutant of FraudTypes: cash-outs are forgotten
FraudTypesTransfer == {"TRANSFER"}

\* silver.txn.txn_type IN (...)
FraudTypes == {"TRANSFER", "CASH_OUT"}

\* a file's rows are numbered in time order, `before' names the account's earlier
\* ones, and PaySim's frauds are transfers and cash-outs (external: the dataset)
ASSUME FilesAssumption ==
  \A c \in Csvs : \A r \in c :
    /\ r.num \in Nat
    /\ r.before = {s.num : s \in {q \in c : q.account = r.account /\ q.num < r.num}}
    /\ r.fraud => r.type \in {"TRANSFER", "CASH_OUT"}

\* the answers a check may give of the tables as they are.  Of part of a file
\* the fraud rate may be anything, of a whole one it is in bounds
CheckAlarms(k) ==
  CASE k = "fraud_rate" ->
         IF gold = {} THEN {TRUE} ELSE IF gold \in Csvs THEN {FALSE} ELSE BOOLEAN
    [] k = "fraud_txn_types" ->
         {\E r \in gold : r.fraud /\ ~\E s \in silver : s.num = r.num /\ s.type \in FraudTypes}
    [] k = "first_txn" ->
         {Cardinality(Firsts(gold)) # Cardinality({r.account : r \in gold})}

RunCheck(k) ==
  /\ k \in checking /\ k # "parity"
  /\ \E failed \in CheckAlarms(k) : Report(k, failed)
  /\ checking' = checking \ {k}
  /\ UNCHANGED <<warehouseVars, scored, counted, calm, clean, stats>>
------------------------------------------------------------------------------
\* dag_feature_backfill, dag_champion_watch, dag_skew_audit

\* mutant of RefreshStats: the rows are added up over runs
RefreshStatsMore ==
  /\ ~Undefined("refresh_feature_stats")
  /\ stats' = {silver \cup UNION stats}
  /\ UNCHANGED <<warehouseVars, scored, red, dailyVars, clean>>

\* one upsert; pathway_static_backfill always skips, and its verification with
\* it.  Of an emptied silver the statistics are NULLs
RefreshStats ==
  /\ ~Undefined("refresh_feature_stats")
  /\ stats' = {silver}
  /\ UNCHANGED <<warehouseVars, scored, red, dailyVars, clean>>

\* each task runs if those before it succeed: any may fail (a server does not
\* answer, versions or features differ), and one must that asks for what is not
\* there.  Nothing depends on which of the two dags failed last: they share a name
RunChain(tasks) ==
  /\ \E failed \in BOOLEAN :
       /\ (\E k \in tasks : Undefined(k)) => failed
       /\ Report("watch_or_audit", failed)
  /\ UNCHANGED <<warehouseVars, scored, dailyVars, clean, stats>>

\* the alias is resolved as the supervisor does, then compared with its record
Watch == RunChain(WatchTasks)

\* features and states are compared with the scorer's, if there are any
Audit == RunChain(AuditTasks)

DailyStep == CountRows \/ \E k \in Checks : RunCheck(k)

OperationsNext ==
  \/ FirstScore \/ HourlyRun \/ JobsGoOn
  \/ StartDaily \/ DailyStep \/ RefreshStats \/ Watch \/ Audit
  \/ \E p \in Manual : ManualRun(p) \/ RowCountRefused(p)

\* Tasks that started go on, the scheduler starts the hourly run, and the
\* flock goes to each who waits; nobody needs to load or to score
OperationsSpec ==
  /\ OperationsInit /\ [][OperationsNext]_operationsVars
  /\ WF_operationsVars(HourlyRun)
  /\ WF_operationsVars((Check \/ CheckFails) /\ JobsGoOn)
  /\ WF_operationsVars(DailyStep)
  /\ \A p \in Procs : /\ WF_operationsVars(JobStep(p) /\ JobsGoOn)
                      /\ SF_operationsVars(Acquire(p) /\ JobsGoOn)
------------------------------------------------------------------------------

(***************************************************************************)
(* An alarm of the daily checks means something.  If the last hourly run   *)
(* succeeded, no load ran beside it or since, and nothing ran while the    *)
(* checks did, none of them fails, though they read three tables in six    *)
(* transactions and share no snapshot.  And check_first_txn_count          *)
(* (dag_data_quality.py:127) never fails, whatever it reads while gold is  *)
(* written: accounts are flushed whole, so every account in gold has its   *)
(* first transaction there.                                                *)
(***************************************************************************)
AlarmsAreTrue ==
  /\ calm => red \cap (Checks \cup {"parity"}) = {}
  /\ "first_txn" \notin red

(***************************************************************************)
(* gold.feature_stats describes one file, or nothing: a refresh that meets *)
(* the hourly run or overlapping loads never averages part of a file or    *)
(* rows of two.                                                            *)
(***************************************************************************)
StatsAreOfOneFile == stats \subseteq Whole
==============================================================================
