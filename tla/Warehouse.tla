------------------------------ MODULE Warehouse ------------------------------
(***************************************************************************)
(* The medallion tables and the jobs that refresh them: load_csv_to_bronze,*)
(* bronze_to_silver, silver_to_gold and export_staging, each a process of  *)
(* its own under ops.track_run.  dag_medallion_batch runs the last three   *)
(* hourly with checks in between; people start jobs by hand meanwhile.     *)
(* A job empties its table on an autocommit connection BEFORE it queues    *)
(* for DuckDB's file lock, and its rows come after.                        *)
(***************************************************************************)
EXTENDS Naturals, FiniteSets

CONSTANTS
  Csvs,         \* the files a bronze load may be given: sets of rows
  Dag,          \* the process of dag_medallion_batch
  Manual,       \* the processes people start: the CLI, manual DAGs
  ManualJobs,   \* the jobs they start
  None,         \* nobody
  MaxManual,    \* bound: jobs started by hand
  MaxFaults     \* bound: failures and kills

Jobs == {"bronze", "silver", "gold", "staging"}
Procs == Manual \cup {Dag}
Rows == UNION Csvs

\* PaySim rows are numbered from 1 in every file; the number becomes the key
ASSUME WarehouseAssumption ==
  /\ \A c \in Csvs : IsFiniteSet(c) /\ \E r \in c : r.num = 1
  /\ \A c \in Csvs : \A r, s \in c : r.num = s.num => r = s
  /\ Dag \notin Manual /\ None \notin Procs
  /\ ManualJobs \subseteq Jobs
  /\ MaxManual \in Nat /\ MaxFaults \in Nat

VARIABLES
  bronze, silver, gold,   \* bronze.txn_raw, silver.txn, gold.txn_features
  ctx,                    \* <staging>/ctx: {} without it, else {its rows}
  lock,                   \* who has the flock of the DuckDB file
  job, pc,                \* what each process runs, and where it is
  todo,                   \* rows a process has read and not written
  status,                 \* its last row in ops.pipeline_runs
  started, faults         \* for the bounds

tables == <<bronze, silver, gold, ctx>>
warehouseVars == <<bronze, silver, gold, ctx, lock, job, pc, todo, status,
                   started, faults>>

WarehouseTypeOK ==
  /\ bronze \in SUBSET Rows /\ silver \in SUBSET Rows /\ gold \in SUBSET Rows
  /\ ctx \in SUBSET SUBSET Rows
  /\ lock \in Procs \cup {None}
  /\ job \in [Procs -> Jobs]
  /\ pc \in [Procs -> {"idle", "truncate", "acquire", "load", "write", "swap",
                       "finish", "dq"}]
  /\ todo \in [Procs -> SUBSET Rows]
  /\ status \in [Procs -> {"running", "success", "failed"}]
  /\ started \in Nat /\ faults \in Nat

WarehouseInit ==
  /\ bronze = {} /\ silver = {} /\ gold = {}
  /\ ctx = {}
  /\ lock = None
  /\ job = [p \in Procs |-> "silver"]
  /\ pc = [p \in Procs |-> "idle"]
  /\ todo = [p \in Procs |-> {}]
  /\ status = [p \in Procs |-> "success"]
  /\ started = 0
  /\ faults = 0

Goto(p, where) == pc' = [pc EXCEPT ![p] = where]
Hold(p) == lock = p /\ UNCHANGED <<lock, job, status, started, faults>>

\* PRIMARY KEY (row_num), PRIMARY KEY (event_id)
Clash(table, rows) == \E r \in table, s \in rows : r.num = s.num
------------------------------------------------------------------------------

\* track_run: INSERT INTO ops.pipeline_runs
Open(p, j) ==
  /\ job' = [job EXCEPT ![p] = j]
  /\ status' = [status EXCEPT ![p] = "running"]
  /\ Goto(p, "truncate")

StartDag ==
  /\ pc[Dag] = "idle"
  /\ Open(Dag, "silver")
  /\ UNCHANGED <<tables, lock, todo, started, faults>>

StartManual(p) ==
  /\ pc[p] = "idle" /\ started < MaxManual
  /\ started' = started + 1
  /\ \E j \in ManualJobs : Open(p, j)
  /\ UNCHANGED <<tables, lock, todo, faults>>

\* mutant of Truncate: the table is not emptied
TruncateNothing(p) ==
  /\ pc[p] = "truncate"
  /\ Goto(p, "acquire")
  /\ UNCHANGED <<tables, lock, job, todo, status, started, faults>>

\* TRUNCATE, committed at once; export_staging only counts
Truncate(p) ==
  /\ pc[p] = "truncate"
  /\ bronze' = IF job[p] = "bronze" THEN {} ELSE bronze
  /\ silver' = IF job[p] = "silver" THEN {} ELSE silver
  /\ gold' = IF job[p] = "gold" THEN {} ELSE gold
  /\ Goto(p, "acquire")
  /\ UNCHANGED <<ctx, lock, job, todo, status, started, faults>>

\* get_ibis_connection: the blocking flock
Acquire(p) ==
  /\ pc[p] = "acquire" /\ lock = None
  /\ lock' = p
  /\ Goto(p, "load")
  /\ UNCHANGED <<tables, job, todo, status, started, faults>>

\* mutant of LoadBronze: no PRIMARY KEY (row_num)
LoadBronzeUnkeyed(p) ==
  /\ pc[p] = "load" /\ job[p] = "bronze" /\ Hold(p)
  /\ \E c \in Csvs : bronze' = bronze \cup c
  /\ Goto(p, "finish")
  /\ UNCHANGED <<silver, gold, ctx, todo>>

\* INSERT ... SELECT FROM read_csv_auto(?), one transaction
LoadBronze(p) ==
  /\ pc[p] = "load" /\ job[p] = "bronze" /\ Hold(p)
  /\ \E c \in Csvs : ~Clash(bronze, c) /\ bronze' = bronze \cup c
  /\ Goto(p, "finish")
  /\ UNCHANGED <<silver, gold, ctx, todo>>

\* INSERT ... SELECT FROM pg.bronze.txn_raw, one transaction
LoadSilver(p) ==
  /\ pc[p] = "load" /\ job[p] = "silver" /\ Hold(p)
  /\ ~Clash(silver, bronze)
  /\ silver' = silver \cup bronze
  /\ Goto(p, "finish")
  /\ UNCHANGED <<bronze, gold, ctx, todo>>

\* the ordered read of silver.txn: one snapshot
ReadSilver(p) ==
  /\ pc[p] = "load" /\ job[p] \in {"gold", "staging"} /\ Hold(p)
  /\ todo' = [todo EXCEPT ![p] = silver]
  /\ Goto(p, "write")
  /\ UNCHANGED tables

\* mutant of FlushGold: a transaction ends wherever its row count is reached
FlushRows(p) ==
  /\ pc[p] = "write" /\ job[p] = "gold" /\ Hold(p)
  /\ \E part \in (SUBSET todo[p]) \ {{}} :
       /\ ~Clash(gold, part)
       /\ gold' = gold \cup part
       /\ todo' = [todo EXCEPT ![p] = @ \ part]
  /\ UNCHANGED <<bronze, silver, ctx, pc>>

\* _flush: some whole accounts, in a transaction of their own
FlushGold(p) ==
  /\ pc[p] = "write" /\ job[p] = "gold" /\ Hold(p)
  /\ \E some \in (SUBSET {r.account : r \in todo[p]}) \ {{}} :
       LET part == {r \in todo[p] : r.account \in some} IN
       /\ ~Clash(gold, part)
       /\ gold' = gold \cup part
       /\ todo' = [todo EXCEPT ![p] = @ \ part]
  /\ UNCHANGED <<bronze, silver, ctx, pc>>

AllFlushed(p) ==
  /\ pc[p] = "write" /\ job[p] = "gold" /\ Hold(p)
  /\ todo[p] = {}
  /\ Goto(p, "finish")
  /\ UNCHANGED <<tables, todo>>

\* _swap_in when there is a ctx: it is moved aside first
SwapOut(p) ==
  /\ pc[p] = "write" /\ job[p] = "staging" /\ Hold(p)
  /\ ctx # {}
  /\ ctx' = {}
  /\ Goto(p, "swap")
  /\ UNCHANGED <<bronze, silver, gold, todo>>

\* mutant of SwapIn: the part files are written straight into ctx
WriteInPlace(p) ==
  /\ pc[p] \in {"write", "swap"} /\ job[p] = "staging" /\ Hold(p)
  /\ \/ \E r \in todo[p] :
          /\ ctx' = {{r} \cup UNION ctx}
          /\ todo' = [todo EXCEPT ![p] = @ \ {r}]
          /\ Goto(p, "swap")
     \/ todo[p] = {} /\ Goto(p, "finish") /\ UNCHANGED <<ctx, todo>>
  /\ UNCHANGED <<bronze, silver, gold>>

\* the rename that publishes the new directory
SwapIn(p) ==
  /\ pc[p] \in {"write", "swap"} /\ job[p] = "staging" /\ Hold(p)
  /\ ctx = {}
  /\ ctx' = {todo[p]}
  /\ Goto(p, "finish")
  /\ UNCHANGED <<bronze, silver, gold, todo>>

\* the rows are counted, DuckDB is disconnected, the run is a success
Finish(p) ==
  /\ pc[p] = "finish" /\ lock = p
  /\ lock' = None
  /\ status' = [status EXCEPT ![p] = "success"]
  /\ todo' = [todo EXCEPT ![p] = {}]
  /\ Goto(p, IF p = Dag /\ job[p] # "staging" THEN "dq" ELSE "idle")
  /\ UNCHANGED <<tables, job, started, faults>>

\* dq_after_gold wants as many rows as silver has, and divides by their number;
\* what else it and dq_after_silver ask is true of the rows of a file
GoldPasses == Cardinality(gold) = Cardinality(silver) /\ gold # {}

\* mutant of Check: dq_after_gold is skipped
CheckNothing ==
  /\ pc[Dag] = "dq"
  /\ Open(Dag, IF job[Dag] = "silver" THEN "gold" ELSE "staging")
  /\ UNCHANGED <<tables, lock, todo, started, faults>>

\* the check between two jobs, then the next job
Check ==
  /\ pc[Dag] = "dq"
  /\ \/ job[Dag] = "silver" /\ Open(Dag, "gold")
     \/ job[Dag] = "gold" /\ GoldPasses /\ Open(Dag, "staging")
  /\ UNCHANGED <<tables, lock, todo, started, faults>>

\* an AssertionError, a division by zero: no later task of this run starts
CheckFails ==
  /\ pc[Dag] = "dq" /\ job[Dag] = "gold" /\ ~GoldPasses
  /\ Goto(Dag, "idle")
  /\ UNCHANGED <<tables, lock, job, todo, status, started, faults>>
------------------------------------------------------------------------------

\* the process no longer holds the flock and has nothing in hand
Drop(p) ==
  /\ lock' = IF lock = p THEN None ELSE lock
  /\ todo' = [todo EXCEPT ![p] = {}]
  /\ Goto(p, "idle")

\* mutant of Raise: without the finally that disconnects DuckDB
RaiseHolding(p) ==
  /\ status' = [status EXCEPT ![p] = "failed"]
  /\ todo' = [todo EXCEPT ![p] = {}]
  /\ Goto(p, "idle")
  /\ UNCHANGED lock

\* an exception unwinds the job: the lock is released, the run is "failed"
Raise(p) ==
  /\ Drop(p)
  /\ status' = [status EXCEPT ![p] = "failed"]

Colliding(p) ==
  \/ pc[p] = "load" /\ job[p] = "bronze" /\ \E c \in Csvs : Clash(bronze, c)
  \/ pc[p] = "load" /\ job[p] = "silver" /\ Clash(silver, bronze)
  \/ pc[p] = "write" /\ job[p] = "gold" /\ Clash(gold, todo[p])

\* a duplicate key: the INSERT raises
Collide(p) ==
  /\ lock = p /\ Colliding(p)
  /\ Raise(p)
  /\ UNCHANGED <<tables, job, started, faults>>

\* Postgres, DuckDB or the disk raise at any step
Fail(p) ==
  /\ pc[p] # "idle"
  /\ faults < MaxFaults /\ faults' = faults + 1
  /\ Raise(p)
  /\ UNCHANGED <<tables, job, started>>

\* SIGKILL: the kernel frees the flock, the run's row stays "running"
Kill(p) ==
  /\ pc[p] # "idle"
  /\ faults < MaxFaults /\ faults' = faults + 1
  /\ Drop(p)
  /\ UNCHANGED <<tables, job, status, started>>

JobStep(p) ==
  \/ Truncate(p) \/ LoadBronze(p) \/ LoadSilver(p) \/ ReadSilver(p)
  \/ FlushGold(p) \/ AllFlushed(p) \/ SwapOut(p) \/ SwapIn(p)
  \/ Finish(p) \/ Collide(p)

DagStep == StartDag \/ Check \/ CheckFails

WarehouseNext ==
  \/ DagStep
  \/ \E p \in Manual : StartManual(p)
  \/ \E p \in Procs : JobStep(p) \/ Acquire(p) \/ Fail(p) \/ Kill(p)

WarehouseSpec == WarehouseInit /\ [][WarehouseNext]_warehouseVars

(***************************************************************************)
(* Fairness: the scheduler starts the hourly run, processes that are not   *)
(* killed go on, and the kernel gives a freed flock to each who waits.     *)
(* Nobody needs to start a job by hand.                                    *)
(***************************************************************************)
WarehouseFairness ==
  /\ WF_warehouseVars(DagStep)
  /\ \A p \in Procs : WF_warehouseVars(JobStep(p)) /\ SF_warehouseVars(Acquire(p))

FairWarehouseSpec == WarehouseSpec /\ WarehouseFairness
------------------------------------------------------------------------------

Whole == {{}} \cup Csvs

(***************************************************************************)
(* Overlapping loads never mix two files, nor leave part of one: bronze    *)
(* and silver are empty or one whole file, although TRUNCATE and INSERT    *)
(* of different runs interleave; only the primary keys see to it.          *)
(***************************************************************************)
TablesAreWhole == bronze \in Whole /\ silver \in Whole

(***************************************************************************)
(* What Pathway is given is never empty, partial or a mixture: the staging *)
(* directory, where it exists, holds one whole file, although bronze may   *)
(* be emptied under the hourly run, and any step of it may fail.           *)
(***************************************************************************)
StagedIsWhole == ctx \subseteq Csvs

(***************************************************************************)
(* What is exported is what was checked: from dq_after_gold to the end of  *)
(* the export, gold has the rows of silver, not only as many.              *)
(***************************************************************************)
CheckedIsExported ==
  pc[Dag] # "idle" /\ job[Dag] = "staging" => gold = silver /\ silver \in Csvs

(***************************************************************************)
(* The strengthening that makes the above inductive.  People start bronze  *)
(* loads only.  What is done with DuckDB is done under its lock; from its  *)
(* TRUNCATE to its end the hourly run knows what is in its table, though   *)
(* it does not hold the lock all that time.                                *)
(***************************************************************************)
RunsInv ==
  /\ \A p \in Manual : pc[p] \notin {"write", "swap", "dq"}
                       /\ (pc[p] # "idle" => job[p] = "bronze")
  /\ job[Dag] # "bronze"
  /\ \A p \in Procs :
       pc[p] \in {"load", "write", "swap", "finish"} => lock = p

RefreshInv ==
  /\ job[Dag] = "silver" /\ pc[Dag] \in {"acquire", "load"} => silver = {}
  /\ job[Dag] = "gold" /\ pc[Dag] \in {"acquire", "load"} => gold = {}
  /\ job[Dag] = "gold" /\ pc[Dag] = "write" => gold \cup todo[Dag] = silver
  /\ job[Dag] = "gold" /\ pc[Dag] \in {"finish", "dq"} => gold = silver
  /\ job[Dag] = "staging" /\ pc[Dag] \in {"write", "swap"}
       => todo[Dag] = silver

WarehouseInv ==
  /\ WarehouseTypeOK /\ RunsInv /\ RefreshInv
  /\ TablesAreWhole /\ StagedIsWhole /\ CheckedIsExported

(***************************************************************************)
(* A run that starts ends, whoever else holds the DuckDB file, fails or is *)
(* killed.                                                                 *)
(***************************************************************************)
EveryRunEnds == \A p \in Procs : pc[p] # "idle" ~> pc[p] = "idle"

(***************************************************************************)
(* The hourly run recovers from any fault: again and again staging holds   *)
(* what bronze holds, unless a load left bronze empty.                     *)
(***************************************************************************)
StagingCatchesUp == []<>(bronze # {} => ctx = {bronze})

(***************************************************************************)
(* Claimed by get_ibis_connection: the flock "makes every caller of this   *)
(* function ... queue for the DuckDB file instead of crashing".  Read as:  *)
(* overlapping runs alone make none fail.                                  *)
(***************************************************************************)
OverlapIsHarmless == faults = 0 => \A p \in Procs : status[p] # "failed"
==============================================================================
