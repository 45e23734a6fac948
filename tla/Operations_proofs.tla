--------------------------- MODULE Operations_proofs ---------------------------
(***************************************************************************)
(* Theorems about the medallion tables (Warehouse) and the scheduled work  *)
(* around them (Operations), for any files, any number of people and any   *)
(* number of faults, as long as people start bronze loads only.  Liveness  *)
(* stays with TLC.                                                         *)
(***************************************************************************)
EXTENDS Operations, FiniteSetTheorems, SequenceTheorems, WellFoundedInduction, TLAPS

\* The tables and their jobs

(***************************************************************************)
(* Any two files share a row number, so a file goes into an empty table or *)
(* not at all.                                                             *)
(***************************************************************************)
LEMMA OnlyIntoEmpty ==
  ASSUME NEW table \in Whole, NEW c \in Csvs, ~Clash(table, c)
  PROVE  table = {}
<1>1. PICK s \in c : s.num = 1
  BY WarehouseAssumption
<1>2. ASSUME table \in Csvs PROVE FALSE
  <2>1. PICK r \in table : r.num = 1
    BY <1>2, WarehouseAssumption
  <2>2. QED
    BY <1>1, <2>1 DEF Clash
<1>3. QED
  BY <1>2 DEF Whole

LEMMA FilesAreRows == \A c \in Whole : c \in SUBSET Rows
BY DEF Whole, Rows

LEMMA WarehouseInitially == WarehouseInit => WarehouseInv
<1> SUFFICES ASSUME WarehouseInit PROVE WarehouseInv
  OBVIOUS
<1>1. WarehouseTypeOK
  BY WarehouseAssumption DEF WarehouseInit, WarehouseTypeOK, Jobs
<1>2. RunsInv /\ RefreshInv
  BY DEF WarehouseInit, RunsInv, RefreshInv, Procs
<1>3. TablesAreWhole /\ StagedIsWhole /\ CheckedIsExported
  BY DEF WarehouseInit, TablesAreWhole, StagedIsWhole, CheckedIsExported,
         Whole, Procs
<1>4. QED
  BY <1>1, <1>2, <1>3 DEF WarehouseInv

LEMMA StartDagKeeps ==
  ASSUME WarehouseInv, StartDag
  PROVE  WarehouseInv'
<1> USE WarehouseAssumption DEF WarehouseInv, Procs
<1>1. WarehouseTypeOK'
  BY DEF StartDag, Open, Goto, tables, WarehouseTypeOK, Jobs
<1>2. RunsInv'
  BY DEF StartDag, Open, Goto, tables, RunsInv, WarehouseTypeOK
<1>3. RefreshInv'
  BY DEF StartDag, Open, Goto, tables, RefreshInv, RunsInv, WarehouseTypeOK
<1>4. TablesAreWhole' /\ StagedIsWhole'
  BY DEF StartDag, Open, Goto, tables, TablesAreWhole, StagedIsWhole, Whole
<1>5. CheckedIsExported'
  BY DEF StartDag, Open, Goto, tables, CheckedIsExported, RunsInv, WarehouseTypeOK
<1>6. QED
  BY <1>1, <1>2, <1>3, <1>4, <1>5

LEMMA StartManualKeeps ==
  ASSUME NEW p \in Manual, ManualJobs \subseteq {"bronze"}, WarehouseInv, StartManual(p)
  PROVE  WarehouseInv'
<1> USE WarehouseAssumption DEF WarehouseInv, Procs
<1>1. WarehouseTypeOK'
  BY DEF StartManual, Open, Goto, tables, WarehouseTypeOK, Jobs
<1>2. RunsInv'
  BY DEF StartManual, Open, Goto, tables, RunsInv, WarehouseTypeOK
<1>3. RefreshInv'
  BY DEF StartManual, Open, Goto, tables, RefreshInv, RunsInv, WarehouseTypeOK
<1>4. TablesAreWhole' /\ StagedIsWhole'
  BY DEF StartManual, Open, Goto, tables, TablesAreWhole, StagedIsWhole, Whole
<1>5. CheckedIsExported'
  BY DEF StartManual, Open, Goto, tables, CheckedIsExported, RunsInv, WarehouseTypeOK
<1>6. QED
  BY <1>1, <1>2, <1>3, <1>4, <1>5

LEMMA TruncateKeeps ==
  ASSUME NEW p \in Procs, WarehouseInv, Truncate(p)
  PROVE  WarehouseInv'
<1> USE WarehouseAssumption DEF WarehouseInv, Procs
<1>1. WarehouseTypeOK'
  BY DEF Truncate, Goto, tables, WarehouseTypeOK, Jobs
<1>2. RunsInv'
  BY DEF Truncate, Goto, tables, RunsInv, WarehouseTypeOK
<1>3. RefreshInv'
  BY DEF Truncate, Goto, tables, RefreshInv, RunsInv, WarehouseTypeOK
<1>4. TablesAreWhole' /\ StagedIsWhole'
  BY DEF Truncate, Goto, tables, TablesAreWhole, StagedIsWhole, Whole
<1>5. CheckedIsExported'
  BY DEF Truncate, Goto, tables, CheckedIsExported, RunsInv, WarehouseTypeOK
<1>6. QED
  BY <1>1, <1>2, <1>3, <1>4, <1>5

LEMMA AcquireKeeps ==
  ASSUME NEW p \in Procs, WarehouseInv, Acquire(p)
  PROVE  WarehouseInv'
<1> USE WarehouseAssumption DEF WarehouseInv, Procs
<1>1. WarehouseTypeOK'
  BY DEF Acquire, Goto, tables, WarehouseTypeOK, Jobs
<1>2. RunsInv'
  BY DEF Acquire, Goto, tables, RunsInv, WarehouseTypeOK
<1>3. RefreshInv'
  BY DEF Acquire, Goto, tables, RefreshInv, RunsInv, WarehouseTypeOK
<1>4. TablesAreWhole' /\ StagedIsWhole'
  BY DEF Acquire, Goto, tables, TablesAreWhole, StagedIsWhole, Whole
<1>5. CheckedIsExported'
  BY DEF Acquire, Goto, tables, CheckedIsExported, RunsInv, WarehouseTypeOK
<1>6. QED
  BY <1>1, <1>2, <1>3, <1>4, <1>5

LEMMA LoadBronzeKeeps ==
  ASSUME NEW p \in Procs, WarehouseInv, LoadBronze(p)
  PROVE  WarehouseInv'
<1> USE WarehouseAssumption DEF WarehouseInv, Procs
<1>1. WarehouseTypeOK'
  BY FilesAreRows DEF LoadBronze, Hold, Goto, WarehouseTypeOK, Jobs, Whole
<1>2. RunsInv'
  BY DEF LoadBronze, Hold, Goto, RunsInv, WarehouseTypeOK
<1>3. RefreshInv'
  BY DEF LoadBronze, Hold, Goto, RefreshInv, RunsInv, WarehouseTypeOK
<1>4. TablesAreWhole' /\ StagedIsWhole'
  <2>1. PICK c \in Csvs : ~Clash(bronze, c) /\ bronze' = bronze \cup c
    BY DEF LoadBronze
  <2>2. bronze = {}
    BY <2>1, OnlyIntoEmpty DEF TablesAreWhole, Whole
  <2>3. bronze' \in Whole
    BY <2>1, <2>2 DEF Whole
  <2>4. QED
    BY <2>3 DEF LoadBronze, TablesAreWhole, StagedIsWhole, Whole
<1>5. CheckedIsExported'
  BY DEF LoadBronze, Hold, Goto, CheckedIsExported, RunsInv, WarehouseTypeOK
<1>6. QED
  BY <1>1, <1>2, <1>3, <1>4, <1>5

LEMMA LoadSilverKeeps ==
  ASSUME NEW p \in Procs, WarehouseInv, LoadSilver(p)
  PROVE  WarehouseInv'
<1> USE WarehouseAssumption DEF WarehouseInv, Procs
<1>1. WarehouseTypeOK'
  BY DEF LoadSilver, Hold, Goto, WarehouseTypeOK, Jobs
<1>2. RunsInv'
  BY DEF LoadSilver, Hold, Goto, RunsInv, WarehouseTypeOK
<1>3. RefreshInv'
  BY DEF LoadSilver, Hold, Goto, RefreshInv, RunsInv, WarehouseTypeOK
<1>4. TablesAreWhole' /\ StagedIsWhole'
  <2>1. silver' = bronze
    BY DEF LoadSilver, Hold, RunsInv, RefreshInv
  <2>2. QED
    BY <2>1 DEF LoadSilver, TablesAreWhole, StagedIsWhole, Whole
<1>5. CheckedIsExported'
  BY DEF LoadSilver, Hold, Goto, CheckedIsExported, RunsInv, WarehouseTypeOK
<1>6. QED
  BY <1>1, <1>2, <1>3, <1>4, <1>5

LEMMA ReadSilverKeeps ==
  ASSUME NEW p \in Procs, WarehouseInv, ReadSilver(p)
  PROVE  WarehouseInv'
<1> USE WarehouseAssumption DEF WarehouseInv, Procs
<1>1. WarehouseTypeOK'
  BY DEF ReadSilver, Hold, Goto, tables, WarehouseTypeOK, Jobs
<1>2. RunsInv'
  BY DEF ReadSilver, Hold, Goto, tables, RunsInv, WarehouseTypeOK
<1>3. RefreshInv'
  BY DEF ReadSilver, Hold, Goto, tables, RefreshInv, RunsInv, WarehouseTypeOK
<1>4. TablesAreWhole' /\ StagedIsWhole'
  BY DEF ReadSilver, Hold, Goto, tables, TablesAreWhole, StagedIsWhole, Whole
<1>5. CheckedIsExported'
  BY DEF ReadSilver, Hold, Goto, tables, CheckedIsExported, RunsInv, WarehouseTypeOK
<1>6. QED
  BY <1>1, <1>2, <1>3, <1>4, <1>5

LEMMA FlushGoldKeeps ==
  ASSUME NEW p \in Procs, WarehouseInv, FlushGold(p)
  PROVE  WarehouseInv'
<1> USE WarehouseAssumption DEF WarehouseInv, Procs
<1>1. WarehouseTypeOK'
  BY DEF FlushGold, Hold, WarehouseTypeOK, Jobs
<1>2. RunsInv'
  BY DEF FlushGold, Hold, RunsInv, WarehouseTypeOK
<1>3. RefreshInv'
  BY DEF FlushGold, Hold, RefreshInv, RunsInv, WarehouseTypeOK
<1>4. TablesAreWhole' /\ StagedIsWhole'
  BY DEF FlushGold, Hold, TablesAreWhole, StagedIsWhole, Whole
<1>5. CheckedIsExported'
  BY DEF FlushGold, Hold, CheckedIsExported, RunsInv, WarehouseTypeOK
<1>6. QED
  BY <1>1, <1>2, <1>3, <1>4, <1>5

LEMMA AllFlushedKeeps ==
  ASSUME NEW p \in Procs, WarehouseInv, AllFlushed(p)
  PROVE  WarehouseInv'
<1> USE WarehouseAssumption DEF WarehouseInv, Procs
<1>1. WarehouseTypeOK'
  BY DEF AllFlushed, Hold, Goto, tables, WarehouseTypeOK, Jobs
<1>2. RunsInv'
  BY DEF AllFlushed, Hold, Goto, tables, RunsInv, WarehouseTypeOK
<1>3. RefreshInv'
  BY DEF AllFlushed, Hold, Goto, tables, RefreshInv, RunsInv, WarehouseTypeOK
<1>4. TablesAreWhole' /\ StagedIsWhole'
  BY DEF AllFlushed, Hold, Goto, tables, TablesAreWhole, StagedIsWhole, Whole
<1>5. CheckedIsExported'
  BY DEF AllFlushed, Hold, Goto, tables, CheckedIsExported, RunsInv, WarehouseTypeOK
<1>6. QED
  BY <1>1, <1>2, <1>3, <1>4, <1>5

LEMMA SwapOutKeeps ==
  ASSUME NEW p \in Procs, WarehouseInv, SwapOut(p)
  PROVE  WarehouseInv'
<1> USE WarehouseAssumption DEF WarehouseInv, Procs
<1>1. WarehouseTypeOK'
  BY DEF SwapOut, Hold, Goto, WarehouseTypeOK, Jobs
<1>2. RunsInv'
  BY DEF SwapOut, Hold, Goto, RunsInv, WarehouseTypeOK
<1>3. RefreshInv'
  BY DEF SwapOut, Hold, Goto, RefreshInv, RunsInv, WarehouseTypeOK
<1>4. TablesAreWhole' /\ StagedIsWhole'
  BY DEF SwapOut, Hold, Goto, TablesAreWhole, StagedIsWhole, Whole
<1>5. CheckedIsExported'
  BY DEF SwapOut, Hold, Goto, CheckedIsExported, RunsInv, WarehouseTypeOK
<1>6. QED
  BY <1>1, <1>2, <1>3, <1>4, <1>5

LEMMA SwapInKeeps ==
  ASSUME NEW p \in Procs, WarehouseInv, SwapIn(p)
  PROVE  WarehouseInv'
<1> USE WarehouseAssumption DEF WarehouseInv, Procs
<1>1. WarehouseTypeOK'
  BY DEF SwapIn, Hold, Goto, WarehouseTypeOK, Jobs
<1>2. RunsInv'
  BY DEF SwapIn, Hold, Goto, RunsInv, WarehouseTypeOK
<1>3. RefreshInv'
  BY DEF SwapIn, Hold, Goto, RefreshInv, RunsInv, WarehouseTypeOK
<1>4. TablesAreWhole' /\ StagedIsWhole'
  <2>1. p = Dag
    BY DEF SwapIn, RunsInv, Jobs
  <2>2. todo[Dag] \in Csvs
    BY <2>1 DEF SwapIn, RefreshInv, CheckedIsExported
  <2>3. QED
    BY <2>1, <2>2 DEF SwapIn, Hold, TablesAreWhole, StagedIsWhole, Whole
<1>5. CheckedIsExported'
  BY DEF SwapIn, Hold, Goto, CheckedIsExported, RunsInv, WarehouseTypeOK
<1>6. QED
  BY <1>1, <1>2, <1>3, <1>4, <1>5

LEMMA FinishKeeps ==
  ASSUME NEW p \in Procs, WarehouseInv, Finish(p)
  PROVE  WarehouseInv'
<1> USE WarehouseAssumption DEF WarehouseInv, Procs
<1>1. WarehouseTypeOK'
  BY DEF Finish, Goto, tables, WarehouseTypeOK, Jobs
<1>2. RunsInv'
  BY DEF Finish, Goto, tables, RunsInv, WarehouseTypeOK
<1>3. RefreshInv'
  BY DEF Finish, Goto, tables, RefreshInv, RunsInv, WarehouseTypeOK
<1>4. TablesAreWhole' /\ StagedIsWhole'
  BY DEF Finish, Goto, tables, TablesAreWhole, StagedIsWhole, Whole
<1>5. CheckedIsExported'
  BY DEF Finish, Goto, tables, CheckedIsExported, RunsInv, WarehouseTypeOK
<1>6. QED
  BY <1>1, <1>2, <1>3, <1>4, <1>5

LEMMA CheckKeeps ==
  ASSUME WarehouseInv, Check
  PROVE  WarehouseInv'
<1> USE WarehouseAssumption DEF WarehouseInv, Procs
<1>1. WarehouseTypeOK'
  BY DEF Check, Open, Goto, GoldPasses, tables, WarehouseTypeOK, Jobs
<1>2. RunsInv'
  BY DEF Check, Open, Goto, GoldPasses, tables, RunsInv, WarehouseTypeOK
<1>3. RefreshInv'
  BY DEF Check, Open, Goto, GoldPasses, tables, RefreshInv, RunsInv, WarehouseTypeOK
<1>4. TablesAreWhole' /\ StagedIsWhole'
  BY DEF Check, Open, Goto, GoldPasses, tables, TablesAreWhole, StagedIsWhole, Whole
<1>5. CheckedIsExported'
  BY DEF Check, Open, Goto, GoldPasses, tables, CheckedIsExported, RunsInv,
         RefreshInv, TablesAreWhole, Whole, WarehouseTypeOK
<1>6. QED
  BY <1>1, <1>2, <1>3, <1>4, <1>5

LEMMA CheckFailsKeeps ==
  ASSUME WarehouseInv, CheckFails
  PROVE  WarehouseInv'
<1> USE WarehouseAssumption DEF WarehouseInv, Procs
<1>1. WarehouseTypeOK'
  BY DEF CheckFails, Goto, tables, WarehouseTypeOK, Jobs
<1>2. RunsInv'
  BY DEF CheckFails, Goto, tables, RunsInv, WarehouseTypeOK
<1>3. RefreshInv'
  BY DEF CheckFails, Goto, tables, RefreshInv, RunsInv, WarehouseTypeOK
<1>4. TablesAreWhole' /\ StagedIsWhole'
  BY DEF CheckFails, Goto, tables, TablesAreWhole, StagedIsWhole, Whole
<1>5. CheckedIsExported'
  BY DEF CheckFails, Goto, tables, CheckedIsExported, RunsInv, WarehouseTypeOK
<1>6. QED
  BY <1>1, <1>2, <1>3, <1>4, <1>5

LEMMA CollideKeeps ==
  ASSUME NEW p \in Procs, WarehouseInv, Collide(p)
  PROVE  WarehouseInv'
<1> USE WarehouseAssumption DEF WarehouseInv, Procs
<1>1. WarehouseTypeOK'
  BY DEF Collide, Raise, Drop, Goto, tables, WarehouseTypeOK, Jobs
<1>2. RunsInv'
  BY DEF Collide, Raise, Drop, Goto, tables, RunsInv, WarehouseTypeOK
<1>3. RefreshInv'
  BY DEF Collide, Raise, Drop, Goto, tables, RefreshInv, RunsInv, WarehouseTypeOK
<1>4. TablesAreWhole' /\ StagedIsWhole'
  BY DEF Collide, Raise, Drop, Goto, tables, TablesAreWhole, StagedIsWhole, Whole
<1>5. CheckedIsExported'
  BY DEF Collide, Raise, Drop, Goto, tables, CheckedIsExported, RunsInv, WarehouseTypeOK
<1>6. QED
  BY <1>1, <1>2, <1>3, <1>4, <1>5

LEMMA FailKeeps ==
  ASSUME NEW p \in Procs, WarehouseInv, Fail(p)
  PROVE  WarehouseInv'
<1> USE WarehouseAssumption DEF WarehouseInv, Procs
<1>1. WarehouseTypeOK'
  BY DEF Fail, Raise, Drop, Goto, tables, WarehouseTypeOK, Jobs
<1>2. RunsInv'
  BY DEF Fail, Raise, Drop, Goto, tables, RunsInv, WarehouseTypeOK
<1>3. RefreshInv'
  BY DEF Fail, Raise, Drop, Goto, tables, RefreshInv, RunsInv, WarehouseTypeOK
<1>4. TablesAreWhole' /\ StagedIsWhole'
  BY DEF Fail, Raise, Drop, Goto, tables, TablesAreWhole, StagedIsWhole, Whole
<1>5. CheckedIsExported'
  BY DEF Fail, Raise, Drop, Goto, tables, CheckedIsExported, RunsInv, WarehouseTypeOK
<1>6. QED
  BY <1>1, <1>2, <1>3, <1>4, <1>5

LEMMA KillKeeps ==
  ASSUME NEW p \in Procs, WarehouseInv, Kill(p)
  PROVE  WarehouseInv'
<1> USE WarehouseAssumption DEF WarehouseInv, Procs
<1>1. WarehouseTypeOK'
  BY DEF Kill, Drop, Goto, tables, WarehouseTypeOK, Jobs
<1>2. RunsInv'
  BY DEF Kill, Drop, Goto, tables, RunsInv, WarehouseTypeOK
<1>3. RefreshInv'
  BY DEF Kill, Drop, Goto, tables, RefreshInv, RunsInv, WarehouseTypeOK
<1>4. TablesAreWhole' /\ StagedIsWhole'
  BY DEF Kill, Drop, Goto, tables, TablesAreWhole, StagedIsWhole, Whole
<1>5. CheckedIsExported'
  BY DEF Kill, Drop, Goto, tables, CheckedIsExported, RunsInv, WarehouseTypeOK
<1>6. QED
  BY <1>1, <1>2, <1>3, <1>4, <1>5
------------------------------------------------------------------------------

LEMMA WarehouseStep ==
  ASSUME ManualJobs \subseteq {"bronze"},
         WarehouseInv, [WarehouseNext]_warehouseVars
  PROVE  WarehouseInv'
<1>1. CASE UNCHANGED warehouseVars
  BY <1>1 DEF warehouseVars, WarehouseInv, WarehouseTypeOK, RunsInv, RefreshInv,
              TablesAreWhole, StagedIsWhole, CheckedIsExported
<1>2. CASE DagStep
  BY <1>2, StartDagKeeps, CheckKeeps, CheckFailsKeeps DEF DagStep
<1>3. CASE \E p \in Manual : StartManual(p)
  BY <1>3, StartManualKeeps
<1>4. ASSUME NEW p \in Procs, JobStep(p) PROVE WarehouseInv'
  BY <1>4, TruncateKeeps, LoadBronzeKeeps, LoadSilverKeeps, ReadSilverKeeps,
     FlushGoldKeeps, AllFlushedKeeps, SwapOutKeeps, SwapInKeeps, FinishKeeps,
     CollideKeeps
     DEF JobStep
<1>5. ASSUME NEW p \in Procs, Acquire(p) \/ Fail(p) \/ Kill(p)
      PROVE  WarehouseInv'
  BY <1>5, AcquireKeeps, FailKeeps, KillKeeps
<1>6. QED
  BY <1>1, <1>2, <1>3, <1>4, <1>5 DEF WarehouseNext

(***************************************************************************)
(* As long as people start bronze loads only, the strengthened invariant   *)
(* holds: any number of people, files, failures and kills.                 *)
(***************************************************************************)
THEOREM WarehouseInvariant ==
  ASSUME ManualJobs \subseteq {"bronze"}
  PROVE  WarehouseSpec => []WarehouseInv
<1>1. WarehouseInv /\ [WarehouseNext]_warehouseVars => WarehouseInv'
  BY WarehouseStep
<1>2. QED
  BY WarehouseInitially, <1>1, PTL DEF WarehouseSpec

(***************************************************************************)
(* Loads and refreshes that overlap never leave bronze or silver with part *)
(* of a file, or with rows of two.                                         *)
(***************************************************************************)
THEOREM NoMixedTables ==
  ASSUME ManualJobs \subseteq {"bronze"}
  PROVE  WarehouseSpec => []TablesAreWhole
<1>1. WarehouseInv => TablesAreWhole
  BY DEF WarehouseInv
<1>2. QED
  BY <1>1, WarehouseInvariant, PTL

(***************************************************************************)
(* The staging directory Pathway reads is absent or holds one whole,       *)
(* nonempty file, whichever step of an export or refresh fails.            *)
(***************************************************************************)
THEOREM StagingIsWhole ==
  ASSUME ManualJobs \subseteq {"bronze"}
  PROVE  WarehouseSpec => []StagedIsWhole
<1>1. WarehouseInv => StagedIsWhole
  BY DEF WarehouseInv
<1>2. QED
  BY <1>1, WarehouseInvariant, PTL

(***************************************************************************)
(* The row counts dq_after_gold compares are enough: while the export runs,*)
(* gold has exactly the rows of silver and silver is a whole file.         *)
(***************************************************************************)
THEOREM CountsSuffice ==
  ASSUME ManualJobs \subseteq {"bronze"}
  PROVE  WarehouseSpec => []CheckedIsExported
<1>1. WarehouseInv => CheckedIsExported
  BY DEF WarehouseInv
<1>2. QED
  BY <1>1, WarehouseInvariant, PTL

------------------------------------------------------------------------------
\* The schedules around the tables

(***************************************************************************)
(* Accounts are flushed whole: gold is the rows of some accounts of one    *)
(* file, and while the hourly run writes it, the accounts it has written   *)
(* and those it has yet to write are different ones.                       *)
(***************************************************************************)
AccountsOf(rows, file) ==
  /\ rows \subseteq file
  /\ \A r \in rows, s \in file : s.account = r.account => s \in rows

GoldInv ==
  /\ \E file \in Whole : AccountsOf(gold, file)
  /\ job[Dag] = "gold" /\ pc[Dag] = "write" =>
       \A r \in gold, s \in todo[Dag] : r.account # s.account

(***************************************************************************)
(* What the last hourly run left, when no load ran beside it or since:     *)
(* from its second job on, silver has the rows of bronze, and gold those   *)
(* of silver once they were compared.                                      *)
(***************************************************************************)
CleanInv ==
  /\ clean => NobodyLoads
  /\ clean /\ job[Dag] = "silver" /\ pc[Dag] \in {"finish", "dq"} => silver = bronze
  /\ clean /\ job[Dag] \in {"gold", "staging"} => silver = bronze
  /\ job[Dag] = "staging" => gold = silver /\ silver \in Csvs

\* what the daily checks have seen
DailyInv ==
  /\ checking \subseteq Checks \cup {"parity"}
  /\ counted \in Seq(Nat) /\ Len(counted) <= 2
  /\ calm => /\ Refreshed
             /\ \A i \in 1..Len(counted) : counted[i] = Cardinality(bronze)

OperationsInv ==
  /\ WarehouseInv /\ GoldInv /\ CleanInv /\ DailyInv
  /\ AlarmsAreTrue /\ StatsAreOfOneFile
------------------------------------------------------------------------------
\* check_first_txn_count counts right, whatever part of a file gold has

LEMMA LeastOf ==
  ASSUME NEW S \in SUBSET Nat, S # {}
  PROVE  \E j \in S : \A k \in S : j <= k
<1>1. PICK j \in S : \A k \in S : ~(<<k, j>> \in OpToRel(<, Nat))
  BY NatLessThanWellFounded, WFMin, Zenon
<1>2. \A k \in S : ~(k < j)
  BY <1>1, Zenon DEF OpToRel
<1> QED BY <1>2

(***************************************************************************)
(* In the rows of whole accounts, each account has exactly one first row:  *)
(* the one with its least number.                                          *)
(***************************************************************************)
LEMMA OneFirstEach ==
  ASSUME NEW rows, NEW file \in Whole, AccountsOf(rows, file)
  PROVE  Cardinality(Firsts(rows)) = Cardinality({r.account : r \in rows})
<1> DEFINE ids == {r.account : r \in rows}
           f == [r \in Firsts(rows) |-> r.account]
<1>1. CASE file = {}
  <2>1. Firsts(rows) = {} /\ ids = {}
    BY <1>1 DEF AccountsOf, Firsts
  <2> QED BY <2>1
<1>2. CASE file \in Csvs
  <2>1. \A r \in rows : /\ r \in file /\ r.num \in Nat
                        /\ r.before = {s.num : s \in {q \in file :
                             q.account = r.account /\ q.num < r.num}}
    BY <1>2, FilesAssumption DEF AccountsOf
  <2>2. f \in [Firsts(rows) -> ids] /\ Firsts(rows) \subseteq rows
    BY DEF Firsts
  <2>3. ASSUME NEW r \in Firsts(rows), NEW s \in Firsts(rows), r.account = s.account
        PROVE  r = s
    <3>1. r \in rows /\ s \in rows /\ r \in file /\ s \in file
      BY <2>1, <2>2
    <3>2. ~(r.num < s.num)
      <4>1. r.num < s.num => r.num \in s.before
        BY <2>1, <2>3, <3>1
      <4> QED BY <4>1 DEF Firsts
    <3>3. ~(s.num < r.num)
      <4>1. s.num < r.num => s.num \in r.before
        BY <2>1, <2>3, <3>1
      <4> QED BY <4>1 DEF Firsts
    <3>4. r.num = s.num
      BY <2>1, <3>1, <3>2, <3>3
    <3> QED BY <1>2, <3>1, <3>4, WarehouseAssumption
  <2>4. ASSUME NEW id \in ids PROVE \E r \in Firsts(rows) : r.account = id
    <3> DEFINE Nums == {r.num : r \in {q \in rows : q.account = id}}
    <3>1. Nums \in SUBSET Nat /\ Nums # {}
      BY <2>1
    <3>2. PICK n \in Nums : \A m \in Nums : n <= m
      BY <3>1, LeastOf
    <3>3. PICK r \in rows : r.account = id /\ r.num = n
      OBVIOUS
    <3>4. ASSUME NEW m \in r.before PROVE ~(m < r.num)
      <4>1. PICK s \in file : s.account = id /\ s.num = m
        BY <2>1, <3>3, <3>4
      <4>2. s \in rows
        BY <3>3, <4>1 DEF AccountsOf
      <4>3. n <= m /\ n \in Nat /\ m \in Nat
        BY <2>1, <3>2, <3>3, <4>1, <4>2
      <4> QED BY <3>3, <4>3
    <3>5. r \in Firsts(rows)
      BY <3>3, <3>4 DEF Firsts
    <3> QED BY <3>3, <3>5
  <2> HIDE DEF ids
  <2>5. f \in Bijection(Firsts(rows), ids)
    BY <2>2, <2>3, <2>4 DEF Bijection, Injection, Surjection, IsInjective
  <2>6. ExistsBijection(Firsts(rows), ids)
    BY <2>5 DEF ExistsBijection
  <2>7. IsFiniteSet(Firsts(rows))
    BY <1>2, <2>1, <2>2, FS_Subset, WarehouseAssumption
  <2> QED BY <2>6, <2>7, FS_Bijection DEF ids
<1> QED BY <1>1, <1>2 DEF Whole

LEMMA FirstsAreTrue ==
  ASSUME GoldInv
  PROVE  Cardinality(Firsts(gold)) = Cardinality({r.account : r \in gold})
BY OneFirstEach DEF GoldInv
------------------------------------------------------------------------------
\* GoldInv and CleanInv are kept by the jobs

LEMMA FlushKeepsAccounts ==
  ASSUME NEW p \in Procs, WarehouseInv, GoldInv, FlushGold(p)
  PROVE  GoldInv'
<1>1. p = Dag
  BY DEF WarehouseInv, RunsInv, FlushGold, Procs
<1>2. /\ job[Dag] = "gold" /\ pc[Dag] = "write" /\ gold \cup todo[Dag] = silver
      /\ silver \in Whole /\ pc' = pc /\ job' = job
      /\ \A r \in gold, s \in todo[Dag] : r.account # s.account
  BY <1>1 DEF WarehouseInv, RefreshInv, TablesAreWhole, GoldInv, FlushGold, Hold
<1>3. PICK some : LET part == {r \in todo[Dag] : r.account \in some} IN
        gold' = gold \cup part /\ todo' = [todo EXCEPT ![Dag] = todo[Dag] \ part]
  BY <1>1 DEF FlushGold
<1>4. /\ \A r : r \in gold' <=> r \in gold \/ (r \in todo[Dag] /\ r.account \in some)
      /\ \A r : r \in todo'[Dag] <=> r \in todo[Dag] /\ r.account \notin some
  BY <1>1, <1>3 DEF WarehouseInv, WarehouseTypeOK
<1>5. AccountsOf(gold', silver)
  BY <1>2, <1>4 DEF AccountsOf
<1>6. \A r \in gold', s \in todo'[Dag] : r.account # s.account
  BY <1>2, <1>4
<1> QED BY <1>2, <1>5, <1>6 DEF GoldInv

LEMMA JobsKeepGold ==
  ASSUME ManualJobs \subseteq {"bronze"}, WarehouseInv, GoldInv,
         [WarehouseNext]_warehouseVars
  PROVE  GoldInv'
<1> USE DEF GoldInv, WarehouseInv, WarehouseTypeOK, Procs
<1>0. AccountsOf({}, {}) /\ {} \in Whole
  BY DEF AccountsOf, Whole
<1>1. ASSUME NEW p \in Procs, Truncate(p) PROVE GoldInv'
  <2>1. CASE job[p] = "gold"
    <3>1. gold' = {} /\ p = Dag /\ pc'[Dag] = "acquire"
      BY <1>1, <2>1 DEF Truncate, Goto, RunsInv
    <3> QED BY <1>0, <3>1
  <2>2. CASE job[p] # "gold"
    BY <1>1, <2>2 DEF Truncate, Goto, RunsInv
  <2> QED BY <2>1, <2>2
<1>2. ASSUME NEW p \in Procs, LoadBronze(p) \/ LoadSilver(p) PROVE GoldInv'
  BY <1>2 DEF LoadBronze, LoadSilver, Hold, Goto, RunsInv
<1>3. ASSUME NEW p \in Procs, ReadSilver(p) PROVE GoldInv'
  <2>1. p = Dag
    BY <1>3 DEF ReadSilver, RunsInv
  <2>2. job[Dag] = "gold" => gold = {}
    BY <1>3, <2>1 DEF ReadSilver, RefreshInv
  <2> QED BY <1>3, <2>1, <2>2 DEF ReadSilver, Hold, Goto, tables
<1>4. ASSUME NEW p \in Procs, FlushGold(p) PROVE GoldInv'
  BY <1>4, FlushKeepsAccounts
<1>5. ASSUME NEW p \in Procs, AllFlushed(p) \/ SwapOut(p) \/ SwapIn(p) \/ Finish(p)
      PROVE GoldInv'
  BY <1>5 DEF AllFlushed, SwapOut, SwapIn, Finish, Hold, Goto, tables, RunsInv
<1>6. ASSUME NEW p \in Procs, Collide(p) \/ Fail(p) \/ Kill(p) PROVE GoldInv'
  BY <1>6 DEF Collide, Fail, Kill, Raise, Drop, Goto, tables, RunsInv
<1>7. ASSUME NEW p \in Procs, Acquire(p) PROVE GoldInv'
  BY <1>7 DEF Acquire, Goto, tables
<1>8. CASE StartDag \/ Check \/ CheckFails
  BY <1>8 DEF StartDag, Check, CheckFails, Open, Goto, tables
<1>9. ASSUME NEW p \in Manual, StartManual(p) PROVE GoldInv'
  BY <1>9, WarehouseAssumption DEF StartManual, Open, Goto, tables
<1>10. CASE UNCHANGED warehouseVars
  BY <1>10 DEF warehouseVars
<1> QED BY <1>1, <1>2, <1>3, <1>4, <1>5, <1>6, <1>7, <1>8, <1>9, <1>10
        DEF WarehouseNext, DagStep, JobStep

LEMMA JobsKeepClean ==
  ASSUME WarehouseInv, CleanInv, JobsGoOn
  PROVE  CleanInv'
<1> USE DEF CleanInv, NobodyLoads, WarehouseInv, WarehouseTypeOK, RunsInv, Procs
<1>1. clean' = clean
  BY DEF JobsGoOn
<1>2. ASSUME NEW p \in Procs, Truncate(p) PROVE CleanInv'
  BY <1>1, <1>2, WarehouseAssumption DEF Truncate, Goto
<1>3. ASSUME NEW p \in Procs, LoadBronze(p) PROVE CleanInv'
  BY <1>1, <1>3 DEF LoadBronze, Hold, Goto
<1>4. ASSUME NEW p \in Procs, LoadSilver(p) PROVE CleanInv'
  <2>1. p = Dag /\ silver' = bronze /\ bronze' = bronze
    BY <1>4 DEF LoadSilver, RefreshInv
  <2> QED BY <1>1, <1>4, <2>1, WarehouseAssumption DEF LoadSilver, Hold, Goto
<1>5. ASSUME NEW p \in Procs, ReadSilver(p) PROVE CleanInv'
  BY <1>1, <1>5, WarehouseAssumption DEF ReadSilver, Hold, Goto, tables
<1>6. ASSUME NEW p \in Procs, FlushGold(p) PROVE CleanInv'
  BY <1>1, <1>6 DEF FlushGold, Hold
<1>7. ASSUME NEW p \in Procs, AllFlushed(p) \/ SwapOut(p) \/ SwapIn(p)
      PROVE  CleanInv'
  BY <1>1, <1>7, WarehouseAssumption
     DEF AllFlushed, SwapOut, SwapIn, Hold, Goto, tables
<1>8. ASSUME NEW p \in Procs, Finish(p) PROVE CleanInv'
  BY <1>1, <1>8, WarehouseAssumption DEF Finish, Goto, tables
<1>9. ASSUME NEW p \in Procs, Collide(p) \/ Fail(p) \/ Kill(p) PROVE CleanInv'
  BY <1>1, <1>9, WarehouseAssumption DEF Collide, Fail, Kill, Raise, Drop, Goto, tables
<1>10. ASSUME NEW p \in Procs, Acquire(p) PROVE CleanInv'
  BY <1>1, <1>10, WarehouseAssumption DEF Acquire, Goto, tables
<1>11. CASE Check
  <2>1. CASE job[Dag] = "silver" /\ Open(Dag, "gold")
    BY <1>1, <1>11, <2>1, WarehouseAssumption DEF Check, Open, Goto, tables
  <2>2. CASE job[Dag] = "gold" /\ GoldPasses /\ Open(Dag, "staging")
    <3>1. gold = silver /\ silver \in Csvs
      BY <1>11, <2>2 DEF Check, GoldPasses, RefreshInv, TablesAreWhole, Whole
    <3> QED BY <1>1, <1>11, <2>2, <3>1, WarehouseAssumption DEF Check, Open, Goto, tables
  <2> QED BY <1>11, <2>1, <2>2 DEF Check
<1>12. CASE CheckFails
  BY <1>1, <1>12, WarehouseAssumption DEF CheckFails, Goto, tables
<1> QED BY <1>2, <1>3, <1>4, <1>5, <1>6, <1>7, <1>8, <1>9, <1>10, <1>11, <1>12
        DEF JobsGoOn, JobStep
------------------------------------------------------------------------------
\* Every step of the schedules keeps OperationsInv

(***************************************************************************)
(* Once the hourly run succeeded with nobody loading beside it or since,   *)
(* the three tables have the rows of one file.                             *)
(***************************************************************************)
LEMMA RefreshedTablesAgree ==
  ASSUME WarehouseInv, CleanInv, Refreshed
  PROVE  /\ silver = bronze /\ gold = bronze /\ bronze \in Csvs /\ bronze # {}
         /\ \A p \in Procs : pc[p] = "idle"
BY DEF CleanInv, Refreshed, NobodyLoads, Procs

\* and no job is under way
LEMMA NothingRuns ==
  ASSUME \A p \in Procs : pc[p] = "idle"
  PROVE  ~JobsGoOn
BY DEF JobsGoOn, Check, CheckFails, JobStep, Truncate, LoadBronze, LoadSilver,
       ReadSilver, FlushGold, AllFlushed, SwapOut, SwapIn, Finish, Collide,
       Colliding, Acquire, Fail, Kill, Procs

LEMMA JobsStep ==
  ASSUME ManualJobs \subseteq {"bronze"}, OperationsInv, JobsGoOn
  PROVE  OperationsInv'
<1> USE DEF OperationsInv
<1>1. [WarehouseNext]_warehouseVars
  BY DEF JobsGoOn, WarehouseNext, DagStep
<1>2. ~calm /\ ~calm'
  BY RefreshedTablesAgree, NothingRuns DEF DailyInv, JobsGoOn, dailyVars
<1>3. UNCHANGED <<red, dailyVars, stats>>
  BY DEF JobsGoOn
<1> QED BY <1>1, <1>2, <1>3, WarehouseStep, JobsKeepGold, JobsKeepClean
        DEF DailyInv, dailyVars, AlarmsAreTrue, StatsAreOfOneFile

LEMMA HourlyStep ==
  ASSUME ManualJobs \subseteq {"bronze"}, OperationsInv, HourlyRun
  PROVE  OperationsInv'
<1> USE DEF OperationsInv
<1>1. [WarehouseNext]_warehouseVars
  BY DEF HourlyRun, WarehouseNext, DagStep
<1>2. WarehouseInv' /\ GoldInv'
  BY <1>1, WarehouseStep, JobsKeepGold
<1>3. CASE IngestPasses
  <2>1. /\ StartDag /\ calm' = FALSE /\ clean' = NobodyLoads
        /\ UNCHANGED <<checking, counted, stats>>
    BY <1>3 DEF HourlyRun
  <2>2. CleanInv'
    BY <2>1, WarehouseAssumption
       DEF CleanInv, NobodyLoads, StartDag, Open, Goto, tables, WarehouseInv,
           WarehouseTypeOK, Procs
  <2>3. "first_txn" \notin red'
    BY DEF HourlyRun, Report, AlarmsAreTrue
  <2> QED BY <1>2, <2>1, <2>2, <2>3 DEF DailyInv, AlarmsAreTrue, StatsAreOfOneFile
<1>4. CASE ~IngestPasses
  <2>1. UNCHANGED <<warehouseVars, calm, clean, checking, counted, stats>>
    BY <1>4 DEF HourlyRun
  <2>2. red' \cap (Checks \cup {"parity"}) = red \cap (Checks \cup {"parity"})
    BY DEF HourlyRun, Report, Checks
  <2>3. "first_txn" \notin red'
    BY DEF HourlyRun, Report, AlarmsAreTrue
  <2> QED BY <1>2, <2>1, <2>2, <2>3
          DEF CleanInv, NobodyLoads, warehouseVars, DailyInv, Refreshed,
              AlarmsAreTrue, StatsAreOfOneFile
<1> QED BY <1>3, <1>4

LEMMA ManualStep ==
  ASSUME ManualJobs \subseteq {"bronze"}, OperationsInv, NEW p \in Manual, ManualRun(p)
  PROVE  OperationsInv'
<1> USE DEF OperationsInv
<1>1. [WarehouseNext]_warehouseVars
  BY DEF ManualRun, WarehouseNext
<1>2. CleanInv'
  BY WarehouseAssumption
     DEF ManualRun, StartManual, Open, Goto, tables, CleanInv, WarehouseInv,
         WarehouseTypeOK, Procs
<1> QED BY <1>1, <1>2, WarehouseStep, JobsKeepGold
        DEF ManualRun, DailyInv, AlarmsAreTrue, StatsAreOfOneFile

\* a load that counted the wrong number of rows fails and leaves them
LEMMA RefusedStep ==
  ASSUME OperationsInv, NEW p \in Manual, RowCountRefused(p)
  PROVE  OperationsInv'
<1> USE WarehouseAssumption DEF OperationsInv, WarehouseInv, Procs
<1>1. ~calm
  BY RefreshedTablesAgree DEF RowCountRefused, DailyInv
<1>2. WarehouseTypeOK'
  BY DEF RowCountRefused, Raise, Drop, Goto, tables, WarehouseTypeOK, Jobs
<1>3. RunsInv'
  BY DEF RowCountRefused, Raise, Drop, Goto, tables, RunsInv, WarehouseTypeOK
<1>4. RefreshInv'
  BY DEF RowCountRefused, Raise, Drop, Goto, tables, RefreshInv, WarehouseTypeOK
<1>5. TablesAreWhole' /\ StagedIsWhole' /\ CheckedIsExported'
  BY DEF RowCountRefused, Raise, Drop, Goto, tables, TablesAreWhole,
         StagedIsWhole, CheckedIsExported, WarehouseTypeOK
<1>6. GoldInv'
  BY DEF RowCountRefused, Raise, Drop, Goto, tables, GoldInv, WarehouseTypeOK
<1>7. CleanInv'
  BY DEF RowCountRefused, Raise, Drop, Goto, tables, CleanInv, NobodyLoads,
         WarehouseTypeOK
<1> QED BY <1>1, <1>2, <1>3, <1>4, <1>5, <1>6, <1>7
        DEF RowCountRefused, DailyInv, dailyVars, AlarmsAreTrue, StatsAreOfOneFile

\* what changes no table and no run
LEMMA TablesStay ==
  ASSUME WarehouseInv, GoldInv, CleanInv, UNCHANGED <<warehouseVars, clean>>
  PROVE  /\ WarehouseInv' /\ GoldInv' /\ CleanInv'
         /\ Refreshed' = Refreshed /\ bronze' = bronze
<1>1. WarehouseInv'
  BY DEF warehouseVars, WarehouseInv, WarehouseTypeOK, RunsInv, RefreshInv,
         TablesAreWhole, StagedIsWhole, CheckedIsExported
<1>2. GoldInv' /\ CleanInv'
  BY DEF warehouseVars, GoldInv, CleanInv, NobodyLoads
<1> QED BY <1>1, <1>2 DEF warehouseVars, Refreshed

LEMMA StartDailyStep ==
  ASSUME OperationsInv, StartDaily
  PROVE  OperationsInv'
<1> USE DEF OperationsInv
<1>1. UNCHANGED <<warehouseVars, clean, stats>>
  BY DEF StartDaily
<1>2. /\ WarehouseInv' /\ GoldInv' /\ CleanInv' /\ Refreshed' = Refreshed
  BY <1>1, TablesStay
<1>3. DailyInv'
  BY <1>2 DEF StartDaily, DailyInv
<1> QED BY <1>1, <1>2, <1>3 DEF StartDaily, AlarmsAreTrue, StatsAreOfOneFile

(***************************************************************************)
(* Nothing runs while calm, so the three statements of check_row_parity    *)
(* count the same rows.                                                    *)
(***************************************************************************)
LEMMA CountRowsStep ==
  ASSUME OperationsInv, CountRows
  PROVE  OperationsInv'
<1> USE DEF OperationsInv
<1>1. UNCHANGED <<warehouseVars, calm, clean, stats>>
  BY DEF CountRows
<1>2. /\ WarehouseInv' /\ GoldInv' /\ CleanInv' /\ Refreshed' = Refreshed
      /\ bronze' = bronze
  BY <1>1, TablesStay
<1> DEFINE n == Cardinality(Counts[Len(counted) + 1])
           all == Append(counted, n)
           failed == \E i \in 1..2 : all[i] # all[i + 1]
<1>3. /\ counted \in Seq(Nat) /\ Len(counted) \in {0, 1, 2}
  <2>1. counted \in Seq(Nat) /\ Len(counted) <= 2
    BY DEF DailyInv
  <2>2. Len(counted) \in Nat
    BY <2>1, LenProperties
  <2>3. \A m \in Nat : m <= 2 => m \in {0, 1, 2}
    OBVIOUS
  <2> QED BY <2>1, <2>2, <2>3
<1>4. /\ Counts[Len(counted) + 1] \in {bronze, silver, gold}
  <2>1. Len(counted) + 1 \in {1, 2, 3}
    <3>1. \A m \in {0, 1, 2} : m + 1 \in {1, 2, 3}
      OBVIOUS
    <3> QED BY <1>3, <3>1
  <2>2. Counts[1] = bronze /\ Counts[2] = silver /\ Counts[3] = gold
    BY DEF Counts
  <2> QED BY <2>1, <2>2
<1>5. n \in Nat
  <2>1. \A table \in SUBSET Rows :
          (\E file \in Whole : table \subseteq file) => IsFiniteSet(table)
    BY FS_Subset, FS_EmptySet, WarehouseAssumption DEF Whole
  <2>2. \E file \in Whole : gold \subseteq file
    BY DEF GoldInv, AccountsOf
  <2>3. IsFiniteSet(bronze) /\ IsFiniteSet(silver) /\ IsFiniteSet(gold)
    BY <2>1, <2>2 DEF WarehouseInv, WarehouseTypeOK, TablesAreWhole
  <2> QED BY <1>4, <2>3, FS_CardinalityType
<1>6. calm => /\ n = Cardinality(bronze)
              /\ \A i \in 1..Len(counted) : counted[i] = Cardinality(bronze)
  BY <1>4, RefreshedTablesAgree DEF DailyInv
<1> HIDE DEF n
<1>7. /\ all \in Seq(Nat) /\ Len(all) = Len(counted) + 1
      /\ calm => \A i \in 1..Len(all) : all[i] = Cardinality(bronze)
  BY <1>3, <1>5, <1>6
<1>8. CASE Len(counted) < 2
  <2>1. counted' = all /\ UNCHANGED <<checking, red>>
    BY <1>8 DEF CountRows, n
  <2> HIDE DEF all
  <2>2. DailyInv'
    BY <1>1, <1>2, <1>3, <1>7, <1>8, <2>1 DEF DailyInv
  <2> QED BY <1>1, <1>2, <2>1, <2>2 DEF AlarmsAreTrue, StatsAreOfOneFile
<1>9. CASE ~(Len(counted) < 2)
  <2>1. /\ Report("parity", failed) /\ counted' = <<>>
        /\ checking' = IF failed THEN {} ELSE Checks
    BY <1>9 DEF CountRows, n
  <2>2. calm => ~failed
    BY <1>3, <1>7, <1>9
  <2> HIDE DEF failed
  <2>3. DailyInv'
    BY <1>1, <1>2, <2>1 DEF DailyInv
  <2>4. AlarmsAreTrue'
    BY <1>1, <2>1, <2>2 DEF AlarmsAreTrue, Report
  <2> QED BY <1>1, <1>2, <2>3, <2>4 DEF StatsAreOfOneFile
<1> QED BY <1>8, <1>9

LEMMA RunCheckStep ==
  ASSUME OperationsInv, NEW k \in Checks, RunCheck(k)
  PROVE  OperationsInv'
<1> USE DEF OperationsInv
<1>1. UNCHANGED <<warehouseVars, counted, calm, clean, stats>>
  BY DEF RunCheck
<1>2. /\ WarehouseInv' /\ GoldInv' /\ CleanInv' /\ Refreshed' = Refreshed
      /\ bronze' = bronze
  BY <1>1, TablesStay
<1>3. PICK failed \in CheckAlarms(k) : Report(k, failed)
  BY DEF RunCheck
<1>4. k = "first_txn" => failed = FALSE
  <2>1. k = "first_txn" => failed \in
          {Cardinality(Firsts(gold)) # Cardinality({r.account : r \in gold})}
    BY <1>3 DEF CheckAlarms
  <2> QED BY <2>1, FirstsAreTrue
<1>5. calm /\ k = "fraud_rate" => failed = FALSE
  <2>1. calm => gold # {} /\ gold \in Csvs
    BY RefreshedTablesAgree DEF DailyInv
  <2> QED BY <1>3, <2>1 DEF CheckAlarms
<1>6. calm /\ k = "fraud_txn_types" => failed = FALSE
  <2>1. calm => gold = silver /\ silver \in Csvs
    BY RefreshedTablesAgree DEF DailyInv
  <2>2. calm => ~\E r \in gold : r.fraud /\
                   ~\E s \in silver : s.num = r.num /\ s.type \in FraudTypes
    BY <2>1, FilesAssumption DEF FraudTypes
  <2>3. k = "fraud_txn_types" => failed \in {\E r \in gold : r.fraud /\
                   ~\E s \in silver : s.num = r.num /\ s.type \in FraudTypes}
    BY <1>3 DEF CheckAlarms
  <2> QED BY <2>2, <2>3
<1>7. calm => failed = FALSE
  BY <1>4, <1>5, <1>6 DEF Checks
<1>8. AlarmsAreTrue'
  BY <1>1, <1>3, <1>4, <1>7 DEF AlarmsAreTrue, Report
<1>9. DailyInv'
  BY <1>1, <1>2 DEF DailyInv, RunCheck
<1> QED BY <1>1, <1>2, <1>8, <1>9 DEF StatsAreOfOneFile

\* the first score, the statistics, the watch and the audit
LEMMA OtherStep ==
  ASSUME OperationsInv, FirstScore \/ RefreshStats \/ Watch \/ Audit
  PROVE  OperationsInv'
<1> USE DEF OperationsInv
<1>1. UNCHANGED <<warehouseVars, dailyVars, clean>>
  BY DEF FirstScore, RefreshStats, Watch, Audit, RunChain
<1>2. /\ WarehouseInv' /\ GoldInv' /\ CleanInv' /\ Refreshed' = Refreshed
      /\ bronze' = bronze
  BY <1>1, TablesStay
<1>3. red' \cap (Checks \cup {"parity"}) = red \cap (Checks \cup {"parity"})
  <2>1. CASE FirstScore \/ RefreshStats
    BY <2>1 DEF FirstScore, RefreshStats
  <2>2. CASE Watch \/ Audit
    BY <2>2 DEF Watch, Audit, RunChain, Report, Checks
  <2> QED BY <2>1, <2>2
<1>4. AlarmsAreTrue'
  BY <1>1, <1>3 DEF AlarmsAreTrue, dailyVars, Checks
<1>5. StatsAreOfOneFile'
  BY DEF FirstScore, RefreshStats, Watch, Audit, RunChain, StatsAreOfOneFile,
         WarehouseInv, TablesAreWhole
<1> QED BY <1>1, <1>2, <1>4, <1>5 DEF DailyInv, dailyVars

LEMMA OperationsInitially == OperationsInit => OperationsInv
<1> SUFFICES ASSUME OperationsInit PROVE OperationsInv
  OBVIOUS
<1>1. WarehouseInv
  BY WarehouseInitially DEF OperationsInit
<1>2. GoldInv /\ CleanInv
  BY DEF OperationsInit, WarehouseInit, GoldInv, CleanInv, AccountsOf, Whole, Procs
<1>3. DailyInv /\ AlarmsAreTrue /\ StatsAreOfOneFile
  BY DEF OperationsInit, DailyInv, AlarmsAreTrue, StatsAreOfOneFile
<1> QED BY <1>1, <1>2, <1>3 DEF OperationsInv

(***************************************************************************)
(* The inductive invariant of the schedules.                               *)
(***************************************************************************)
THEOREM OperationsInvariant ==
  ASSUME ManualJobs \subseteq {"bronze"}
  PROVE  OperationsSpec => []OperationsInv
<1>1. OperationsInv /\ [OperationsNext]_operationsVars => OperationsInv'
  <2> SUFFICES ASSUME OperationsInv, [OperationsNext]_operationsVars
               PROVE  OperationsInv'
    OBVIOUS
  <2>1. CASE UNCHANGED operationsVars
    <3>1. /\ WarehouseInv' /\ GoldInv' /\ CleanInv' /\ Refreshed' = Refreshed
          /\ bronze' = bronze
      BY <2>1, TablesStay DEF operationsVars, OperationsInv
    <3> QED BY <2>1, <3>1 DEF operationsVars, dailyVars, OperationsInv, DailyInv,
                              AlarmsAreTrue, StatsAreOfOneFile
  <2>2. CASE DailyStep
    BY <2>2, CountRowsStep, RunCheckStep DEF DailyStep
  <2> QED BY <2>1, <2>2, JobsStep, HourlyStep, ManualStep, RefusedStep,
             StartDailyStep, OtherStep DEF OperationsNext
<1> QED BY <1>1, OperationsInitially, PTL DEF OperationsSpec

(***************************************************************************)
(* AlarmsAreTrue: after a clean hourly run that nothing disturbs, none of  *)
(* the daily checks fails; and the check of first transactions never does, *)
(* however few of a file's accounts gold has when it looks.                *)
(***************************************************************************)
THEOREM AlarmsTrue ==
  ASSUME ManualJobs \subseteq {"bronze"}
  PROVE  OperationsSpec => []AlarmsAreTrue
<1>1. OperationsInv => AlarmsAreTrue
  BY DEF OperationsInv
<1> QED BY <1>1, OperationsInvariant, PTL

(***************************************************************************)
(* StatsAreOfOneFile: gold.feature_stats is never computed from part of a  *)
(* file or from rows of two, whenever it is refreshed.                     *)
(***************************************************************************)
THEOREM StatsWhole ==
  ASSUME ManualJobs \subseteq {"bronze"}
  PROVE  OperationsSpec => []StatsAreOfOneFile
<1>1. OperationsInv => StatsAreOfOneFile
  BY DEF OperationsInv
<1> QED BY <1>1, OperationsInvariant, PTL
==============================================================================
