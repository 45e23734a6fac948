# conquer3 in TLA+

A verification project for `conquer3`, a fraud-scoring system: a BentoML scorer
that keeps per-account state in Redis and logs scored events, a Pathway job that
rebuilds that state from staged transactions, a supervisor that serves the MLflow
champion, a warehouse refreshed by Airflow, a Streamlit console, and the notebooks
in which the models and their alert thresholds are made. TLC checks the modules on
small instances; TLAPS proves the core for every instance. Paths below are relative
to `src/src/conquer3/` unless they start with `airflow/`, `notebook/` or name an
`.ipynb`, which are relative to `src/`.

## 1. Inventory

| component | state | operations | interacts with | what is hard |
|---|---|---|---|---|
| Account fold (`core/features.py`, `core/types.py`) | none (pure) | `advance_state`, `merge_states`, `merge_last_block`, `compute_features` | scorer, Pathway, training | late and tied events; live fold and batch merge must agree |
| Redis store (`serving/state_store.py`, `redis_scripts/monotonic_cas.lua`) | one document per account, with a TTL | `get`, `commit` | scorer and Pathway write it | compare only on the clock; keys expire |
| Scorer (`serving/scorer.py`, `service.py`) | locals of each request thread | `predict`, dry run, `model_info` | Redis, event log, model | no lock per account; failure between commit and append; retries |
| Pathway repair (`pipelines/pathway/`) | accumulators, persisted offsets, `gold.account_state` | `run_streaming`, `run_backfill`, two sinks | staging directory, Redis, Postgres | order of delivery, kills, sinks that drift apart |
| Model contract (`contracts/model_registry.py`, `serving/champion.py`) | registry alias, artifact cache, cached ref, active pointer | publish, promote, resolve, activate, load | MLflow, the disk | remote failures, files written in place, alias read twice |
| Supervisor (`serving/supervisor.py`) | child process, poll thread, audit row | boot, poll, restart, confirm, forward a signal, shut down | the above, `db/ops.py` | two threads, a signal handler and two locks |
| Event log and ingest (`serving/event_sink.py`, `pipelines/ingest/events_jsonl.py`) | hourly files, `_SUCCESS` markers, byte offsets | append, rotate, ingest | workers share directories | rotation by several threads and workers |
| Warehouse (`pipelines/ingest/bronze.py`, `pipelines/transforms/`, `db/engine.py`, `db/ops.py`) | bronze, silver and gold tables, staging files, the DuckDB lock, runs | load, transform, check, export | Postgres, Pathway, `dag_medallion_batch` | TRUNCATE before the lock, failures between statements, directory swap |
| Orchestration (`airflow/dags/`) | task states | hourly refresh, daily checks, statistics, watch, audit | all of the above | checks beside the jobs they check; tables no DDL creates |
| Replay, time reference (`producer/replay.py`, `core/timeref.py`) | position in the file, output CSV | post batches, derive timestamps | scorer; compared with gold | batches cut accounts; timeouts leave a request behind |
| Console (`ui/`) | Streamlit's session state, `ops.prediction_labels` | score, promote, inspect, label | scorer, MLflow, event log, Postgres | every click reruns the script; sessions race; autocommit |
| Training notebooks (`*.ipynb`, `notebook/`) | a kernel's names, files, registry versions | features, studies, models, calibrators, thresholds, evaluation, registration | each other, through files and MLflow | kernels that die and are rerun; labels that leak; artifacts mixed |
| Shared algorithms of the notebooks | none (pure) | point-in-time features; threshold rules; pricing of alerts | the notebooks | ties, boundaries, rows that arrive later |
| Settings, telemetry, CLI, schema and DDL generation, request validation, Kaggle download | none that a protocol depends on | | | |

What makes each correct is stated in section 4; `PROJECT.json` lists the hazards
with the properties aimed at them.

## 2. The modules

```
AccountFold          the fold and the two compare-and-set rules
  StateStore         Redis: one variable, one write
    Scorer           request threads                              Scorer_proofs
    StateRepair      Pathway and the mirror
      OnlineState    Scorer and StateRepair over one Redis        OnlineState_proofs
      Replay         a replay client over Scorer, and gold; uses TimeRef
                                                                  Replay_proofs
TimeRef              PaySim step -> timestamp
Rollout              abstract: what clients see of a rollout
ModelRegistry        MLflow, artifact cache, pointer, resolution
  Supervisor         main, poll thread, signal handler, child;
                     implements Rollout                           Supervisor_proofs
  Console            (over Rollout) a session of the UI and others
                                                                  Console_proofs
EventLog             scored-event files, ingest                   EventLog_proofs
Warehouse            medallion tables and jobs
  Operations         all DAGs over the warehouse                  Operations_proofs
Notebook             kernels, cells, files, provenance of values
  EnhancedModel, OptimalModel, RandomForest, MasterCompare, DecisionTree
PointInTime          which rows a feature is computed from
AlertPolicy          threshold rules and pricing
Notebooks            all books and the two algorithms             Notebooks_proofs
MC*                  instances for TLC
```

**AccountFold.** A document is the record `AccountState`: `anchor` is the
transaction the `last_*` block was copied from, `score` is the id of the
transaction whose probability is stored (`last_fraud_score`), the rest are the
aggregates. `Advance` is `advance_state`, `Merge` is `merge_states`,
`MonotonicCas` is the Lua script, `MonotonicUpsert` the SQL of the mirror. Left
out: `compute_features`, `amount_sqsum` (a sum like `amount_sum`), the other
copied fields of the anchor, float rounding.

**StateStore.** `redis[a]` is the document or `NoState`. `CommitState` is
`RedisStateStore.commit` and also `RedisStateObserver.on_change`: both evaluate the
same script, which Redis runs atomically. `LoseKey` is expiry, eviction or a
restart of Redis.

**Scorer.** A thread's program counter follows `FraudScorer.score`: `group`
(before `self._state.get`), `fold` (before `compute`), `append` (after
`commit`, before `self._sink.append`), `idle`. `compute` touches no shared state,
so it is one step with the commit. The threads of all workers are alike: they
share only Redis and the files. A request is a set of transactions; within an
account the thread takes them in `(event_ts_us, event_id)` order, and it takes the
accounts in any order, since the order of the payload is arbitrary. No
transaction occurs twice in one request; it may occur in several. `Abort` and
`AppendFails` end a request with an exception at every point where Redis, the
model or the disk may raise; a client may send any transaction again. `committed`,
`answered`, `ideal` and `serial` are history variables: `ideal[a]` is the
sequential fold of all commits for `a`, `serial[a]` says that no two live folds of
`a` have overlapped since its key came to be.

**StateRepair.** `Export` puts a row into the staging directory, `files`. Two processes
read it. In the streaming run `Ingest` folds one row into its account's accumulator; the
engine picks which operand comes first. `Emit` hands the accumulator to both
sinks, which handle it in their own time (`ApplyRedis`, `ApplyMirror`). `Snapshot`
and `Restart` are Pathway's persistence: a snapshot covers only what both sinks
have handled, which is what `pw.persistence` promises and the end-to-end test of the
streaming job relies on. The backfill (`run_backfill`) is started by hand beside it.
`BackfillStart` lists the directory, `BackfillReads` folds the listing into `fold`, its own
accumulators, and with the last row its only batch closes: one call to each of its own
observers per account is then outstanding (`calls`), and they run in any order and as late as
they like (`BackfillRedis`, `BackfillMirror`), until `pw.run()` returns or the process dies
(`BackfillEnds`). Rows exported meanwhile are in the streaming fold and not in the
backfill's. `repaired[a]` and `backfilled[a]` are history: whether the streaming observer
handled the newest emission of `a` since its key was lost, and whether a backfill stored the
document that is in Redis. Two staged rows never carry the same event.

**OnlineState.** The conjunction of the two over one `redis`; an expiry is a step
of both.

**ModelRegistry.** `step` follows `activate_champion`: `alias` ->
`download` -> `write` -> `cache` -> `caching` -> `pointer` -> `done`, with
`fallback` and `failed`. The download is two steps because the artifact directory
is written in place; `_write_cache` is two because `write_text` truncates first;
`_write_active_ref` is one because of `os.replace`. `artifact[v]` is the model whose
files are in `v`'s directory, which need not be `v`'s (the alias is read twice).
`Compatible` is the set of versions whose tags `verify_compatible` accepts: those of the ref, that
is, of the version the alias named at the first of the two reads.

**Supervisor.** `main` and `poll` are the program counters of the two threads,
`handling` says that main is inside the signal handler. `holder.lock` is held across
steps only by `_restart`, so the lock is the predicate `Unlocked` on `poll`. A Popen
object has a lock of its own: while main is inside `child.wait()`, no other
thread can reap that child (`Reaping`), so a restart whose main thread is stuck in
the handler sees no exit and goes through its timeout. `Boot` is
`load_active_champion` in the child; a child whose pointer or artifact cannot be
read dies.

**EventLog.** A file is a sequence of lines, so `consumed` counts lines where
`ops.file_ingest_log` counts bytes; a line is visible before its newline is
(`whole`). `Enter` fixes the hour of an event, as `append` computes `relpath` before it
takes the lock; `BeginWrite` takes the lock, rotates if the hour differs and starts the
line, `EndWrite` releases it. A thread that was late may thus rotate back. When
`_rotate` raises after `os.close`, `fd[w]` is `"closed"`: `_current_relpath` still names
the old file, so an event of that hour is written to a dead descriptor and another
rotation closes it again; every later append of the worker raises until it stops.
(The number may meanwhile be another file's or socket's; what is then written to it
or closed under it is not modelled.)
`ShortWrite` is an `os.write` that returned less than the line, which nobody looks
at: the next line is glued to it, and `Intact` holds of neither. A stopped
worker's successor may have its host name, pid and index, hence its files. The
ingest handles one file at a time; each insert commits by itself. The tables it looks offsets up
in and inserts into are made by no DDL of the repository: until `CreateTables`, which is external and
need never happen, every run that finds a file ends in `IngestRaises`.

**Warehouse.** A job's program counter follows its function: `truncate` (after
`track_run` inserted its row), `acquire` (the flock in `get_ibis_connection`), `load`,
`write`, `swap` (between the two renames of `_swap_in`), `finish`, and `dq` for the check
that follows in the DAG. `TRUNCATE` runs on an autocommit connection and before the
flock, so it is a step of its own. An `INSERT ... SELECT` through DuckDB is one Postgres
transaction, and a `TRUNCATE` that arrives meanwhile waits for it, so read and write are
one step; the atoms are statements. Gold is flushed in several transactions, each of
whole accounts. A row of silver or gold is identified with the bronze row it is computed
from, and `num`, which numbers every file from 1, is its key in all three tables
(`row_num`, `'ps-' || row_num`). The export writes a private directory and renames it.
Of the checks, `GoldPasses` keeps the comparison of counts and the division by the number
of rows; the others are true of the rows of a file. A killed job leaves its row in
`ops.pipeline_runs` as `running`. Left out: `rows_in` and `rows_out`, the second
`track_run` that `dag_bronze_ingest_paysim` wraps around the load, leftover
`ctx.new-*` and `ctx.old-*` directories.

**Operations.** Extends Warehouse with the tasks around it. The hourly run begins with
`ingest_scored_events`, which queries `ops.file_ingest_log` once there is a file of scored
events (`scored`); `Catalog` is what the files of `db/ddl/` create and `Asks` what each task
queries, so `Undefined(k)` says that task `k` must fail. `StartDaily`, `CountRows` and
`RunCheck` are `dag_data_quality`: `check_row_parity` is three statements, each other check
is one, none shares a snapshot with another. `RefreshStats` is
`dag_feature_backfill`; of `dag_champion_watch` and `dag_skew_audit` only that they cannot
get past the first query of a column or table that does not exist. `RowCountRefused` is the
check that `dag_bronze_ingest_paysim` makes after the load is committed. `calm` and `clean` are
history: whether anything ran beside the checks, or beside the last refresh.

**Rollout.** The abstract specification of a rollout: a set of versions that have been
champion and the version that answers, or none. `Serve` only starts from none and only with
a compatible version that has been champion. `Supervisor!ImplementsRollout` is
`INSTANCE Rollout WITH Down <- NoVersion, serving <- ServedVersion`, where `ServedVersion`
is the label of the child that answers. Console uses Rollout for what its scorer serves, which is
proved of the supervisor, and adds what a promotion waits for: the version the supervisor confirmed
last (`confirmed`), the pointer (`pinned`), and a restart that is not confirmed (`restarting`).

**Console.** One session of `ui/app.py` and an environment of other sessions. `at` walks down
the page of one script run: `sidebar` (health), `info` (`model_info`), `score` (the form or
the CSV of the inference tab), `registry`, `check` (a pending promotion), `history`, `labels`
(read labels, editor, Save, upload), `apply` (the statements of `apply_label_edits`, each of
which commits by itself). An exception nobody catches ends the run and leaves
`st.session_state`. Two widgets are external: the editor keeps `cells` only while the data it
is given is `base`, and a file stays in its uploader until it is removed. The scorer behind the page
is `serving/supervisor.py` as far as a page can tell: `ScorerPolls` restarts the server if the
champion is not the version confirmed last, whichever version is served (`supervisor.py:168`),
`ScorerServes` boots it from the pointer, `ScorerConfirms` or `ScorerUnconfirmed` ends the wait.

**Notebook and the five books.** A kernel (`book`, `cwd`) executes cells in order; it may die
before any cell and between two writes of one, and the next starts with an empty `mem` over
the same `disk`, perhaps in another directory. A value is what it was computed from: `facts`,
the partitions whose features or labels went into it, and `of`, the trainings whose model it
used. A cell is one of `Compute`, `Train`, `Raise`, `Open`, `Close`; `Override` and `Put` are what
binding names and writing a file do to what was there. Which rows a feature of a
partition may draw on follows from the steps of the partitions (`SeenFrom`, `Featured`).
`EnhancedModel` is notebook 03; `OptimalModel` is notebook 04 with the sections appended to it,
which look for a champion's files in two directories; `RandomForest` is the six `colab`
notebooks, their `_cache` files and MLflow runs; `DecisionTree` writes its results file before
and after the registration. `MasterCompare` knows rows by the segment of steps between two
cuts of any universe and by the side on which each random split puts them, so that
overlaps of 'test here, training there' are sets. A label a value was fitted to is marked `"y"`, one
that its features were encoded with `"te"`; `Family` puts the rows of steps 1..480 into
every value of the two feature sets that have the target encoding. It trains once per training key
(`SCORE_REGISTRY`) and decides per universe. `at` is the pair of loop variables of the training
matrix: which key, and which model or, after the last, the blends.

**PointInTime.** A ledger of rows in the order of the file, growing; each operator
(`account_history`, the mule chain, windows, velocities, fitted statistics, out-of-fold encoding)
gives the counts and sums a feature is a function of, over the rows its expression selects.

**AlertPolicy.** `scored` is a growing set of rows with a score, an amount and a label. The
rules of the three notebooks are operators on it: the F-beta sweep, the FPR budget, the
capacity, the net-value search over a grid or over strides of the frontier, the expected-value
policy. Scores are fractions of `Unit`, money is in fifths, F-beta is compared by
cross-multiplying, so nothing is rounded.

**TimeRef, Replay.** `DeriveEventTs` is `derive_event_ts_us`. `EventOf(file, n, i)` is the
transaction `to_transactions_frame` makes of row `i` when the first `n` rows are read
(`--limit`), and, with all rows read, the row `bronze_to_silver` makes of it. Replay drives
the threads of Scorer: `Post` takes the place of `Receive`, `Answer`, `ServerFails` and
`GiveUp` are what `httpx` may report; after `GiveUp` the thread goes on and may still
commit while the command runs again. `ComputeFeatures` is `compute_features`: each feature
that looks at the past is a function of the transaction and of the differences and priors
in its record, so equal records are equal features. A score is a function of the features,
hence `output` holds feature records. `GoldFeatures` is `compute_sequence` over the account's
silver rows in the order of `silver_to_gold`'s `_READ_SQL`.

## 3. Abstractions worth knowing

* Every remote call, disk write and append may fail at every point; failure
  messages, telemetry and retries inside MLflow's client are left out.
* The child stands for all workers of one server. Workers of one server that boot
  at different moments are not distinguished.
* Only the first signal is modelled, and `stop_event.set()` is atomic. Signals
  before the handlers are installed are not modelled.
* Timeouts are nondeterministic: `PollDrainTimeout` may fire at any moment of a
  drain, `PollUnconfirmed` up to `MaxSlow` times for a live child.
* Amounts are naturals, so rounding never makes two folds differ.
* Staged rows are only added. That an export swaps the whole directory, and what Pathway retracts
  and reads again when it does, is not modelled; nor are two backfills at the same time.
* Console's supervisor always resolves the live champion; fallbacks to a cached one are in
  `Supervisor` only.
* People start bronze loads only. The CLI can start any single transform by hand, which would
  overlap the DAG's own; the properties of the warehouse do not hold then.
* In a notebook, a number is its provenance. Two trainings with equal inputs are one where the
  notebook fixes its seed (RandomForest), and two where they may differ (CUDA histograms).
* Random splits are seeded, so a row is on the same side in every kernel.

## 4. What the runs check

All runs set `CHECK_DEADLOCK FALSE`: the bounds stop the behaviours (no more
requests, spawns, appends or kernels) and a supervisor that exited really stops.

| run | instance | shows |
|---|---|---|
| `scorer` | 2 threads, 2 accounts, 4 transactions of which 3 on one account and 2 tied, requests of up to 3, 2 requests, live or dry | `StoredCoherent`, `SerialFoldIsExact`, `NeverOvercounts`, `AnsweredIsDurable`, `NeverBackInTime` |
| `repair` | 3 rows, 2 tied, 1 kill, 1 backfill process, keys lost at will, fair engine | `RepairedIsFold`, `MirrorNeverBackInTime`, `EveryRowReachesMirror` |
| `online` | 1 thread, 1 request, live transactions before and tied with staged rows, 1 kill, 1 backfill process | `RepairIsEffective`, `MirrorIsStagedOnly` |
| `supervisor_safety` | 3 versions, 1 incompatible, 2 alias moves, 3 children, 1 crash, 1 slow boot | `ActiveRefIsVerified`, `BootIsPinned`, `NoOrphan`, `OneServer`, `NoFalseExit`, `ImplementsRollout` (the refinement) |
| `supervisor_live` | 2 versions, 3 moves, 4 children that drain, 1 slow boot, no crash | `ShutdownCompletes`, `EventuallyServesChampion` |
| `event_log` | 1 worker, 2 threads, 2 hours, 3 appends, 2 faults, tables that somebody may create, fair ingest | `EventLogInv` (the inductive invariant), `LineInItsHour`, `ConsumedIsStored`, `EveryLineIngested` |
| `warehouse` | the hourly run, 2 people who load 2 files into bronze, 2 failures or kills | `TablesAreWhole`, `StagedIsWhole`, `CheckedIsExported`, `EveryRunEnds`, `StagingCatchesUp` |
| `operations` | all DAGs, 1 person who loads bronze twice, 1 fault | `AlarmsAreTrue`, `StatsAreOfOneFile` |
| `replay` | a file of 4 rows, 2 accounts, 2 steps; batches of 2; all rows or the first 2; 2 runs, live or dry; keys lost at will | `ReplayMatchesGold`, `WrittenOnce` |
| `console` | 2 versions, a CSV of one row, 2 clicks that write, 1 act of others, an editor of 2 rows | `FormIdsUnique`, `OnlyChosenOrRaced`, `PromotionAcknowledged` |
| `notebooks` | every book with up to 4 restarts in 2 directories, 8 models of the comparison; 3 ledger rows; 4 scored rows | `DecisionsBlind`, `ArtifactsMatch`, `BetaMonotone`, `EvIsExpectedNbv`, `RulesAreSound`, `FeaturesSettle` |
| `operations_scored` | as `operations`, 1 load, no fault | violation of `StagingCatchesUp`, below |

**Why the bounds are enough.** Lost updates, stale commits and expiry during a fold need two
requests that overlap. Three transactions of one account, two of them tied, give every order of
late, tied and newer, in one request or in two; the fourth makes a request go from one account to
the next. One kill is enough to count a row twice or to drop it, and falls between any two of
reading, writing a sink and saving; a backfill may list any number of the rows and write before,
between and after the same steps. Two tied rows and a third are what it takes for a late write of an
older listing to pass the CAS. In the supervisor, a restart needs one promotion beyond the boot (two
moves), a second restart needs the third child; a signal, crash and slow boot may each fall anywhere
in it. In `supervisor_live` the third move is the rollback after a slow boot, and a boot, two
restarts and a retry need four children, so the spawn bound never stops the poll thread. In the
event log, rotating back needs two threads and two hours; the third append writes to a file that was
closed and marked; two faults put a crash of the ingest after a line cut short, or a stop of the
worker after a failed rotation. Workers share no file and no lock, only the markers, so one worker
shows what the claims that hold are about. In the warehouse, a mixture needs two loads that overlap;
the hourly run may be anywhere between. The files share row number 1 and differ in size, so counts
may agree by chance or not. One fault leaves a table partial and the second may hit the run that
repairs it. In `operations`, one load is enough to change the tables between two statements of a
check, and the second to undo it. In `replay`, `a1` has rows in both batches and both steps, and
`--limit 2` cuts the first step; the second run may overlap what the first left behind. In
`console`, one click scores or promotes and the next saves; one act of another session falls between
any two steps of a run. In `notebooks`, a file of one kernel may be read by a second whose own file
is read by a third, a fourth may be between two writes, and the chain of the six `colab` books is no
longer than the restarts allow to matter: each hand-over is between two of them. Three rows make a
past, a present and a future row for a feature, on one account or two, in one day or two; the hours
of a day and the windows are scaled down with them. Four scored rows make two tied pairs around a
cutoff.

**Fairness.** `repair` assumes weak fairness of reading a row, emitting an account and calling each
observer: a running Pathway engine does each of these continually, in the streaming run; a backfill
need not go on. `supervisor_live` assumes weak fairness of each thread and of a booting child, and
that a compatible champion that is resolved again and again is again and again resolved live, up to
the pointer: calls and writes may fail any number of times but not for ever. Its specification,
`DrainingSupervisorSpec`, adds weak fairness of a child's exit once it was sent SIGTERM, which is
BentoML's behaviour and, as `DrainEscalates` below shows, needed. `event_log` assumes that the
ingest runs again and again over every file (`dag_medallion_batch` is hourly, with
`max_active_runs=1`): strong fairness of reading each file, since another file may be the one in
hand, and weak fairness of inserting and of recording an offset. A file can be read only once the
tables exist, and nothing is assumed to create them: `EveryLineIngested` says what follows if
somebody does, `operations_scored` what follows otherwise. `warehouse` and `operations` assume that
the scheduler starts the hourly run again (`schedule="@hourly"`), that a job that is not killed goes
on, and strong fairness of `Acquire`: the kernel does not pass over a waiter of a flock for ever.
Nobody needs to load bronze. `console` assumes that a script run goes on, that the user looks again
(any widget reruns the script), weak fairness of the scorer's own steps (Docker starts a stopped
container, the supervisor polls, a spawned server boots, what is served is confirmed), and strong
fairness of listing the registry. It does not assume that what is served becomes the champion: after
a restart that was not confirmed, a rollback is not noticed, and `PromotionAcknowledged` excepts
that case as `EventuallyServesChampion` does. `scorer`, `online`, `supervisor_safety`, `replay` and
`notebooks` assume no fairness. Nothing is assumed of workers, signals, crashes, promotions,
snapshots, backfills or key loss.

**What a run does not list.** The type invariants (`ReplayTypeOK`, `OnlineTypeOK`, `ConsoleTypeOK`,
`OperationsTypeOK` and those the proofs establish) hold on the same instances; add one to the cfg to
see it. A property that is a conjunction has one mutant in `PROJECT.json`; the modules keep a mutant
for its other parts (a comment above each says of which definition), and TLC finds the conjunction
violated by every one of them: for `RulesAreSound` `OracleValueAll`, `BudgetPointsStrict`,
`StrideUp`, `CapacityFloor`; for `FeaturesSettle` `PeersByHour`, `TrainRowsAll`, `EncodingRowsAll`;
for `ArtifactsMatch` `m_fileOfModel`, `TunedFeaturesSelected`, `IsExistingAny`, `MeasuredBeside`;
for `DecisionsBlind` `pol_maskTest`, `ChampionEvalSetOot`, `TestWidthTwice`, `FamilyAllRows`; for
`AlarmsAreTrue` `FlushRows`. `IngestReadAll` (`ConsumedIsStored`), `WritePointerInPlace`
(`ActiveRefIsVerified`), `StatementsUpsertAll` (`OnlyChosenOrRaced`), `AnswerRepeatsRow`
(`WrittenOnce`) and `ReadStateOnce` (`SerialFoldIsExact`) break a listed property in a second way.

### Where the code and its documentation disagree

`operations_scored` is a run of its own because it stops the pipeline: no file of `db/ddl/`
creates `ops.file_ingest_log`, which `pipelines/ingest/events_jsonl.py:52` queries as soon as a
transaction was scored, so every later hourly run fails in its first task and staging never
catches up with bronze again. `PROJECT.json` (`findings`) quotes the line that says otherwise.

More sentences of the repository are stated as properties with a configuration to run by hand (`tlc
-config <cfg> <module>`, where a cfg lists several properties one at a time or with `-continue`;
where no `_claims` cfg is named, put the property in place of those of the cfg named). TLC finds
each of them violated:

| configuration | property | sentence | what happens |
|---|---|---|---|
| `MCScorer_claims` | `NoLostUpdate` | the CAS makes same-account races safe | two overlapping requests, one event missing from the aggregates until Pathway repairs them |
| `MCScorer_claims` | `ScoreIsAnchors` | a late event does not overwrite the `last_*` anchor (`core/features.py:250-252`) | its score does (`scorer.py:126`) |
| `MCReplay_claims` | `ServedEqualsGold` | live and batch features are identical | `prev_fraud_score` is served but null in every row of gold |
| `MCReplay_claims` | `SameTimestamps` | replaying and ingesting a CSV give identical timestamps (`replay.py:17-19`) | not for the step that `--limit` cuts |
| `MCSupervisor_safety` | `LoadedIsVerified` | "fail at load, not at inference" (`contracts/model_registry.py:177`): an incompatible model is never loaded | the tags that are verified are those of the first read of the alias, the files those of the second |
| `MCSupervisor_claims` | `LabelIsLoaded` | a ref names the version actually loaded | not if a promotion falls between the two reads of the alias |
| `MCSupervisor_claims` | `FallbackIsUsable` | an outage falls back to the last cached artifact | a failed re-download has torn it |
| `MCSupervisor_claims` | `SkipOnlyWhenServed` | an unconfirmed promotion is not forgotten (`supervisor.py:22`) | a rollback after a late boot is never noticed |
| `MCSupervisor_claims` | `AuditMeansObserved` | an audit row means an observed switch | the boot row precedes the server |
| `MCSupervisor_claims` | `DrainEscalates` | SIGTERM escalates to SIGKILL | not for a forwarded signal |
| `MCWarehouse_claims` | `OverlapIsHarmless` | with the flock, callers queue instead of crashing (`db/engine.py:61-64`) | two loads both empty bronze, then queue; the second hits the primary key |
| `MCEventLog` | `SuccessMeansComplete` | a marked hour is complete | a thread that was late for the turn of the hour marks the hour that has just begun |
| `MCStateRepair` | `BackfillNeverOverwrites` | a backfill is never an overwriter (`airflow/dags/dag_feature_backfill.py:5-6`) | its listing lacks a tied row, its clock is equal, and the CAS accepts |
| `MCStateRepair` | `MirrorEqualsRedis` | the mirror mirrors Redis | on a tie Redis accepts, the mirror refuses |
| `MCOnlineState` | `RepairNeverOverwritesLive` | Pathway never overwrites what a live request just wrote | with an equal clock it does |
| `MCConsole` | `NeverHalfApplied` | a mixed edit never lands half-applied (`ui/labels.py`) | each statement commits by itself |
| `MCNotebooks_claims` | `ResolvedPairMatches` | the first appended section of notebook 04 uses the verified champion's calibrator | model and calibrator are found separately |
| `MCNotebooks_claims` | `CalibrationReserved` | the calibration steps are reserved for the calibrator | a model trained anew by the appended section sees them |
| `MCNotebooks_claims` | `FrameIsAsAsked` | `MAX_STEPS = None` uses the whole data set | a cached frame of a trial run is used |
| `MCNotebooks_claims` | `ProfileNamesItsData` | a profile names the data it is of | it logs the session's `MAX_STEPS` but profiles all rows |
| `MCNotebooks_claims` | `PolicyRowsHeldOut` | strict claims choose thresholds on held-out rows | some strict pairs search them on training rows |
| `MCNotebooks_claims` | `PlannedIsEvaluated` | all planned policies are evaluated | several never are |
| `MCNotebooks_claims` | `EncodingIsOfTrainRows` | target encoding is of training rows only | it covers test rows of the random and Q80 universes |
| `MCNotebooks_claims` | `SelectionIsBlind` | the decision tree's protocol is point-in-time and frozen | its random split and aggregates let test labels decide |
| `MCNotebooks_claims` | `CapacityIsKept` | ties are broken, so the capacity is kept | the cutoff alerts on all tied rows |

Seen while reading, outside the models: `dag_champion_watch` selects `created_at` from
`ops.model_deployments`, whose column `db/ddl/40_ops.sql:26` calls `resolved_at`, and reads
`settings.c3`; `dag_skew_audit` reads `created_at` and `settings.mlflow.model_name` too, and calls
`RedisStateStore` with arguments it does not take. The watch also resolves the champion, a second
writer of the champion cache. In the master comparison, F-beta policies, a capacity grid,
`KIEU_BIZ` and `P_COMMON_NBV` are planned but never executed; `KIEU_LGBM_V1` under
`U_KIEU_Q80_SOURCE` and `NAM_DT6` under `REPAIRED` are called strict although their thresholds are
searched on training rows; the `REPAIRED` universe trains on `train_random80` although its bundle
names `inner_tr`. The first cells of the `colab` books silently take another CSV beside
`PAYSIM_CSV`.

## 5. What is proved

Each module of proofs is for one module of the tree above and what that extends. None of
the assumptions is about the size of an instance; those on the constants are checked by
TLC in every run.

`Scorer_proofs` begins with the algebra of the fold, for all documents: `MergeCommutes` (for
partials that do not share their newest event key), `MergeAssociates`, and
`AdvanceIsMerge`, that folding an event live is merging its own one-event state, so the
live and the batch path build the same document. They need no assumption beyond
those of `AccountFold`.

It then proves, for any number of threads, accounts, transactions and
requests, assuming only that `Txns` are transactions and that the null values
differ from real ones:

* `ScorerTyping`: types, and `WellFormed`: documents in Redis and in flight belong to
  their account and are coherent. `StoredCoherence` follows. `WellFormed` is needed
  because a commit writes what the thread computed from its local `prev`, so
  coherence of Redis alone is not inductive.
* `ScorerNeverBackInTime`: from `CasStores` (the script stores a clock no smaller).
* `AnsweredDurability` from `DurableInv`: besides the answered transactions it
  speaks of those a live thread has finished and of the one it is appending.
* `SerialExactness` from `SerialInv`: while `serial[a]`, at most one thread folds `a`
  and its `prev` is the document in Redis, hence the CAS accepts its next commit
  (`StoredComparable`: a fold's clock never decreases) and Redis follows `ideal`.
* `ScorerInvariant` collects them: `ScorerSpec => []ScorerInv`, the formula
  an instance of which `scorer` explores.
* `NoOvercount`, `NeverOvercounts` for a finite set of transactions. `CountInv` adds that what a
  live thread has in its hands counts no more than was committed either: the thread commits
  one event beyond it, and `committed` grows by that event. The sum over an account's
  transactions is a fold of the community modules over a finite set. No induction theorem can
  be cited for it, so `SumsExist` takes a set of least cardinality on which it would fail.

Each proof has the same layout: `Init`, one step per action of `ThreadStep` and
`Expire`, then PTL.

`OnlineState_proofs` proves, for any rows, accounts, kills and backfills, assuming what Scorer and
StateRepair assume of their constants:

* `RepairInvariant`, of Pathway's two processes alone. `FoldsInv` says that an accumulator, of
  either process and also a snapshotted one, counts each row its process read once; `RedisQueueInv`
  and `MirrorQueueInv` say that what waits for a sink is an account's fold, and that the newest
  emission of an unchanged group is its accumulator. `RepairIsExact` and `MirrorMonotonic` follow,
  the latter from the clock guard of `ON CONFLICT ... DO UPDATE ... WHERE`. Of a write of the
  backfill nothing is known but that its document is coherent; the CAS lets it replace a
  repair only with a later clock, or with the same clock, which `backfilled` then records.
* `OnlineInvariant`, of the composition: the invariants of the two parts and `RepairIsEffective`.
  Neither part disturbs what the other relies on, because both write through the same CAS, which
  only accepts coherent documents with a clock no smaller (`OnlineThreadStep`,
  `OnlineRepairStep`). `OnlineTyping`, `OnlineCoherence` (with `AnsweredIsDurable`),
  `RepairEffective`, `MirrorStaged` and `OnlineNeverBackInTime` are its consequences.

`Replay_proofs` proves first `RowsFollowInTime` (row order is time order, without ties, as long as
a step has no more rows than an hour has microseconds) and `StepRoundTrip`, from floor division
alone; then, for any files in time order, batch size, limits, threads and runs:

* `ReplayInvariant` and `ReplayTyping`: whose results are whose, which batch the server has, and
  that a live run's output was committed and logged (`OutputDurable`).
* `RowsWrittenOnce`. While nothing has disturbed a run, the only active thread is the one
  that has, or had, the batch in hand (`AloneInv`); so a row's commits are counted by where its
  batch is relative to `pos` (`CommitInv`).
* `ReplayIsGold`, that online and batch features agree. `GoldInv` is the argument: batches begin at
  multiples of their size (`AlignedInv`); the rows of an account that were folded are its earliest
  ones and its document is gold's fold of them but for the score (`DocumentsInv`); the same is
  true of what the thread has in hand (`HandInv`), whose order by time is the order of the rows by
  `RowsFollowInTime`. That gold's recursive function and the thread's commits fold the same
  rows in the same order rests on the uniqueness of the sorted enumeration of a finite set,
  again by least counterexample.

`EventLog_proofs` proves, for any number of workers, threads, events and hours,
assuming only that `None` differs from every real value:

* `EventLogInvariant`: `EventLogInv` is an invariant. `LineInItsHour` and
  `ConsumedIsStored` are its point; `WritingInv` and `OffsetInv` make it
  inductive. A sink's step only lets a file grow or gives its last line a newline
  (`Grown`), and an offset is just past a newline (`OffsetInv`), so no line
  before an offset ever changes (`OffsetsKept`); while a file is read, what lies
  before the new offset is stored or in `todo`.
* `EventsByHour` and `IngestSkipsNothing` are the two parts by name.

`Operations_proofs` proves, for any files, any number of people, failures and kills,
assuming `WarehouseAssumption` and, in each theorem, `ManualJobs \subseteq {"bronze"}`: by
hand, people only load bronze while the DAG refreshes the rest.

* `WarehouseInvariant`: `WarehouseInv` is an invariant. `RunsInv` says who holds the lock
  and `RefreshInv` what the hourly run knows of its table at each point: empty from its
  `TRUNCATE` on, and gold plus what is in hand is silver. `OnlyIntoEmpty` is where the
  primary key does its work: files share a row number, so a file goes into an empty
  table or not at all.
* `NoMixedTables`, `StagingIsWhole` and `CountsSuffice` are its parts by name. They would
  fail for jobs of the CLI that refresh silver beside the DAG, which is why the
  assumption is there.

It then proves of all schedules together, assuming also `FilesAssumption` (rows are numbered in time
order; PaySim's frauds are transfers and cash-outs):

* `OperationsInvariant`: gold is always the rows of some accounts of one file (`GoldInv`); from its
  second job on, an hourly run beside which nothing loaded has silver equal to bronze
  (`CleanInv`); and what the daily checks counted of undisturbed tables is the same number
  (`DailyInv`).
* `AlarmsTrue` and `StatsWhole` are its consequences. That the check of first transactions never
  fails follows from `GoldInv` alone, since accounts are flushed whole.

`Supervisor_proofs` proves, for any versions and any number of promotions, children, crashes and
slow boots, assuming only what ModelRegistry and Supervisor assume of their constants:

* `PointerIsVerifiedRef`, of the model contract by itself. `RegistryInv` adds to
  `ActiveRefIsVerified` what a resolution knows at each step: from the check on, `ref` is compatible
  and has been champion, and from the start of the download its directory holds something, whole
  when the resolution gets to the cache or the pointer. It is about the ref: that the directory
  holds the artifact of the version it is named for, or a compatible one, is not so
  (`LabelIsLoaded`, `LoadedIsVerified`). The alias, the cache file and the pointer name former
  champions. The cache file is where an incompatible version could come back from, hence its check
  in `Fallback`.
* `RestartServesItsRef`, `ServersNeverOverlap`, `ExitLeavesNoServer`, `RestartIsNoCrash`. Every step
  of the supervisor is a step of the registry or leaves it alone (`StepsOfTheRegistry`), so
  `RegistryInv` carries over. `PollInv` is the heart of the rest: a restart has a finished
  resolution in hand, so the pointer cannot move while a child boots; when it spawns, nobody is
  alive; and outside a restart only a shutdown has told the current child to end, which is why
  main may take the exit of an untold child for a crash. `MainInv` says that a shutdown under way
  has set `stop` and waits for the child the holder names.
* `SupervisorImplementsRollout`: from that invariant, each step is a `Crown`, a `Serve`, a `Stop` or
  a stutter of Rollout. `OneServer` makes `ServedVersion` well defined; `Serve` starts from `Down`
  because the booting child is the only one alive.

`Console_proofs` proves, for any ids, clicks, other sessions and interruptions, assuming that the ids
of a file are finitely many and none of the form's:

* `ConsoleInvariant` and `FormIdsOnce`: an id of the form is in the event log at most once however
  often the page is submitted again after an error. The ids in the log were all drawn before the
  one the form has (`LogInv`).
* `LabelsAreChosen`: Save and import change a label only to what the user chose, or where another
  session wrote since the script read it. `ApplyInv` says it of every statement still to be
  executed, and that a later statement on the same id is again a choice.

`Notebooks_proofs` proves `FeaturesDoSettle`, for any accounts, amounts and number of rows, as an
action property of every step that reads a row: histories, mule chains and windows of earlier rows
stay; velocities change only for rows of the same day and account; what was fitted stays once the
training rows have ended; and a training row's own label has no part in its encoding.
`LedgerInvariant` is what it needs: steps never decrease along the file.

It proves, for any number of scored rows and any scale of scores and betas:
`LargerBetaAlertsMore` (a larger beta never raises the threshold), by comparing the best cut for
each beta with the other's, cross-multiplied; `ExpectedValueIsNetValue` (the expected value a row
is alerted on is the expectation of what the evaluation pays); and `FrontierCumulatesEvaluations`
(a point of the cumulative frontier is the evaluation of its rows). Finite sets of rows are
handled by taking a least counterexample (`WFMin`), which needs no induction theorem.

`ThresholdRulesAreSound` proves `RulesAreSound` for any number of rows and any scores and amounts; it
assumes a budget of less than every legitimate row (`Budget` at least 2, the notebooks' is 100):

* A cutoff that alerts on anything alerts on what the lowest score above it alerts on
  (`CutoffIsThreshold`), so a best threshold is a best cutoff (`BestThresholds`, `NetValueBest`).
* `Sum5` is one function of the sets of rows whatever the order in which it is summed up
  (`Sum5Agrees`, `SumWithout`); hence more rows are worth more if none is worth less than it costs
  (`MoreIsWorthMore`), which bounds every policy by the oracle (`OracleBest`) and lets a lower
  threshold within the FPR budget capture more (`FprAgree`).
* The k-th highest score is the value `n - k + 1` in ascending order, and numpy's percentile falls on
  it or strictly above the value before it (`Places`, `NeighboursAreNext`, `Interpolated`), so both
  capacity rules alert on the same rows (`CapacityAgree`).

`NotebooksShareAlgorithms` says that the books together do nothing to the ledger and the scored rows
that the two algorithms alone would not do, so all of this holds whichever books are run
(`NotebooksAreSafe`).

`DecisionsStayBlind` and `ArtifactsDoMatch` prove `DecisionsBlind` and `ArtifactsMatch` for any
number of restarts, in any directory and at any cell, and any models of the comparison. Neither is
inductive: a decision is blind because of what the names it reads hold, and those were bound by
another cell or read from a file another kernel left. Each book has an invariant of its own that
holds while it is open (`BookInv`, `BooksHold`); it speaks only of the names that lead to a decision
or to something published, the other cells are covered by lemmas that say they change none of them.

* `EnhInv`: from which cell on features, labels, scores and thresholds are bound, and which rows
  they are of. Features are of `train` and earlier rows (`FeaturesAreBlind`), so only what labels
  are mixed in matters.
* `OptInv`: in each directory a calibrator's file exists only beside a closed model, and the two,
  when whole, are of one training (`OptFiles`); the cells that train, save and calibrate keep the
  model in memory and the one in the file the same (`OptFitted`). A kernel that dies in between
  leaves a state the next one either completes or raises on. Hence the scores chosen by and the
  scores reported are of one model (`OptScored`).
* `TreeInv`: a results file names a registered version of the kernel that measured what it holds.
* `MasterInv`: a file or score of a partition is fitted to labels of that partition's rows only and
  encoded with labels of steps 1..480 only, whichever kernel fitted it (`Within`); models get their
  scores in turn, so that a blend finds what it blends; a calibrated score adds the calibration rows
  of one partition. `TestRowsApart` is the table of universes: no test row is in the partition
  trained on, calibrated on or searched for thresholds; `EncodingApart` is the table of the
  encoding: five of the eight universes are tested on later rows than it was fitted on. In the other
  three (`EncodesTestRows`) test labels do reach the decisions of the two families with a target
  encoding, so there `DecisionsBlind` speaks of fitted labels only, and `EncodingIsOfTrainRows` is
  violated. The decision tree has no such theorem: its selection is not blind (`SelectionIsBlind`).
* `RfInv` is shared by the six books because they hand each other files: no decision has seen a
  test row (`RfUnseen`, stronger than blind); a finished `tuning.json` holds the threshold of its own
  features and parameters (`RfFiles`); a version with all its tags has the model its threshold was
  chosen for, and no two of them have one threshold (`SoundRegistry`), for which the version being
  tagged must be the last and the guard must have found none (`RfTags`); a run's tag says whether
  its evaluation used test rows (`RfRun`).

They assume of `MasterModels` that it lists registered models, those that are blended among them
(`MasterAssumption`), as `MODEL_REGISTRY` does; without the latter the blend cell raises a
`KeyError`. TLC explored `BookInv` on the `notebooks` instance,
with three restarts, before it was proved.

**Only model-checked**: liveness, which is beyond the prover (section 4). Every invariant and action
property that a passing run checks is a theorem.

## 6. Not modelled, and why

* `02.BuildXGBoostBaseline.ipynb` has the protocol of notebook 03 on fewer features; it is saved on
  one line, where no definition could be located. `01.EDANotebook.ipynb` and
  `notebook/nam/eda_paysim.ipynb` plot data and decide nothing that another program reads.
* The licensed Postgres sink of Pathway (`sinks/postgres_sink.py:58-78`), a snapshot upsert without
  the clock, used only with a licence key.
* Two backfills at a time, and what Pathway retracts and reads again when an export swaps the staging
  directory: both observers ignore retractions, and what becomes of the accumulators is up to the engine.
* A second signal, workers of one server that boot at different moments, `dag_champion_watch` as a
  second resolver, the fsync timer and a crash of the machine.
* `compute_features`'s rounding, `amount_sqsum`, MLflow's own client, Streamlit beyond the two
  widgets named above; bootstrap intervals, statistical tests, rankings and reports of the master
  comparison, which only read what is modelled.
* UI rendering, settings, telemetry, request validation, DDL generation and the Kaggle download
  keep no protocol state.

What could come next: an abstract specification of the online state (a clock per account that never
goes back but may be lost) which OnlineState implements; the baseline notebook, once a version of
it is saved with its lines apart.
