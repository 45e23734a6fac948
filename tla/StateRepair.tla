---------------------------- MODULE StateRepair ------------------------------
(***************************************************************************)
(* Pathway's state repair: transactions of the staging directory are       *)
(* folded into one accumulator per account, in whatever order the engine   *)
(* delivers them, and each changed accumulator is written to two sinks:    *)
(* Redis, through the scorer's own CAS script, and the gold.account_state  *)
(* mirror, through a guarded upsert.  The two sinks progress               *)
(* independently.                                                          *)
(*                                                                         *)
(* Two processes do this.  The streaming run (run_streaming) watches the   *)
(* directory for ever and resumes from a snapshot when it is killed.  A    *)
(* backfill (run_backfill) is started by hand beside it: it reads the      *)
(* directory once, folds what it read into accumulators of its own, and    *)
(* writes them through observers of its own.                               *)
(***************************************************************************)
EXTENDS StateStore, Sequences, FiniteSets

CONSTANTS
  Rows,          \* the transactions the staging directory comes to hold
  MaxQueue,      \* bound: emissions a sink is behind, per account
  MaxRestarts,   \* bound: kills of the streaming process
  MaxBackfills   \* bound: backfills that are started

ASSUME RowsAssumption == Rows \subseteq Transaction
ASSUME RepairBoundsAssumption ==
  MaxQueue \in Nat /\ MaxRestarts \in Nat /\ MaxBackfills \in Nat

VARIABLES
  files,      \* rows of the staging directory
  mirror,     \* gold.account_state, by account
  staged,     \* rows the streaming engine has read
  acc,        \* acc[a]: AccountStateAccumulator.state of the group
  dirty,      \* dirty[a]: acc[a] changed since it was last emitted
  toRedis,    \* toRedis[a]: emissions the Redis observer has not handled
  toMirror,   \* toMirror[a]: emissions the Postgres observer has not handled
  saved,      \* the last persisted snapshot of <<staged, acc>>
  restarts,   \* kills so far, for the bound
  unread,     \* rows of a backfill's listing that it has still to read
  read,       \* rows the backfill has read
  fold,       \* fold[a]: the backfill's accumulator
  calls,      \* its observers' outstanding on_change calls
  backfills,  \* backfills so far, for the bound
  repaired,   \* history: repaired[a], Redis handled acc[a] and kept its key
  backfilled  \* history: backfilled[a], a backfill stored Redis's document

streamVars   == <<staged, acc, dirty, toRedis, toMirror, saved, restarts>>
backfillVars == <<unread, read, fold, calls, backfills>>
repairVars   == <<files, mirror, streamVars, backfillVars, repaired, backfilled>>

Sinks == {"redis", "mirror"}

RepairTypeOK ==
  /\ files \in SUBSET Rows
  /\ mirror \in [Accounts -> MaybeState]
  /\ staged \in SUBSET Rows
  /\ acc \in [Accounts -> MaybeState]
  /\ dirty \in [Accounts -> BOOLEAN]
  /\ toRedis \in [Accounts -> Seq(AccountState)]
  /\ toMirror \in [Accounts -> Seq(AccountState)]
  /\ saved \in [staged : SUBSET Rows, acc : [Accounts -> MaybeState]]
  /\ restarts \in Nat
  /\ unread \in SUBSET Rows
  /\ read \in SUBSET Rows
  /\ fold \in [Accounts -> MaybeState]
  /\ calls \in SUBSET (Sinks \X Accounts)
  /\ backfills \in Nat
  /\ repaired \in [Accounts -> BOOLEAN]
  /\ backfilled \in [Accounts -> BOOLEAN]

EmptyAcc == [a \in Accounts |-> NoState]

RepairInit ==
  /\ StoreInit
  /\ files = {}
  /\ mirror = [a \in Accounts |-> NoState]
  /\ staged = {}
  /\ acc = EmptyAcc
  /\ dirty = [a \in Accounts |-> FALSE]
  /\ toRedis = [a \in Accounts |-> <<>>]
  /\ toMirror = [a \in Accounts |-> <<>>]
  /\ saved = [staged |-> {}, acc |-> EmptyAcc]
  /\ restarts = 0
  /\ unread = {}
  /\ read = {}
  /\ fold = EmptyAcc
  /\ calls = {}
  /\ backfills = 0
  /\ repaired = [a \in Accounts |-> FALSE]
  /\ backfilled = [a \in Accounts |-> FALSE]

\* both sinks have handled every emission of every account
Drained == \A a \in Accounts :
  ~dirty[a] /\ toRedis[a] = <<>> /\ toMirror[a] = <<>>

\* from_row, then update(): the engine picks which accumulator absorbs which
Absorbed(accs, x) ==
  LET old == accs[x.account]
      row == Singleton(x, NoScore) IN
  IF old = NoState THEN {row} ELSE {Merge(old, row), Merge(row, old)}
------------------------------------------------------------------------------

\* export_staging: the directory comes to hold another transaction
Export(x) ==
  /\ x \in Rows \ files
  /\ files' = files \cup {x}
  /\ UNCHANGED <<redis, mirror, streamVars, backfillVars, repaired, backfilled>>

\* the streaming run reads a row
Ingest(x) ==
  /\ x \in files \ staged
  /\ staged' = staged \cup {x}
  /\ \E merged \in Absorbed(acc, x) : acc' = [acc EXCEPT ![x.account] = merged]
  /\ dirty' = [dirty EXCEPT ![x.account] = TRUE]
  /\ repaired' = [repaired EXCEPT ![x.account] = FALSE]
  /\ UNCHANGED <<redis, files, mirror, toRedis, toMirror, saved, restarts,
                 backfillVars, backfilled>>

\* the engine closes a batch: the group's new row goes to both sinks
Emit(a) ==
  /\ dirty[a]
  /\ Len(toRedis[a]) < MaxQueue /\ Len(toMirror[a]) < MaxQueue
  /\ toRedis' = [toRedis EXCEPT ![a] = Append(@, acc[a])]
  /\ toMirror' = [toMirror EXCEPT ![a] = Append(@, acc[a])]
  /\ dirty' = [dirty EXCEPT ![a] = FALSE]
  /\ UNCHANGED <<redis, files, mirror, staged, acc, saved, restarts,
                 backfillVars, repaired, backfilled>>

\* RedisStateObserver.on_change in the streaming run
ApplyRedis(a) ==
  /\ toRedis[a] # <<>>
  /\ CommitState(a, Head(toRedis[a]))
  /\ toRedis' = [toRedis EXCEPT ![a] = Tail(@)]
  /\ repaired' = [repaired EXCEPT
       ![a] = @ \/ (Len(toRedis[a]) = 1 /\ ~dirty[a])]
  /\ backfilled' = [backfilled EXCEPT ![a] = @ /\ redis'[a] # Head(toRedis[a])]
  /\ UNCHANGED <<files, mirror, staged, acc, dirty, toMirror, saved, restarts,
                 backfillVars>>

\* PsycopgUpsertObserver.on_change in the streaming run
ApplyMirror(a) ==
  /\ toMirror[a] # <<>>
  /\ mirror' = [mirror EXCEPT ![a] = MonotonicUpsert(@, Head(toMirror[a]))]
  /\ toMirror' = [toMirror EXCEPT ![a] = Tail(@)]
  /\ UNCHANGED <<redis, files, staged, acc, dirty, toRedis, saved, restarts,
                 backfillVars, repaired, backfilled>>

\* pw.persistence: a snapshot covers only what both sinks have handled
Snapshot ==
  /\ Drained
  /\ saved # [staged |-> staged, acc |-> acc]
  /\ saved' = [staged |-> staged, acc |-> acc]
  /\ UNCHANGED <<redis, files, mirror, staged, acc, dirty, toRedis, toMirror,
                 restarts, backfillVars, repaired, backfilled>>

\* mutant of Restart: the accumulators survive, the directory is read again
RestartRereads ==
  /\ restarts < MaxRestarts
  /\ restarts' = restarts + 1
  /\ staged' = {}
  /\ acc' = saved.acc
  /\ dirty' = [a \in Accounts |-> FALSE]
  /\ toRedis' = [a \in Accounts |-> <<>>]
  /\ toMirror' = [a \in Accounts |-> <<>>]
  /\ repaired' = [a \in Accounts |-> FALSE]
  /\ UNCHANGED <<redis, files, mirror, saved, backfillVars, backfilled>>

\* the streaming run is killed and started again on the persisted snapshot
Restart ==
  /\ restarts < MaxRestarts
  /\ restarts' = restarts + 1
  /\ staged' = saved.staged
  /\ acc' = saved.acc
  /\ dirty' = [a \in Accounts |-> FALSE]
  /\ toRedis' = [a \in Accounts |-> <<>>]
  /\ toMirror' = [a \in Accounts |-> <<>>]
  /\ repaired' = [a \in Accounts |-> FALSE]
  /\ UNCHANGED <<redis, files, mirror, saved, backfillVars, backfilled>>
------------------------------------------------------------------------------

\* `conquer3 pathway backfill' is started: mode="static" lists the directory
BackfillStart ==
  /\ unread = {} /\ read = {}
  /\ files # {}
  /\ backfills < MaxBackfills
  /\ backfills' = backfills + 1
  /\ unread' = files
  /\ UNCHANGED <<redis, files, mirror, streamVars, read, fold, calls, repaired,
                 backfilled>>

\* it folds a row; with the last one its only batch closes: one row per group
BackfillReads(x) ==
  /\ x \in unread
  /\ unread' = unread \ {x}
  /\ read' = read \cup {x}
  /\ \E merged \in Absorbed(fold, x) :
       fold' = [fold EXCEPT ![x.account] = merged]
  /\ calls' = IF unread # {x} THEN {}
              ELSE Sinks \X {a \in Accounts : fold'[a] # NoState}
  /\ UNCHANGED <<redis, files, mirror, streamVars, backfills, repaired,
                 backfilled>>

\* RedisStateObserver.on_change in the backfill
BackfillRedis(a) ==
  /\ <<"redis", a>> \in calls
  /\ CommitState(a, fold[a])
  /\ calls' = calls \ {<<"redis", a>>}
  /\ backfilled' = [backfilled EXCEPT ![a] = @ \/ redis'[a] = fold[a]]
  /\ UNCHANGED <<files, mirror, streamVars, unread, read, fold, backfills,
                 repaired>>

\* PsycopgUpsertObserver.on_change in the backfill
BackfillMirror(a) ==
  /\ <<"mirror", a>> \in calls
  /\ mirror' = [mirror EXCEPT ![a] = MonotonicUpsert(@, fold[a])]
  /\ calls' = calls \ {<<"mirror", a>>}
  /\ UNCHANGED <<redis, files, streamVars, unread, read, fold, backfills,
                 repaired, backfilled>>

\* pw.run() returns, or the process dies with calls outstanding
BackfillEnds ==
  /\ unread \cup read # {}
  /\ unread' = {} /\ read' = {} /\ fold' = EmptyAcc /\ calls' = {}
  /\ UNCHANGED <<redis, files, mirror, streamVars, backfills, repaired,
                 backfilled>>

\* Redis loses the account's key
RepairExpire(a) ==
  /\ LoseKey(a)
  /\ repaired' = [repaired EXCEPT ![a] = FALSE]
  /\ backfilled' = [backfilled EXCEPT ![a] = FALSE]
  /\ UNCHANGED <<files, mirror, streamVars, backfillVars>>

StreamStep ==
  \/ \E x \in Rows : Ingest(x)
  \/ \E a \in Accounts : Emit(a) \/ ApplyRedis(a) \/ ApplyMirror(a)
  \/ Snapshot
  \/ Restart

BackfillStep ==
  \/ BackfillStart
  \/ \E x \in Rows : BackfillReads(x)
  \/ \E a \in Accounts : BackfillRedis(a) \/ BackfillMirror(a)
  \/ BackfillEnds

RepairStep ==
  \/ \E x \in Rows : Export(x)
  \/ StreamStep
  \/ BackfillStep

RepairNext == RepairStep \/ \E a \in Accounts : RepairExpire(a)

repairStoreVars == <<redis, repairVars>>

RepairSpec == RepairInit /\ [][RepairNext]_repairStoreVars

(***************************************************************************)
(* Fairness: a running Pathway process keeps reading its directory and     *)
(* calling its observers.  Exports, kills, backfills, snapshots and lost   *)
(* keys need not happen.                                                   *)
(***************************************************************************)
RepairFairness ==
  /\ \A x \in Rows : WF_repairStoreVars(Ingest(x))
  /\ \A a \in Accounts : /\ WF_repairStoreVars(Emit(a))
                         /\ WF_repairStoreVars(ApplyRedis(a))
                         /\ WF_repairStoreVars(ApplyMirror(a))

FairRepairSpec == RepairSpec /\ RepairFairness
------------------------------------------------------------------------------

\* accumulators that count each of the rows they absorbed exactly once
CountedOnce(rows, accs) == \A a \in Accounts :
  Cardinality({x \in rows : x.account = a})
    = IF accs[a] = NoState THEN 0 ELSE accs[a].count

(***************************************************************************)
(* Killing and restarting never double-counts: the accumulators of either  *)
(* process count each row it has read exactly once                         *)
(* (test_pathway_streaming.py, "must not double-count").  And Redis is     *)
(* repaired: once the streaming run's observer has handled an account's    *)
(* newest emission and the key survives, the stored document is that fold  *)
(* of the rows it read, or one with a later clock (after a restart a       *)
(* partial re-read may for a while be older than what Redis already        *)
(* holds), or, with the very same clock, one a backfill stored: its CAS    *)
(* does not refuse a listing that lacks rows tied with the newest.         *)
(***************************************************************************)
RepairedIsFold ==
  /\ CountedOnce(staged, acc)
  /\ CountedOnce(read, fold)
  /\ \A a \in Accounts : repaired[a] =>
       /\ acc[a] # NoState /\ redis[a] # NoState
       /\ \/ redis[a] = acc[a]
          \/ redis[a].updated > acc[a].updated
          \/ redis[a].updated = acc[a].updated /\ backfilled[a]

(***************************************************************************)
(* The mirror never goes back in time, whichever process writes it.        *)
(***************************************************************************)
MirrorNeverBackInTime ==
  [][\A a \in Accounts : mirror[a] # NoState =>
       mirror'[a] # NoState /\ mirror'[a].updated >= mirror[a].updated]_mirror

(***************************************************************************)
(* Every exported row is reflected: in the end, and despite kills, the     *)
(* mirror's clock is at or past the timestamp of every row the directory   *)
(* holds.                                                                  *)
(***************************************************************************)
EveryRowReachesMirror ==
  <>[](\A x \in files : /\ mirror[x.account] # NoState
                        /\ mirror[x.account].updated >= x.ts)

(***************************************************************************)
(* Claimed by dag_feature_backfill.py ("Backfill is never an overwriter:   *)
(* ... refusing writes when Redis holds fresher state"): a backfill does   *)
(* not replace a completed repair of the streaming run.                    *)
(***************************************************************************)
BackfillNeverOverwrites ==
  [][\A a \in Accounts :
       repaired[a] /\ BackfillRedis(a) => redis'[a] = redis[a]]_repairStoreVars

(***************************************************************************)
(* Claimed by 35_gold_state.sql ("Postgres mirror of Redis's per-account   *)
(* AccountState") and postgres_sink.py ("the fallback's equivalent of the  *)
(* Redis Lua script"): with the streaming run as the only writer, no kill  *)
(* and no key lost, the mirror holds what Redis holds whenever both sinks  *)
(* are idle.                                                               *)
(***************************************************************************)
MirrorEqualsRedis ==
  /\ Drained /\ restarts = 0 /\ backfills = 0
  /\ \A a \in Accounts : acc[a] # NoState => repaired[a]
  => mirror = redis
==============================================================================
