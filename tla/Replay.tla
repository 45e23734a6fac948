------------------------------- MODULE Replay --------------------------------
(***************************************************************************)
(* The replay producer over a live scorer, and what the batch path makes   *)
(* of the same file.  `conquer3 replay' posts a CSV to /predict in file    *)
(* order, one batch at a time, and writes the results of each answer; Redis*)
(* carries the accounts from batch to batch.  It gives up on the first     *)
(* error or timeout, while the request it gave up on may go on; people     *)
(* start it again.  No other client sends anything.                        *)
(***************************************************************************)
EXTENDS Scorer, TimeRef, SequencesExt

CONSTANTS
  Files,        \* raw CSVs: sequences of [account, step, amount]
  BatchSize,    \* batch_size
  Limits,       \* what --limit may be: the first n rows, or all
  MaxRuns       \* bound: times the command is started

\* to_transactions_frame of the first n rows; bronze_to_silver of all of them
EventOf(file, n, i) ==
  LET peers == {j \in 1..n : file[j].step = file[i].step} IN
  [id |-> i, account |-> file[i].account, amount |-> file[i].amount,
   ts |-> DeriveEventTs(file[i].step, Cardinality({j \in peers : j <= i}),
                        Cardinality(peers))]

ASSUME FilesAssumption == \A f \in Files :
  /\ f \in Seq([account : Accounts, step : Nat \ {0}, amount : Nat])
  /\ \A i, j \in DOMAIN f : i <= j => f[i].step <= f[j].step
  /\ \A n \in DOMAIN f : \A i \in 1..n : EventOf(f, n, i) \in Txns
ASSUME ThreadsAssumption == None \notin Threads
ASSUME BatchAssumption ==
  BatchSize \in Nat \ {0} /\ Limits \subseteq Nat \ {0} /\ MaxRuns \in Nat

VARIABLES
  csv, limit, dryRun,   \* the arguments of the run
  client,               \* what replay() is doing
  server,               \* the thread that has the batch it waits for
  pos,                  \* rows whose results have been received
  results,              \* results[t]: the features t has scored so far
  output,               \* the rows of the output CSV
  runs,                 \* runs started, for the bound
  clean                 \* history: the run began without keys or requests,
                        \* and no key was lost since

runVars == <<csv, limit, dryRun, runs>>
replayVars == <<csv, limit, dryRun, client, server, pos, results, output, runs,
                clean>>
allVars == <<redis, scorerVars, replayVars>>

(***************************************************************************)
(* A score is a function of the features it is computed from, so a result  *)
(* stands for them.  A feature that relates x to the account's past is a   *)
(* function of x and of one of the differences and priors kept here; those *)
(* of x alone are in txn.  prev_fraud_score is lastScore.                  *)
(***************************************************************************)
ComputeFeatures(x, before) ==
  IF before = NoState
  THEN [txn |-> x, first |-> TRUE]
  ELSE [txn |-> x, first |-> FALSE,
        sinceLast |-> x.ts - before.anchor.ts,
        amountDelta |-> x.amount - before.anchor.amount,
        count |-> before.count, sum |-> before.sum, max |-> before.max,
        age |-> x.ts - before.first,
        lastScore |-> before.score]

ReplayInit ==
  /\ ScorerInit
  /\ csv \in Files
  /\ limit = 0
  /\ dryRun = FALSE
  /\ client = "ended"
  /\ server = None
  /\ pos = 0
  /\ results = [t \in Threads |-> {}]
  /\ output = {}
  /\ runs = 0
  /\ clean = TRUE

ReplayTypeOK ==
  /\ StoreTypeOK /\ ScorerTypeOK
  /\ csv \in Files /\ limit \in 0..Len(csv) /\ dryRun \in BOOLEAN
  /\ client \in {"posting", "waiting", "ended", "failed"}
  /\ server \in Threads \cup {None}
  /\ (server # None) = (client = "waiting")
  /\ pos \in 0..limit
  /\ runs \in 0..MaxRuns /\ clean \in BOOLEAN
  /\ {f.txn : f \in output} = {EventOf(csv, limit, i) : i \in 1..pos}
------------------------------------------------------------------------------

\* run_replay: arguments, and an output CSV opened anew
StartRun ==
  /\ client \in {"ended", "failed"}
  /\ runs < MaxRuns /\ runs' = runs + 1
  /\ csv' \in Files
  /\ limit' \in {n \in Limits : n <= Len(csv')}
  /\ dryRun' \in BOOLEAN
  /\ client' = "posting"
  /\ pos' = 0
  /\ output' = {}
  /\ clean' = /\ \A a \in Accounts : redis[a] = NoState
              /\ \A t \in Threads : pc[t] = "idle"
  /\ UNCHANGED <<redis, scorerVars, server, results>>

\* the rows of the batch that begins after `pos'
BatchRows == pos + 1 .. Lesser(pos + BatchSize, limit)

\* client.post reaches a thread of a worker
Post(t) ==
  /\ client = "posting" /\ pos < limit
  /\ pc[t] = "idle"
  /\ request' = [request EXCEPT ![t] =
       {EventOf(csv, limit, i) : i \in BatchRows}]
  /\ dry' = [dry EXCEPT ![t] = dryRun]
  /\ pc' = [pc EXCEPT ![t] = "group"]
  /\ received' = received + 1
  /\ client' = "waiting" /\ server' = t
  /\ UNCHANGED <<redis, responses, account, prev, current, logged, committed,
                 answered, ideal, serial, runVars, pos, results, output, clean>>

ReadAccount(t, a) == ReadState(t, a) /\ UNCHANGED replayVars

\* compute() and the score, for the response
Score(t, x) ==
  /\ ScoreDry(t, x) \/ ScoreLive(t, x)
  /\ results' = [results EXCEPT ![t] = @ \cup {ComputeFeatures(x, prev[t])}]
  /\ UNCHANGED <<runVars, client, server, pos, output, clean>>

LogEvent(t) == AppendEvent(t) /\ UNCHANGED replayVars

\* mutant of Answer: the next batch begins with the last row of this one
AnswerRepeatsRow(t) ==
  /\ Respond(t)
  /\ results' = [results EXCEPT ![t] = {}]
  /\ IF server = t
     THEN /\ output' = output \cup results[t]
          /\ pos' = IF pos + BatchSize < limit THEN pos + BatchSize - 1 ELSE limit
          /\ client' = "posting" /\ server' = None
     ELSE UNCHANGED <<output, pos, client, server>>
  /\ UNCHANGED <<runVars, clean>>

\* 200: the batch is written out, unless nobody waits for it any more
Answer(t) ==
  /\ Respond(t)
  /\ results' = [results EXCEPT ![t] = {}]
  /\ IF server = t
     THEN /\ output' = output \cup results[t]
          /\ pos' = Lesser(pos + BatchSize, limit)
          /\ client' = "posting" /\ server' = None
     ELSE UNCHANGED <<output, pos, client, server>>
  /\ UNCHANGED <<runVars, clean>>

\* mutant of ServerFails: the status is not looked at
StatusIgnored(t) ==
  /\ AppendFails(t) \/ Abort(t)
  /\ results' = [results EXCEPT ![t] = {}]
  /\ IF server = t
     THEN /\ output' = output \cup results[t]
          /\ pos' = Lesser(pos + BatchSize, limit)
          /\ client' = "posting" /\ server' = None
     ELSE UNCHANGED <<output, pos, client, server>>
  /\ UNCHANGED <<runVars, clean>>

\* 500: replay() raises RuntimeError
ServerFails(t) ==
  /\ AppendFails(t) \/ Abort(t)
  /\ results' = [results EXCEPT ![t] = {}]
  /\ IF server = t THEN client' = "failed" /\ server' = None
     ELSE UNCHANGED <<client, server>>
  /\ UNCHANGED <<runVars, pos, output, clean>>

\* no connection, no answer within timeout_s, or an error from the gateway:
\* the request itself, if there is one, goes on
GiveUp ==
  /\ client \in {"posting", "waiting"}
  /\ client' = "failed" /\ server' = None
  /\ UNCHANGED <<redis, scorerVars, runVars, pos, results, output, clean>>

EndRun ==
  /\ client = "posting" /\ pos = limit
  /\ client' = "ended"
  /\ UNCHANGED <<redis, scorerVars, runVars, server, pos, results, output, clean>>

ForgetAccount(a) ==
  /\ Expire(a)
  /\ clean' = FALSE
  /\ UNCHANGED <<runVars, client, server, pos, results, output>>

ClientStep == GiveUp \/ EndRun \/ \E t \in Threads : Post(t)

ReplayNext ==
  \/ StartRun
  \/ ClientStep
  \/ \E t \in Threads :
       \/ LogEvent(t) \/ Answer(t) \/ ServerFails(t)
       \/ \E a \in Accounts : ReadAccount(t, a)
       \/ \E x \in Txns : Score(t, x)
  \/ \E a \in Accounts : ForgetAccount(a)

ReplaySpec == ReplayInit /\ [][ReplayNext]_allVars
------------------------------------------------------------------------------

\* ORDER BY event_ts, event_id
InTimeOrder(rows) ==
  CHOOSE s \in [1..Cardinality(rows) -> rows] :
    \A j, k \in DOMAIN s : j < k => ~NotBefore(s[j], s[k])

\* _READ_SQL and compute_sequence of silver_to_gold: the account's rows in
\* order of time, without scores, up to row i
GoldPrior(file, i) ==
  LET silver == {EventOf(file, Len(file), j) : j \in DOMAIN file}
      x == EventOf(file, Len(file), i)
      earlier == {y \in silver : y.account = x.account /\ ~NotBefore(y, x)}
  IN FoldLeft(LAMBDA s, y : Advance(y, s, NoScore), NoState, InTimeOrder(earlier))

GoldFeatures(i) == ComputeFeatures(EventOf(csv, Len(csv), i), GoldPrior(csv, i))

\* all but prev_fraud_score, which gold never has
Unscored(f) == IF f.first THEN f ELSE [f EXCEPT !.lastScore = NoScore]

\* --limit did not cut the step of row i
StepComplete(i) == \A j \in DOMAIN csv : csv[j].step = csv[i].step => j <= limit

\* the account's earlier rows are in the batch of row i
SameBatch(i) == \A j \in 1..i :
  csv[j].account = csv[i].account
    => (j - 1) \div BatchSize = (i - 1) \div BatchSize

(***************************************************************************)
(* Online and batch features agree: a live replay onto an empty store, and *)
(* a dry run as far as its batches reach, get for every row the features   *)
(* gold has for it, whatever the batches cut, whichever order an account's *)
(* group is taken in and whatever the answers wait for (replay.py:26-34).  *)
(***************************************************************************)
ReplayMatchesGold == clean => \A f \in output :
  StepComplete(f.txn.id) /\ (dryRun => SameBatch(f.txn.id))
    => Unscored(f) = GoldFeatures(f.txn.id)

(***************************************************************************)
(* A row of the output of a live run was committed and is in the event log,*)
(* although requests fail half way, runs are given up and begun again; and *)
(* a run on an empty store scores no row twice: one commit for each row up *)
(* to the batch in hand, none beyond it.                                   *)
(***************************************************************************)
WrittenOnce == ~dryRun =>
  /\ \A f \in output : committed[f.txn] >= 1 /\ logged[f.txn] >= 1
  /\ clean /\ runs = 1 => \A i \in 1..limit :
       LET n == committed[EventOf(csv, limit, i)] IN
       /\ n <= 1
       /\ i <= pos => n = 1
       /\ i > pos + BatchSize => n = 0

(***************************************************************************)
(* Claimed by features.py and replay.py: the live path and the batch path  *)
(* compute identical features.  Read as: a complete, undisturbed live      *)
(* replay gets exactly the features of gold, prev_fraud_score included.    *)
(***************************************************************************)
ServedEqualsGold ==
  clean /\ ~dryRun /\ limit = Len(csv)
    => \A f \in output : f = GoldFeatures(f.txn.id)

(***************************************************************************)
(* Claimed by replay.py: replaying a CSV and ingesting it produce identical*)
(* ids and timestamps.                                                     *)
(***************************************************************************)
SameTimestamps ==
  \A f \in output : f.txn = EventOf(csv, Len(csv), f.txn.id)
==============================================================================
