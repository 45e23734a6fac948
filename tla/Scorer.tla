------------------------------- MODULE Scorer --------------------------------
(***************************************************************************)
(* FraudScorer.score: the request threads of one or more scorer workers.   *)
(* A request is a set of transactions; its thread takes one account at a   *)
(* time, reads the account's state ONCE, and folds the account's           *)
(* transactions in order_key order, committing the state of each to Redis  *)
(* and then appending a scored event to the JSONL log.  Nothing locks the  *)
(* account: another thread may commit between the read and any commit.     *)
(* A client may send any transaction again, so a failed request is retried.*)
(***************************************************************************)
EXTENDS StateStore, FiniteSetsExt

CONSTANTS
  Txns,         \* the transactions clients may send
  Threads,      \* request threads, of every worker
  None,         \* an unset local
  MaxBatch,     \* bound: transactions in one request
  MaxRequests   \* bound: requests received in a behaviour

ASSUME TxnsAssumption == Txns \subseteq Transaction
ASSUME NoneAssumption == None \notin Accounts \cup Txns
ASSUME BoundsAssumption == MaxBatch \in Nat /\ MaxRequests \in Nat

VARIABLES
  pc,          \* where the thread is in score()
  request,     \* txns, the request being scored
  dry,         \* dry_run
  responses,   \* the transactions whose ScoreResult is ready
  account,     \* account_id, the group being folded
  prev,        \* prev, the state the next transaction is scored against
  current,     \* txn, committed and about to be appended
  logged,      \* logged[x]: lines of x in the scored-event files
  received,    \* requests received, for the bound
  committed,   \* history: committed[x], commits made for x
  answered,    \* history: transactions answered by a live request
  ideal,       \* history: ideal[a], the fold of a's commits one after another
  serial       \* history: serial[a], no two live folds of a have overlapped

threadVars == <<pc, request, dry, responses, account, prev, current>>
historyVars == <<received, committed, answered, ideal, serial>>
scorerVars == <<pc, request, dry, responses, account, prev, current, logged,
                received, committed, answered, ideal, serial>>

ScorerTypeOK ==
  /\ pc \in [Threads -> {"idle", "group", "fold", "append"}]
  /\ request \in [Threads -> SUBSET Txns]
  /\ dry \in [Threads -> BOOLEAN]
  /\ responses \in [Threads -> SUBSET Txns]
  /\ account \in [Threads -> Accounts \cup {None}]
  /\ prev \in [Threads -> MaybeState]
  /\ current \in [Threads -> Txns \cup {None}]
  /\ logged \in [Txns -> Nat]
  /\ received \in Nat
  /\ committed \in [Txns -> Nat]
  /\ answered \in SUBSET Txns
  /\ ideal \in [Accounts -> MaybeState]
  /\ serial \in [Accounts -> BOOLEAN]

ScorerInit ==
  /\ StoreInit
  /\ pc = [t \in Threads |-> "idle"]
  /\ request = [t \in Threads |-> {}]
  /\ dry = [t \in Threads |-> FALSE]
  /\ responses = [t \in Threads |-> {}]
  /\ account = [t \in Threads |-> None]
  /\ prev = [t \in Threads |-> NoState]
  /\ current = [t \in Threads |-> None]
  /\ logged = [x \in Txns |-> 0]
  /\ received = 0
  /\ committed = [x \in Txns |-> 0]
  /\ answered = {}
  /\ ideal = [a \in Accounts |-> NoState]
  /\ serial = [a \in Accounts |-> TRUE]

Pending(t) == request[t] \ responses[t]

\* the transactions of the current group still to be scored
Mine(t) == {x \in Pending(t) : x.account = account[t]}

\* t is between its read of a and its last commit to a
Folding(t, a) ==
  /\ pc[t] \in {"fold", "append"}
  /\ account[t] = a
  /\ ~dry[t]

\* the state after x: compute(), then the score re-attached
Scored(x, before) == WithScore(Advance(x, before, NoScore), x.id)

\* the loop after x's response is ready: same group, or the next one
AfterResponse(t, x) ==
  /\ responses' = [responses EXCEPT ![t] = @ \cup {x}]
  /\ pc' = [pc EXCEPT ![t] = IF Mine(t) \ {x} = {} THEN "group" ELSE "fold"]

\* the request is over: its locals are gone
Finish(t) ==
  /\ pc' = [pc EXCEPT ![t] = "idle"]
  /\ request' = [request EXCEPT ![t] = {}]
  /\ responses' = [responses EXCEPT ![t] = {}]
  /\ prev' = [prev EXCEPT ![t] = NoState]
  /\ dry' = [dry EXCEPT ![t] = FALSE]
  /\ account' = [account EXCEPT ![t] = None]
  /\ current' = [current EXCEPT ![t] = None]
------------------------------------------------------------------------------

Receive(t) ==
  /\ pc[t] = "idle"
  /\ received < MaxRequests
  /\ received' = received + 1
  /\ \E batch \in SUBSET Txns, d \in BOOLEAN :
       /\ Cardinality(batch) \in 1..MaxBatch
       /\ request' = [request EXCEPT ![t] = batch]
       /\ dry' = [dry EXCEPT ![t] = d]
  /\ pc' = [pc EXCEPT ![t] = "group"]
  /\ UNCHANGED <<redis, responses, account, prev, current, logged,
                 committed, answered, ideal, serial>>

\* mutant of ReadState: prev is read once per request, not per account
ReadStateOnce(t, a) ==
  /\ pc[t] = "group"
  /\ \E x \in Pending(t) : x.account = a
  /\ account' = [account EXCEPT ![t] = a]
  /\ prev' = [prev EXCEPT ![t] = IF responses[t] = {} THEN redis[a] ELSE @]
  /\ pc' = [pc EXCEPT ![t] = "fold"]
  /\ serial' = [serial EXCEPT
       ![a] = @ /\ (dry[t] \/ \A u \in Threads : ~Folding(u, a))]
  /\ UNCHANGED <<redis, request, dry, responses, current, logged, received,
                 committed, answered, ideal>>

\* prev = self._state.get(account_id), once per account of the request
ReadState(t, a) ==
  /\ pc[t] = "group"
  /\ \E x \in Pending(t) : x.account = a
  /\ account' = [account EXCEPT ![t] = a]
  /\ prev' = [prev EXCEPT ![t] = redis[a]]
  /\ pc' = [pc EXCEPT ![t] = "fold"]
  /\ serial' = [serial EXCEPT
       ![a] = @ /\ (dry[t] \/ \A u \in Threads : ~Folding(u, a))]
  /\ UNCHANGED <<redis, request, dry, responses, current, logged, received,
                 committed, answered, ideal>>

\* mutant of Earliest: the group is not sorted
AnyOrder(t, x) == x \in Mine(t)

\* idxs.sort(key = (event_ts_us, event_id)): x is next in its group
Earliest(t, x) == x \in Mine(t) /\ \A y \in Mine(t) : NotBefore(y, x)

\* mutant of ScoreDry: a dry run commits its state as a live one does
ScoreDryCommits(t, x) ==
  /\ pc[t] = "fold" /\ dry[t]
  /\ Earliest(t, x)
  /\ CommitState(x.account, Scored(x, prev[t]))
  /\ prev' = [prev EXCEPT ![t] = Scored(x, @)]
  /\ AfterResponse(t, x)
  /\ UNCHANGED <<request, dry, account, current, logged, historyVars>>

ScoreDry(t, x) ==
  /\ pc[t] = "fold" /\ dry[t]
  /\ Earliest(t, x)
  /\ prev' = [prev EXCEPT ![t] = Scored(x, @)]
  /\ AfterResponse(t, x)
  /\ UNCHANGED <<redis, request, dry, account, current, logged, historyVars>>

\* self._state.commit(new_state): the scorer does not look at the verdict
ScoreLive(t, x) ==
  LET new == Scored(x, prev[t]) IN
  /\ pc[t] = "fold" /\ ~dry[t]
  /\ Earliest(t, x)
  /\ CommitState(x.account, new)
  /\ prev' = [prev EXCEPT ![t] = new]
  /\ current' = [current EXCEPT ![t] = x]
  /\ pc' = [pc EXCEPT ![t] = "append"]
  /\ committed' = [committed EXCEPT ![x] = @ + 1]
  /\ ideal' = [ideal EXCEPT ![x.account] = Scored(x, @)]
  /\ UNCHANGED <<request, dry, responses, account, logged, received,
                 answered, serial>>

\* self._sink.append: the line is on disk and the response is ready
AppendEvent(t) ==
  LET x == current[t] IN
  /\ pc[t] = "append"
  /\ logged' = [logged EXCEPT ![x] = @ + 1]
  /\ AfterResponse(t, x)
  /\ current' = [current EXCEPT ![t] = None]
  /\ UNCHANGED <<redis, request, dry, account, prev, historyVars>>

\* mutant of AppendFails: the error is swallowed
AppendErrorSwallowed(t) ==
  /\ pc[t] = "append"
  /\ \E lines \in {0, 1} :
       logged' = [logged EXCEPT ![current[t]] = @ + lines]
  /\ AfterResponse(t, current[t])
  /\ current' = [current EXCEPT ![t] = None]
  /\ UNCHANGED <<redis, request, dry, account, prev, historyVars>>

\* append raises (disk full, fsync failed): the line may be on disk, the
\* commits made so far stay, and the client gets an error for the request
AppendFails(t) ==
  /\ pc[t] = "append"
  /\ \E lines \in {0, 1} :
       logged' = [logged EXCEPT ![current[t]] = @ + lines]
  /\ Finish(t)
  /\ UNCHANGED <<redis, historyVars>>

\* Redis or the model raises, or the worker dies, between two effects
Abort(t) ==
  /\ pc[t] \in {"group", "fold"}
  /\ Finish(t)
  /\ UNCHANGED <<redis, logged, historyVars>>

Respond(t) ==
  /\ pc[t] = "group"
  /\ Pending(t) = {}
  /\ answered' = IF dry[t] THEN answered ELSE answered \cup responses[t]
  /\ Finish(t)
  /\ UNCHANGED <<redis, logged, received, committed, ideal, serial>>

\* the key is lost: what was folded before is forgotten with it
Expire(a) ==
  /\ LoseKey(a)
  /\ ideal' = [ideal EXCEPT ![a] = NoState]
  /\ serial' = [serial EXCEPT ![a] = \A u \in Threads : ~Folding(u, a)]
  /\ UNCHANGED <<threadVars, logged, received, committed, answered>>

ThreadStep(t) ==
  \/ Receive(t)
  \/ \E a \in Accounts : ReadState(t, a)
  \/ \E x \in Txns : ScoreDry(t, x)
  \/ \E x \in Txns : ScoreLive(t, x)
  \/ AppendEvent(t)
  \/ AppendFails(t)
  \/ Abort(t)
  \/ Respond(t)

ScorerNext ==
  \/ \E t \in Threads : ThreadStep(t)
  \/ \E a \in Accounts : Expire(a)

ScorerSpec == ScorerInit /\ [][ScorerNext]_<<redis, scorerVars>>
------------------------------------------------------------------------------

(***************************************************************************)
(* Every document in Redis is internally consistent, whichever requests    *)
(* raced for it (test_concurrent_same_account_requests_never_corrupt_state).*)
(***************************************************************************)
StoredCoherent == \A a \in Accounts : CoherentOrNone(redis[a])

(***************************************************************************)
(* Requests for an account that do not overlap lose nothing: the stored    *)
(* document is the fold of every commit, late events and failed requests   *)
(* included.  It needs the CAS to accept an unchanged updated_at_us.       *)
(***************************************************************************)
SerialFoldIsExact == \A a \in Accounts : serial[a] => redis[a] = ideal[a]

(***************************************************************************)
(* A transaction answered by a live request was folded into Redis and has  *)
(* a line in the event log: no partial request is reported as scored.      *)
(***************************************************************************)
AnsweredIsDurable ==
  \A x \in answered : committed[x] >= 1 /\ logged[x] >= 1

(***************************************************************************)
(* The strengthenings that make StoredCoherent, AnsweredIsDurable and      *)
(* SerialFoldIsExact inductive.                                            *)
(* Documents and states in flight belong to their account and are          *)
(* coherent; what a live thread has answered so far is durable; while an   *)
(* account is serial one thread at most folds it, and holds its document.  *)
(***************************************************************************)
DocumentOf(a, s) == s # NoState => s.account = a /\ Coherent(s)

WellFormed ==
  /\ \A a \in Accounts : DocumentOf(a, redis[a]) /\ DocumentOf(a, ideal[a])
  /\ \A t \in Threads : pc[t] \in {"fold", "append"} =>
       account[t] \in Accounts /\ DocumentOf(account[t], prev[t])
  /\ \A t \in Threads : pc[t] = "append" =>
       /\ current[t] \in Txns /\ current[t].account = account[t]
       /\ ~dry[t]

DurableInv ==
  /\ AnsweredIsDurable
  /\ \A t \in Threads : \A x \in responses[t] :
       ~dry[t] => committed[x] >= 1 /\ logged[x] >= 1
  /\ \A t \in Threads : pc[t] = "append" => committed[current[t]] >= 1
  /\ \A t \in Threads : pc[t] = "idle" => responses[t] = {}

SerialInv ==
  /\ SerialFoldIsExact
  /\ \A a \in Accounts, t, u \in Threads :
       serial[a] /\ Folding(t, a) /\ Folding(u, a) => t = u
  /\ \A a \in Accounts, t \in Threads :
       serial[a] /\ Folding(t, a) => prev[t] = redis[a]

ScorerInv == StoreTypeOK /\ ScorerTypeOK /\ WellFormed /\ DurableInv /\ SerialInv

(***************************************************************************)
(* Racing requests can lose an event of an account but never count one     *)
(* twice: txn_count never exceeds the commits made for the account.        *)
(***************************************************************************)
NeverOvercounts == \A a \in Accounts :
  redis[a] # NoState =>
    redis[a].count <= MapThenSumSet(LAMBDA x : committed[x],
                                    {x \in Txns : x.account = a})

(***************************************************************************)
(* Claimed by scorer.py and state_store.py: the monotonic CAS makes        *)
(* same-account races safe.  Read as: while each of an account's           *)
(* transactions was committed once since the key came to be, the stored    *)
(* aggregates cover all of them.                                           *)
(***************************************************************************)
NoLostUpdate == \A a \in Accounts :
  LET sent == {x \in Txns : x.account = a /\ committed[x] >= 1} IN
  ideal[a] # NoState /\ ideal[a].count = Cardinality(sent)
    => redis[a] # NoState /\ redis[a].count >= Cardinality(sent)

(***************************************************************************)
(* Claimed by advance_state: a late event does not overwrite the anchor,   *)
(* last_fraud_score included.  Read as: a stored score is the score of the *)
(* anchor's transaction.                                                   *)
(***************************************************************************)
ScoreIsAnchors == \A a \in Accounts :
  redis[a] # NoState => redis[a].score \in {NoScore, redis[a].anchor.id}
==============================================================================
