----------------------------- MODULE AccountFold -----------------------------
(***************************************************************************)
(* The per-account fold of conquer3.core.features, and the two compare-    *)
(* and-set rules its results are stored under.                             *)
(*                                                                         *)
(* An AccountState document has two halves (core/types.py).  The last_*    *)
(* anchor block is copied from one transaction, so `anchor' is that        *)
(* transaction; `score' stands for last_fraud_score and is the id of the   *)
(* transaction whose probability is stored.  The priors are the aggregates *)
(* first, count, sum and max; amount_sqsum is a sum like amount_sum and is *)
(* left out.  Amounts are naturals: rounding of floats is not modelled.    *)
(***************************************************************************)
EXTENDS Naturals

CONSTANTS
  Accounts,  \* account ids
  NoState,   \* "no document": None in Python, a missing key in Redis
  NoScore    \* last_fraud_score = None

ScoreOf == Nat \cup {NoScore}

Transaction == [id : Nat, account : Accounts, ts : Nat, amount : Nat]

AccountState ==
  [account : Accounts, anchor : Transaction, score : ScoreOf, first : Nat,
   count : Nat, sum : Nat, max : Nat, updated : Nat]

ASSUME NoStateAssumption == NoState \notin AccountState
ASSUME NoScoreAssumption == NoScore \notin Nat

MaybeState == AccountState \cup {NoState}

Lesser(m, n)  == IF m <= n THEN m ELSE n
Greater(m, n) == IF m >= n THEN m ELSE n

\* AccountState.order_key: x's key (ts, id) is at or after y's
NotBefore(x, y) == \/ x.ts > y.ts
                   \/ x.ts = y.ts /\ x.id >= y.id

\* advance_state with prev = None
Singleton(x, score) ==
  [account |-> x.account, anchor |-> x, score |-> score, first |-> x.ts,
   count |-> 1, sum |-> x.amount, max |-> x.amount, updated |-> x.ts]

\* mutant of Advance: a late event sets the clock back to its own timestamp
AdvanceOwnClock(x, prev, score) ==
  IF prev = NoState THEN Singleton(x, score)
  ELSE LET newer == NotBefore(x, prev.anchor) IN
       [account |-> prev.account,
        anchor  |-> IF newer THEN x ELSE prev.anchor,
        score   |-> IF newer THEN score ELSE prev.score,
        first   |-> Lesser(prev.first, x.ts),
        count   |-> prev.count + 1,
        sum     |-> prev.sum + x.amount,
        max     |-> Greater(prev.max, x.amount),
        updated |-> x.ts]

\* advance_state: the priors absorb every event, the anchor only a newer one
Advance(x, prev, score) ==
  IF prev = NoState THEN Singleton(x, score)
  ELSE LET newer == NotBefore(x, prev.anchor) IN
       [account |-> prev.account,
        anchor  |-> IF newer THEN x ELSE prev.anchor,
        score   |-> IF newer THEN score ELSE prev.score,
        first   |-> Lesser(prev.first, x.ts),
        count   |-> prev.count + 1,
        sum     |-> prev.sum + x.amount,
        max     |-> Greater(prev.max, x.amount),
        updated |-> Greater(prev.updated, x.ts)]

\* mutant of MergeLastBlock: the comparison the wrong way round
MergeFirstBlock(a, b) == IF NotBefore(a.anchor, b.anchor) THEN b ELSE a

\* merge_last_block: the state that holds the later transaction, a on a tie
MergeLastBlock(a, b) == IF NotBefore(a.anchor, b.anchor) THEN a ELSE b

Merge(a, b) ==
  LET winner == MergeLastBlock(a, b) IN
  [account |-> a.account,
   anchor  |-> winner.anchor,
   score   |-> winner.score,
   first   |-> Lesser(a.first, b.first),
   count   |-> a.count + b.count,
   sum     |-> a.sum + b.sum,
   max     |-> Greater(a.max, b.max),
   updated |-> Greater(a.updated, b.updated)]

\* dataclasses.replace(new_state, last_fraud_score=proba) in FraudScorer.score
WithScore(state, score) == [state EXCEPT !.score = score]

\* mutants of MonotonicCas: an equal clock is refused; a plain SET
StrictCas(stored, new) ==
  IF stored # NoState /\ stored.updated >= new.updated THEN stored ELSE new
PlainSet(stored, new) == new

\* monotonic_cas.lua: refuse only a write older than the stored document
MonotonicCas(stored, new) ==
  IF stored # NoState /\ stored.updated > new.updated THEN stored ELSE new

\* mutant of MonotonicUpsert: ON CONFLICT DO UPDATE without its WHERE
PlainUpsert(stored, new) == new
\* mutant of MonotonicUpsert: ON CONFLICT DO NOTHING
InsertOnly(stored, new) == IF stored = NoState THEN new ELSE stored

\* _UPSERT_SQL of postgres_sink.py: update only when strictly newer
MonotonicUpsert(stored, new) ==
  IF stored = NoState \/ new.updated > stored.updated THEN new ELSE stored

(***************************************************************************)
(* What makes a stored document internally consistent: its clock is its    *)
(* anchor's, the first event is not after the last, the extremes are those *)
(* of events that were summed, and a document of one event is that event's.*)
(***************************************************************************)
Coherent(s) ==
  /\ s.account = s.anchor.account
  /\ s.updated = s.anchor.ts
  /\ s.first <= s.anchor.ts
  /\ s.count >= 1
  /\ s.anchor.amount <= s.max
  /\ s.max <= s.sum
  /\ s.count = 1 => /\ s.first = s.anchor.ts
                    /\ s.sum = s.anchor.amount

CoherentOrNone(s) == s # NoState => Coherent(s)
==============================================================================
