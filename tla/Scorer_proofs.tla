---------------------------- MODULE Scorer_proofs ----------------------------
(***************************************************************************)
(* Theorems about the fold of an account's events and about the request    *)
(* threads that use it, for any set of threads, accounts and transactions. *)
(***************************************************************************)
EXTENDS Scorer, FiniteSetTheorems, WellFoundedInduction, TLAPS

\* What the operators of AccountFold return, preserve and promise

(***************************************************************************)
(* advance_state with no previous state yields a coherent document of one  *)
(* event.                                                                  *)
(***************************************************************************)
LEMMA SingletonFold ==
  ASSUME NEW x \in Transaction, NEW score \in ScoreOf
  PROVE  /\ Singleton(x, score) \in AccountState
         /\ Coherent(Singleton(x, score))
  BY DEF Singleton, AccountState, Coherent, Transaction

(***************************************************************************)
(* advance_state folds a transaction of the account into a coherent state  *)
(* and yields a coherent state whose clock has not gone back.              *)
(***************************************************************************)
LEMMA AdvanceFold ==
  ASSUME NEW x \in Transaction, NEW s \in MaybeState, NEW score \in ScoreOf,
         s # NoState => Coherent(s) /\ s.account = x.account
  PROVE  LET new == Advance(x, s, score) IN
         /\ new \in AccountState
         /\ Coherent(new)
         /\ new.account = x.account
         /\ s # NoState => new.updated >= s.updated
<1>1. CASE s = NoState
  BY <1>1, SingletonFold DEF Advance, Singleton
<1>2. CASE s # NoState
  <2>1. s \in AccountState /\ Coherent(s) /\ s.account = x.account
    BY <1>2 DEF MaybeState
  <2>2. CASE NotBefore(x, s.anchor)
    BY <1>2, <2>1, <2>2
    DEF Advance, AccountState, Coherent, Transaction, NotBefore, Lesser, Greater
  <2>3. CASE ~NotBefore(x, s.anchor)
    <3> DEFINE new == Advance(x, s, score)
    <3>1. /\ x.ts \in Nat /\ x.amount \in Nat
          /\ s.anchor \in Transaction /\ s.anchor.ts \in Nat
          /\ s.anchor.amount \in Nat /\ s.score \in ScoreOf
          /\ s.first \in Nat /\ s.count \in Nat /\ s.sum \in Nat
          /\ s.max \in Nat /\ s.updated \in Nat
      BY <2>1 DEF AccountState, Transaction
    <3>2. x.ts <= s.anchor.ts
      BY <2>3, <3>1 DEF NotBefore
    <3>3. new = [account |-> s.account, anchor |-> s.anchor,
                 score |-> s.score, first |-> Lesser(s.first, x.ts),
                 count |-> s.count + 1, sum |-> s.sum + x.amount,
                 max |-> Greater(s.max, x.amount),
                 updated |-> Greater(s.updated, x.ts)]
      BY <1>2, <2>3 DEF Advance
    <3>4. /\ Lesser(s.first, x.ts) \in Nat /\ Greater(s.max, x.amount) \in Nat
          /\ Greater(s.updated, x.ts) = s.updated
          /\ Lesser(s.first, x.ts) <= s.first
          /\ s.max <= Greater(s.max, x.amount)
          /\ Greater(s.max, x.amount) <= s.sum + x.amount
      BY <2>1, <3>1, <3>2 DEF Lesser, Greater, Coherent
    <3>5. new \in AccountState
      BY <2>1, <3>1, <3>3, <3>4 DEF AccountState
    <3>6. /\ new.account = s.account /\ new.anchor = s.anchor
          /\ new.first = Lesser(s.first, x.ts) /\ new.count = s.count + 1
          /\ new.sum = s.sum + x.amount /\ new.max = Greater(s.max, x.amount)
          /\ new.updated = s.updated
      BY <3>3, <3>4
    <3> HIDE DEF new
    <3>7. Coherent(new)
      <4>1. new.first <= new.anchor.ts
        BY <2>1, <3>1, <3>4, <3>6 DEF Coherent
      <4>2. new.count >= 1 /\ new.count # 1
        BY <2>1, <3>1, <3>6 DEF Coherent
      <4>3. new.anchor.amount <= new.max
        BY <2>1, <3>1, <3>4, <3>6 DEF Coherent
      <4> QED BY <2>1, <3>4, <3>6, <4>1, <4>2, <4>3 DEF Coherent
    <3>8. new.account = x.account /\ new.updated >= s.updated
      BY <2>1, <3>1, <3>6
    <3> QED BY <3>5, <3>7, <3>8 DEF new
  <2> QED BY <2>2, <2>3
<1> QED BY <1>1, <1>2

(***************************************************************************)
(* Re-attaching the score after the model ran changes nothing else.        *)
(***************************************************************************)
LEMMA WithScoreFold ==
  ASSUME NEW s \in AccountState, NEW score \in ScoreOf
  PROVE  LET new == WithScore(s, score) IN
         /\ new \in AccountState
         /\ Coherent(s) => Coherent(new)
         /\ new.account = s.account
         /\ new.updated = s.updated
         /\ new.anchor = s.anchor
         /\ new.score = score
  BY DEF WithScore, AccountState, Coherent

(***************************************************************************)
(* merge_states of two coherent states of one account is a coherent state  *)
(* of that account, no older than either.                                  *)
(***************************************************************************)
LEMMA MergeFold ==
  ASSUME NEW a \in AccountState, NEW b \in AccountState,
         Coherent(a), Coherent(b), a.account = b.account
  PROVE  /\ Merge(a, b) \in AccountState
         /\ Coherent(Merge(a, b))
         /\ Merge(a, b).account = a.account
         /\ Merge(a, b).updated >= a.updated
         /\ Merge(a, b).updated >= b.updated
         /\ Merge(a, b).anchor \in {a.anchor, b.anchor}
<1> DEFINE w == MergeLastBlock(a, b)
<1> DEFINE m == Merge(a, b)
<1>1. /\ a.anchor \in Transaction /\ b.anchor \in Transaction
      /\ a.anchor.ts \in Nat /\ b.anchor.ts \in Nat
      /\ a.anchor.amount \in Nat /\ b.anchor.amount \in Nat
      /\ a.first \in Nat /\ b.first \in Nat /\ a.count \in Nat /\ b.count \in Nat
      /\ a.sum \in Nat /\ b.sum \in Nat /\ a.max \in Nat /\ b.max \in Nat
      /\ a.updated \in Nat /\ b.updated \in Nat
  BY DEF AccountState, Transaction
<1>2. /\ w \in {a, b}
      /\ w.anchor.ts >= a.anchor.ts /\ w.anchor.ts >= b.anchor.ts
  BY <1>1 DEF MergeLastBlock, NotBefore
<1>3. m = [account |-> a.account, anchor |-> w.anchor, score |-> w.score,
           first |-> Lesser(a.first, b.first), count |-> a.count + b.count,
           sum |-> a.sum + b.sum, max |-> Greater(a.max, b.max),
           updated |-> Greater(a.updated, b.updated)]
  BY DEF Merge
<1> HIDE DEF w
<1>4. /\ Greater(a.updated, b.updated) = w.updated
      /\ Lesser(a.first, b.first) \in Nat /\ Lesser(a.first, b.first) <= w.first
      /\ Greater(a.max, b.max) \in Nat /\ w.max <= Greater(a.max, b.max)
      /\ Greater(a.max, b.max) <= a.sum + b.sum
  BY <1>1, <1>2 DEF Lesser, Greater, Coherent
<1>5. w \in AccountState /\ Coherent(w) /\ w.account = a.account
  BY <1>2
<1>6. m \in AccountState
  BY <1>1, <1>3, <1>4, <1>5 DEF AccountState
<1>7. /\ m.account = a.account /\ m.anchor = w.anchor
      /\ m.first = Lesser(a.first, b.first) /\ m.count = a.count + b.count
      /\ m.sum = a.sum + b.sum /\ m.max = Greater(a.max, b.max)
      /\ m.updated = w.updated
  BY <1>3, <1>4
<1> HIDE DEF m
<1>8. /\ w.first \in Nat /\ w.max \in Nat /\ w.anchor.ts \in Nat
      /\ w.anchor.amount \in Nat
  BY <1>1, <1>2
<1>9. Coherent(m)
  <2>1. m.first <= m.anchor.ts
    BY <1>4, <1>5, <1>7, <1>8 DEF Coherent
  <2>2. m.count >= 1 /\ m.count # 1
    BY <1>1, <1>7 DEF Coherent
  <2>3. m.anchor.amount <= m.max
    BY <1>4, <1>5, <1>7, <1>8 DEF Coherent
  <2> QED BY <1>4, <1>5, <1>7, <2>1, <2>2, <2>3 DEF Coherent
<1>10. m.updated >= a.updated /\ m.updated >= b.updated
  BY <1>1, <1>2, <1>5, <1>7 DEF Coherent
<1> QED BY <1>2, <1>6, <1>7, <1>9, <1>10 DEF m

(***************************************************************************)
(* Two states agree on ties when states with the same order_key hold the   *)
(* same last_* block: "a total order ... which has no ties" (merge_states).*)
(***************************************************************************)
AgreeOnTies(a, b) ==
  a.anchor.ts = b.anchor.ts /\ a.anchor.id = b.anchor.id
    => a.anchor = b.anchor /\ a.score = b.score

(***************************************************************************)
(* merge_states is commutative, given that order_key has no ties between   *)
(* different events.                                                       *)
(***************************************************************************)
THEOREM MergeCommutes ==
  ASSUME NEW a \in AccountState, NEW b \in AccountState,
         a.account = b.account, AgreeOnTies(a, b)
  PROVE  Merge(a, b) = Merge(b, a)
<1>0. /\ a.anchor \in Transaction /\ b.anchor \in Transaction
      /\ a.count \in Nat /\ b.count \in Nat /\ a.sum \in Nat /\ b.sum \in Nat
  BY DEF AccountState
<1>1. MergeLastBlock(a, b).anchor = MergeLastBlock(b, a).anchor
  BY <1>0 DEF MergeLastBlock, NotBefore, Transaction, AgreeOnTies
<1>2. MergeLastBlock(a, b).score = MergeLastBlock(b, a).score
  BY <1>0 DEF MergeLastBlock, NotBefore, Transaction, AgreeOnTies
<1>3. /\ Lesser(a.first, b.first) = Lesser(b.first, a.first)
      /\ Greater(a.max, b.max) = Greater(b.max, a.max)
      /\ Greater(a.updated, b.updated) = Greater(b.updated, a.updated)
  BY DEF Lesser, Greater, AccountState
<1>4. a.count + b.count = b.count + a.count /\ a.sum + b.sum = b.sum + a.sum
  BY <1>0
<1> QED BY <1>1, <1>2, <1>3, <1>4 DEF Merge

(***************************************************************************)
(* merge_states is associative, so Pathway's partition-dependent order of  *)
(* merging cannot show in the result.  No assumption on ties is needed:    *)
(* on a tie the leftmost state wins under either bracketing.               *)
(***************************************************************************)
THEOREM MergeAssociates ==
  ASSUME NEW a \in AccountState, NEW b \in AccountState, NEW c \in AccountState
  PROVE  Merge(Merge(a, b), c) = Merge(a, Merge(b, c))
<1>0. /\ a.anchor \in Transaction /\ b.anchor \in Transaction
      /\ c.anchor \in Transaction
      /\ a.count \in Nat /\ b.count \in Nat /\ c.count \in Nat
      /\ a.sum \in Nat /\ b.sum \in Nat /\ c.sum \in Nat
  BY DEF AccountState
<1>1. /\ Merge(Merge(a, b), c).anchor = Merge(a, Merge(b, c)).anchor
      /\ Merge(Merge(a, b), c).score = Merge(a, Merge(b, c)).score
  BY <1>0 DEF Merge, MergeLastBlock, NotBefore, Transaction
<1>2. /\ Merge(Merge(a, b), c).first = Merge(a, Merge(b, c)).first
      /\ Merge(Merge(a, b), c).max = Merge(a, Merge(b, c)).max
      /\ Merge(Merge(a, b), c).updated = Merge(a, Merge(b, c)).updated
  BY DEF Merge, Lesser, Greater, AccountState
<1>3. /\ Merge(Merge(a, b), c).count = Merge(a, Merge(b, c)).count
      /\ Merge(Merge(a, b), c).sum = Merge(a, Merge(b, c)).sum
      /\ Merge(Merge(a, b), c).account = Merge(a, Merge(b, c)).account
  BY <1>0 DEF Merge
<1> QED BY <1>1, <1>2, <1>3 DEF Merge

(***************************************************************************)
(* The batch fold and the streaming merge are one: advancing a state by a  *)
(* transaction is merging it with the transaction's own state, given no    *)
(* tie.  By MergeCommutes and MergeAssociates every order of merging then  *)
(* yields what advance_state yields over the sorted events.                *)
(***************************************************************************)
THEOREM AdvanceIsMerge ==
  ASSUME NEW x \in Transaction, NEW s \in AccountState, NEW score \in ScoreOf,
         s.account = x.account, AgreeOnTies(s, Singleton(x, score))
  PROVE  Advance(x, s, score) = Merge(s, Singleton(x, score))
<1>1. s # NoState
  BY NoStateAssumption
<1>2. s.anchor \in Transaction
  BY DEF AccountState
<1>3. /\ Advance(x, s, score).anchor = Merge(s, Singleton(x, score)).anchor
      /\ Advance(x, s, score).score = Merge(s, Singleton(x, score)).score
  BY <1>1, <1>2 DEF Advance, Merge, MergeLastBlock, Singleton, NotBefore,
                    AgreeOnTies, Transaction
<1>4. /\ Advance(x, s, score).first = Merge(s, Singleton(x, score)).first
      /\ Advance(x, s, score).max = Merge(s, Singleton(x, score)).max
      /\ Advance(x, s, score).updated = Merge(s, Singleton(x, score)).updated
  BY <1>1 DEF Advance, Merge, Singleton
<1>5. /\ Advance(x, s, score).count = Merge(s, Singleton(x, score)).count
      /\ Advance(x, s, score).sum = Merge(s, Singleton(x, score)).sum
      /\ Advance(x, s, score).account = Merge(s, Singleton(x, score)).account
  BY <1>1 DEF Advance, Merge, Singleton
<1> QED BY <1>1, <1>3, <1>4, <1>5 DEF Advance, Merge
------------------------------------------------------------------------------
\* The request threads

scorerStoreVars == <<redis, scorerVars>>

ScorerTypes == StoreTypeOK /\ ScorerTypeOK

(***************************************************************************)
(* The state after a transaction (compute, then the score re-attached) is  *)
(* a coherent document of its account, no older than the one before.       *)
(***************************************************************************)
LEMMA ScoredFold ==
  ASSUME NEW x \in Txns, NEW before \in MaybeState, DocumentOf(x.account, before)
  PROVE  LET new == Scored(x, before) IN
         /\ new \in AccountState
         /\ DocumentOf(x.account, new)
         /\ before # NoState => new.updated >= before.updated
<1>1. x \in Transaction /\ x.id \in ScoreOf /\ NoScore \in ScoreOf
  BY TxnsAssumption DEF Transaction, ScoreOf
<1>2. before # NoState => Coherent(before) /\ before.account = x.account
  BY DEF DocumentOf
<1> DEFINE mid == Advance(x, before, NoScore)
<1>3. /\ mid \in AccountState /\ Coherent(mid) /\ mid.account = x.account
      /\ before # NoState => mid.updated >= before.updated
  BY <1>1, <1>2, AdvanceFold
<1> HIDE DEF mid
<1>4. LET new == WithScore(mid, x.id) IN
      /\ new \in AccountState /\ Coherent(new)
      /\ new.account = mid.account /\ new.updated = mid.updated
  BY <1>1, <1>3, WithScoreFold
<1> QED BY <1>3, <1>4 DEF Scored, DocumentOf, mid

(***************************************************************************)
(* The CAS stores one of the two documents it compares, and never an older *)
(* one.                                                                    *)
(***************************************************************************)
LEMMA CasStores ==
  ASSUME NEW stored \in MaybeState, NEW new \in AccountState
  PROVE  LET after == MonotonicCas(stored, new) IN
         /\ after \in {stored, new}
         /\ after # NoState
         /\ stored # NoState => after.updated >= stored.updated
         /\ after.updated >= new.updated
  BY NoStateAssumption DEF MonotonicCas, MaybeState, AccountState

(***************************************************************************)
(* Types and well-formed documents are kept by every step of a thread, and *)
(* no step takes an account back in time.                                  *)
(***************************************************************************)
NotBack == \A a \in Accounts :
  redis[a] # NoState /\ redis'[a] # NoState
    => redis'[a].updated >= redis[a].updated

LEMMA StoredComparable ==
  StoreTypeOK => \A a \in Accounts :
    redis[a] # NoState => redis[a].updated >= redis[a].updated
  BY DEF StoreTypeOK, MaybeState, AccountState

LEMMA ThreadStepInv ==
  ASSUME ScorerTypes, WellFormed, NEW t \in Threads, ThreadStep(t)
  PROVE  ScorerTypes' /\ WellFormed' /\ NotBack
<1> USE DEF ScorerTypes, StoreTypeOK, ScorerTypeOK
<1>same. ASSUME UNCHANGED redis PROVE NotBack
  BY <1>same, StoredComparable DEF NotBack
<1>1. CASE Receive(t)
  <2>1. ScorerTypes'
    BY <1>1 DEF Receive
  <2>2. WellFormed'
    BY <1>1 DEF Receive, WellFormed
  <2> QED BY <1>1, <2>1, <2>2, <1>same DEF Receive
<1>2. ASSUME NEW a \in Accounts, ReadState(t, a) PROVE ScorerTypes' /\ WellFormed' /\ NotBack
  <2>1. ScorerTypes'
    BY <1>2 DEF ReadState
  <2>2. WellFormed'
    BY <1>2 DEF ReadState, WellFormed
  <2> QED BY <1>2, <2>1, <2>2, <1>same DEF ReadState
<1>3. ASSUME NEW x \in Txns, ScoreDry(t, x) PROVE ScorerTypes' /\ WellFormed' /\ NotBack
  <2>1. x.account = account[t] /\ account[t] \in Accounts /\ prev[t] \in MaybeState
        /\ DocumentOf(x.account, prev[t])
    BY <1>3 DEF ScoreDry, Earliest, Mine, WellFormed
  <2>2. Scored(x, prev[t]) \in AccountState /\ DocumentOf(x.account, Scored(x, prev[t]))
    BY <2>1, ScoredFold
  <2>3. ScorerTypes'
    BY <1>3, <2>2 DEF ScoreDry, AfterResponse, historyVars, MaybeState
  <2>4. WellFormed'
    BY <1>3, <2>1, <2>2 DEF ScoreDry, AfterResponse, historyVars, WellFormed
  <2> QED BY <1>3, <2>3, <2>4, <1>same DEF ScoreDry
<1>4. ASSUME NEW x \in Txns, ScoreLive(t, x) PROVE ScorerTypes' /\ WellFormed' /\ NotBack
  <2> DEFINE new == Scored(x, prev[t])
             b == x.account
  <2>1. b = account[t] /\ b \in Accounts /\ prev[t] \in MaybeState
        /\ DocumentOf(b, prev[t])
    BY <1>4 DEF ScoreLive, Earliest, Mine, WellFormed
  <2>2. new \in AccountState /\ DocumentOf(b, new)
    BY <2>1, ScoredFold
  <2>3. /\ ideal[b] \in MaybeState /\ DocumentOf(b, ideal[b])
        /\ redis[b] \in MaybeState /\ DocumentOf(b, redis[b])
    BY <2>1 DEF WellFormed
  <2>4. Scored(x, ideal[b]) \in AccountState /\ DocumentOf(b, Scored(x, ideal[b]))
    BY <2>3, ScoredFold
  <2> HIDE DEF new
  <2>5. /\ MonotonicCas(redis[b], new) \in {redis[b], new}
        /\ redis[b] # NoState =>
             MonotonicCas(redis[b], new).updated >= redis[b].updated
    BY <2>2, <2>3, CasStores
  <2>6. /\ redis' = [redis EXCEPT ![b] = MonotonicCas(redis[b], new)]
        /\ prev' = [prev EXCEPT ![t] = new]
        /\ current' = [current EXCEPT ![t] = x]
        /\ pc' = [pc EXCEPT ![t] = "append"]
        /\ committed' = [committed EXCEPT ![x] = @ + 1]
        /\ ideal' = [ideal EXCEPT ![b] = Scored(x, ideal[b])]
        /\ ~dry[t]
        /\ UNCHANGED <<request, dry, responses, account, logged, received,
                       answered, serial>>
    BY <1>4 DEF ScoreLive, CommitState, new
  <2>7. ScorerTypes'
    BY <2>1, <2>2, <2>3, <2>4, <2>5, <2>6 DEF MaybeState
  <2>8. WellFormed'
    BY <2>1, <2>2, <2>3, <2>4, <2>5, <2>6 DEF WellFormed
  <2>9. NotBack
    BY <2>1, <2>5, <2>6, StoredComparable DEF NotBack
  <2> QED BY <2>7, <2>8, <2>9
<1>5. CASE AppendEvent(t)
  <2>1. ScorerTypes'
    BY <1>5 DEF AppendEvent, AfterResponse, historyVars, WellFormed
  <2>2. WellFormed'
    BY <1>5 DEF AppendEvent, AfterResponse, historyVars, WellFormed
  <2> QED BY <1>5, <2>1, <2>2, <1>same DEF AppendEvent
<1>6. CASE AppendFails(t)
  <2>1. ScorerTypes'
    BY <1>6 DEF AppendFails, Finish, historyVars, WellFormed, MaybeState
  <2>2. WellFormed'
    BY <1>6 DEF AppendFails, Finish, historyVars, WellFormed
  <2> QED BY <1>6, <2>1, <2>2, <1>same DEF AppendFails
<1>7. CASE Abort(t)
  <2>1. ScorerTypes'
    BY <1>7 DEF Abort, Finish, historyVars, MaybeState
  <2>2. WellFormed'
    BY <1>7 DEF Abort, Finish, historyVars, WellFormed
  <2> QED BY <1>7, <2>1, <2>2, <1>same DEF Abort
<1>8. CASE Respond(t)
  <2>1. ScorerTypes'
    BY <1>8 DEF Respond, Finish, MaybeState
  <2>2. WellFormed'
    BY <1>8 DEF Respond, Finish, WellFormed
  <2> QED BY <1>8, <2>1, <2>2, <1>same DEF Respond
<1> QED BY <1>1, <1>2, <1>3, <1>4, <1>5, <1>6, <1>7, <1>8 DEF ThreadStep

(***************************************************************************)
(* So are they by the loss of a key, after which there is no document.     *)
(***************************************************************************)
LEMMA ExpireInv ==
  ASSUME ScorerTypes, WellFormed, NEW a \in Accounts, Expire(a)
  PROVE  ScorerTypes' /\ WellFormed' /\ NotBack
<1>1. ScorerTypes'
  BY DEF ScorerTypes, StoreTypeOK, ScorerTypeOK, Expire, LoseKey, threadVars, MaybeState
<1>2. WellFormed'
  BY DEF ScorerTypes, StoreTypeOK, ScorerTypeOK, Expire, LoseKey, threadVars,
         WellFormed, DocumentOf
<1>3. NotBack
  BY StoredComparable DEF ScorerTypes, StoreTypeOK, Expire, LoseKey, NotBack
<1> QED BY <1>1, <1>2, <1>3

(***************************************************************************)
(* ScorerTypes and WellFormed: in every reachable state the store and the  *)
(* threads hold values of their types, so score() never folds or stores    *)
(* anything but account states.                                            *)
(***************************************************************************)
THEOREM ScorerTyping == ScorerSpec => [](ScorerTypes /\ WellFormed)
<1>1. ScorerInit => ScorerTypes /\ WellFormed
  BY DEF StoreInit, ScorerInit, ScorerTypes, StoreTypeOK, ScorerTypeOK,
         WellFormed, DocumentOf, MaybeState
<1>2. ScorerTypes /\ WellFormed /\ [ScorerNext]_scorerStoreVars
        => (ScorerTypes /\ WellFormed)'
  <2> SUFFICES ASSUME ScorerTypes, WellFormed, [ScorerNext]_scorerStoreVars
               PROVE  (ScorerTypes /\ WellFormed)'
    OBVIOUS
  <2>1. ASSUME NEW t \in Threads, ThreadStep(t) PROVE (ScorerTypes /\ WellFormed)'
    BY <2>1, ThreadStepInv
  <2>2. ASSUME NEW a \in Accounts, Expire(a) PROVE (ScorerTypes /\ WellFormed)'
    BY <2>2, ExpireInv
  <2>3. CASE UNCHANGED scorerStoreVars
    BY <2>3 DEF scorerStoreVars, scorerVars, ScorerTypes, StoreTypeOK,
                ScorerTypeOK, WellFormed
  <2> QED BY <2>1, <2>2, <2>3 DEF ScorerNext
<1> QED BY <1>1, <1>2, PTL DEF ScorerSpec, scorerStoreVars

(***************************************************************************)
(* StoredCoherent: whichever requests race for an account, the document in *)
(* Redis is internally consistent.                                         *)
(***************************************************************************)
THEOREM StoredCoherence == ScorerSpec => []StoredCoherent
<1>1. ScorerTypes /\ WellFormed => StoredCoherent
  BY DEF WellFormed, StoredCoherent, DocumentOf, CoherentOrNone
<1> QED BY <1>1, ScorerTyping, PTL

(***************************************************************************)
(* NeverBackInTime: no interleaving of requests replaces a document by one *)
(* with an earlier clock.                                                  *)
(***************************************************************************)
THEOREM ScorerNeverBackInTime == ScorerSpec => NeverBackInTime
<1>1. ScorerTypes /\ WellFormed /\ [ScorerNext]_scorerStoreVars
        => [NotBack]_redis
  <2> SUFFICES ASSUME ScorerTypes, WellFormed, [ScorerNext]_scorerStoreVars
               PROVE  [NotBack]_redis
    OBVIOUS
  <2>1. ASSUME NEW t \in Threads, ThreadStep(t) PROVE NotBack
    BY <2>1, ThreadStepInv
  <2>2. ASSUME NEW a \in Accounts, Expire(a) PROVE NotBack
    BY <2>2, ExpireInv
  <2>3. CASE UNCHANGED scorerStoreVars
    BY <2>3 DEF scorerStoreVars
  <2> QED BY <2>1, <2>2, <2>3 DEF ScorerNext
<1>2. [NotBack]_redis => [\A a \in Accounts :
         redis[a] # NoState /\ redis'[a] # NoState
           => redis'[a].updated >= redis[a].updated]_redis
  BY DEF NotBack
<1> QED BY <1>1, <1>2, ScorerTyping, PTL
        DEF ScorerSpec, NeverBackInTime, scorerStoreVars
------------------------------------------------------------------------------

(***************************************************************************)
(* DurableInv is inductive: each response of a live request, as it becomes *)
(* ready, is of a committed transaction with a line in the log.            *)
(***************************************************************************)
LEMMA DurableStep ==
  ASSUME ScorerTypes, WellFormed, DurableInv, NEW t \in Threads, ThreadStep(t)
  PROVE  DurableInv'
<1> USE DEF ScorerTypes, ScorerTypeOK, DurableInv, AnsweredIsDurable
<1>1. CASE Receive(t)
  BY <1>1 DEF Receive
<1>2. ASSUME NEW a \in Accounts, ReadState(t, a) PROVE DurableInv'
  BY <1>2 DEF ReadState
<1>3. ASSUME NEW x \in Txns, ScoreDry(t, x) PROVE DurableInv'
  BY <1>3 DEF ScoreDry, AfterResponse, historyVars
<1>4. ASSUME NEW x \in Txns, ScoreLive(t, x) PROVE DurableInv'
  <2>1. /\ current' = [current EXCEPT ![t] = x]
        /\ pc' = [pc EXCEPT ![t] = "append"]
        /\ committed' = [committed EXCEPT ![x] = @ + 1]
        /\ UNCHANGED <<dry, responses, logged, answered>>
    BY <1>4 DEF ScoreLive
  <2>2. \A y \in Txns : committed'[y] >= committed[y] /\ committed'[x] >= 1
    BY <2>1
  <2>3. \A u \in Threads : pc'[u] = "append" => committed'[current'[u]] >= 1
    <3> SUFFICES ASSUME NEW u \in Threads, pc'[u] = "append"
                 PROVE  committed'[current'[u]] >= 1
      OBVIOUS
    <3>1. CASE u = t
      BY <2>1, <2>2, <3>1
    <3>2. CASE u # t
      <4>1. pc[u] = "append" /\ current'[u] = current[u] /\ current[u] \in Txns
        BY <2>1, <3>2 DEF WellFormed
      <4>2. committed[current[u]] >= 1 /\ committed[current[u]] \in Nat
            /\ committed'[current[u]] \in Nat
        BY <2>1, <4>1
      <4> QED BY <2>2, <4>1, <4>2
    <3> QED BY <3>1, <3>2
  <2>4. \A y \in Txns : committed[y] >= 1 => committed'[y] >= 1
    BY <2>1
  <2>5. AnsweredIsDurable'
    BY <2>1, <2>4
  <2>6. \A u \in Threads : \A y \in responses'[u] :
          ~dry'[u] => committed'[y] >= 1 /\ logged'[y] >= 1
    BY <2>1, <2>4
  <2>7. \A u \in Threads : pc'[u] = "idle" => responses'[u] = {}
    BY <2>1
  <2> QED BY <2>3, <2>5, <2>6, <2>7
<1>5. CASE AppendEvent(t)
  <2> DEFINE x == current[t]
  <2>1. /\ logged' = [logged EXCEPT ![x] = @ + 1]
        /\ responses' = [responses EXCEPT ![t] = @ \cup {x}]
        /\ pc[t] = "append" /\ x \in Txns
        /\ UNCHANGED <<dry, committed, answered>>
    BY <1>5 DEF AppendEvent, AfterResponse, historyVars, WellFormed
  <2>2. committed[x] >= 1 /\ logged'[x] >= 1
    BY <2>1
  <2>3. \A y \in Txns : logged[y] >= 1 => logged'[y] >= 1
    BY <2>1
  <2>4. AnsweredIsDurable'
    BY <2>1, <2>3
  <2>5. \A u \in Threads : \A y \in responses'[u] :
          ~dry'[u] => committed'[y] >= 1 /\ logged'[y] >= 1
    BY <2>1, <2>2, <2>3
  <2>6. \A u \in Threads : pc'[u] = "append" => committed'[current'[u]] >= 1
    <3>1. /\ current' = [current EXCEPT ![t] = None]
          /\ \A u \in Threads \ {t} : pc'[u] = pc[u]
          /\ pc'[t] # "append"
      BY <1>5 DEF AppendEvent, AfterResponse
    <3> QED BY <2>1, <3>1
  <2>7. \A u \in Threads : pc'[u] = "idle" => responses'[u] = {}
    BY <1>5, <2>1 DEF AppendEvent, AfterResponse
  <2> QED BY <2>4, <2>5, <2>6, <2>7
<1>6. CASE AppendFails(t)
  <2> DEFINE x == current[t]
  <2>1. /\ x \in Txns
        /\ \E lines \in {0, 1} : logged' = [logged EXCEPT ![x] = @ + lines]
        /\ responses' = [responses EXCEPT ![t] = {}]
        /\ pc' = [pc EXCEPT ![t] = "idle"]
        /\ dry' = [dry EXCEPT ![t] = FALSE]
        /\ current' = [current EXCEPT ![t] = None]
        /\ UNCHANGED <<committed, answered>>
    BY <1>6 DEF AppendFails, Finish, historyVars, WellFormed
  <2>2. \A y \in Txns : logged[y] >= 1 => logged'[y] >= 1
    BY <2>1
  <2> QED BY <2>1, <2>2
<1>7. CASE Abort(t)
  BY <1>7 DEF Abort, Finish, historyVars
<1>8. CASE Respond(t)
  BY <1>8 DEF Respond, Finish
<1> QED BY <1>1, <1>2, <1>3, <1>4, <1>5, <1>6, <1>7, <1>8 DEF ThreadStep

LEMMA DurableInvariant == ScorerSpec => []DurableInv
<1>1. ScorerInit => DurableInv
  BY DEF ScorerInit, DurableInv, AnsweredIsDurable
<1>2. ScorerTypes /\ WellFormed /\ DurableInv /\ [ScorerNext]_scorerStoreVars
        => DurableInv'
  <2> SUFFICES ASSUME ScorerTypes, WellFormed, DurableInv,
                      [ScorerNext]_scorerStoreVars
               PROVE  DurableInv'
    OBVIOUS
  <2>1. ASSUME NEW t \in Threads, ThreadStep(t) PROVE DurableInv'
    BY <2>1, DurableStep
  <2>2. ASSUME NEW a \in Accounts, Expire(a) PROVE DurableInv'
    BY <2>2 DEF Expire, threadVars, DurableInv, AnsweredIsDurable
  <2>3. CASE UNCHANGED scorerStoreVars
    BY <2>3 DEF scorerStoreVars, scorerVars, DurableInv, AnsweredIsDurable
  <2> QED BY <2>1, <2>2, <2>3 DEF ScorerNext
<1> QED BY <1>1, <1>2, ScorerTyping, PTL DEF ScorerSpec, scorerStoreVars

(***************************************************************************)
(* AnsweredIsDurable: whatever fails or is retried, a transaction that a   *)
(* live request reported as scored is in Redis's history and in the log.   *)
(***************************************************************************)
THEOREM AnsweredDurability == ScorerSpec => []AnsweredIsDurable
<1>1. DurableInv => AnsweredIsDurable
  BY DEF DurableInv
<1> QED BY <1>1, DurableInvariant, PTL
------------------------------------------------------------------------------

(***************************************************************************)
(* SerialInv is inductive: at most one thread folds a serial account and   *)
(* it works on the stored document, so the CAS accepts each of its         *)
(* commits, the late ones (with an unchanged clock) included.              *)
(***************************************************************************)
LEMMA SerialFrame ==
  ASSUME SerialInv, UNCHANGED <<redis, ideal, serial>>,
         \A u \in Threads, b \in Accounts :
           Folding(u, b)' => Folding(u, b) /\ prev'[u] = prev[u]
  PROVE  SerialInv'
  BY DEF SerialInv, SerialFoldIsExact

LEMMA SerialStep ==
  ASSUME ScorerTypes, WellFormed, SerialInv, NEW t \in Threads, ThreadStep(t)
  PROVE  SerialInv'
<1> USE DEF ScorerTypes, ScorerTypeOK, StoreTypeOK
<1> DEFINE Frame == \A u \in Threads, b \in Accounts :
             Folding(u, b)' => Folding(u, b) /\ prev'[u] = prev[u]
<1>1. CASE Receive(t)
  <2>1. Frame
    BY <1>1 DEF Receive, Folding
  <2> QED BY <1>1, <2>1, SerialFrame DEF Receive
<1>2. ASSUME NEW a \in Accounts, ReadState(t, a) PROVE SerialInv'
  <2>1. /\ pc[t] = "group"
        /\ account' = [account EXCEPT ![t] = a]
        /\ prev' = [prev EXCEPT ![t] = redis[a]]
        /\ pc' = [pc EXCEPT ![t] = "fold"]
        /\ serial' = [serial EXCEPT
             ![a] = @ /\ (dry[t] \/ \A u \in Threads : ~Folding(u, a))]
        /\ UNCHANGED <<redis, dry, ideal>>
    BY <1>2 DEF ReadState
  <2>2. \A u \in Threads, b \in Accounts : u # t =>
          (Folding(u, b)' <=> Folding(u, b)) /\ prev'[u] = prev[u]
    BY <2>1 DEF Folding
  <2>3. \A b \in Accounts : Folding(t, b)' => b = a /\ ~dry[t] /\ prev'[t] = redis[a]
    BY <2>1 DEF Folding
  <2>4. \A b \in Accounts : serial'[b] => serial[b]
    <3>1. \A b \in Accounts : b # a => serial'[b] = serial[b]
      BY <2>1
    <3>2. serial'[a] = (serial[a] /\ (dry[t] \/ \A u \in Threads : ~Folding(u, a)))
      BY <2>1
    <3> QED BY <3>1, <3>2
  <2>5. serial'[a] /\ ~dry[t] => \A u \in Threads : ~Folding(u, a)
    BY <2>1
  <2>6. SerialFoldIsExact'
    BY <2>1, <2>4 DEF SerialInv, SerialFoldIsExact
  <2>7. ASSUME NEW b \in Accounts, NEW u \in Threads, NEW v \in Threads,
               serial'[b], Folding(u, b)', Folding(v, b)'
        PROVE  u = v
    <3>1. serial[b]
      BY <2>4, <2>7
    <3>2. CASE u # t /\ v # t
      BY <2>2, <2>7, <3>1, <3>2 DEF SerialInv
    <3>3. CASE u = t
      BY <2>2, <2>3, <2>5, <2>7, <3>3
    <3>4. CASE v = t
      BY <2>2, <2>3, <2>5, <2>7, <3>4
    <3> QED BY <3>2, <3>3, <3>4
  <2>8. ASSUME NEW b \in Accounts, NEW u \in Threads, serial'[b], Folding(u, b)'
        PROVE  prev'[u] = redis'[b]
    BY <2>1, <2>2, <2>3, <2>4, <2>8 DEF SerialInv
  <2> QED BY <2>6, <2>7, <2>8 DEF SerialInv
<1>3. ASSUME NEW x \in Txns, ScoreDry(t, x) PROVE SerialInv'
  <2>1. Frame
    BY <1>3 DEF ScoreDry, AfterResponse, Folding
  <2> QED BY <1>3, <2>1, SerialFrame DEF ScoreDry, historyVars
<1>4. ASSUME NEW x \in Txns, ScoreLive(t, x) PROVE SerialInv'
  <2> DEFINE new == Scored(x, prev[t])
             a == x.account
  <2>1. a = account[t] /\ a \in Accounts /\ Folding(t, a)
        /\ prev[t] \in MaybeState /\ DocumentOf(a, prev[t])
    BY <1>4 DEF ScoreLive, Earliest, Mine, WellFormed, Folding
  <2>2. new \in AccountState /\ (prev[t] # NoState => new.updated >= prev[t].updated)
    BY <2>1, ScoredFold
  <2>3. serial[a] => prev[t] = redis[a] /\ redis[a] = ideal[a]
    BY <2>1 DEF SerialInv, SerialFoldIsExact
  <2>4. serial[a] => Scored(x, ideal[a]) = new
    BY <2>3
  <2> HIDE DEF new
  <2>5. serial[a] => MonotonicCas(redis[a], new) = new
    BY <2>1, <2>2, <2>3, NoStateAssumption
       DEF MonotonicCas, MaybeState, AccountState
  <2>6. /\ redis' = [redis EXCEPT ![a] = MonotonicCas(redis[a], new)]
        /\ prev' = [prev EXCEPT ![t] = new]
        /\ pc' = [pc EXCEPT ![t] = "append"]
        /\ ideal' = [ideal EXCEPT ![a] = Scored(x, ideal[a])]
        /\ UNCHANGED <<dry, account, serial>>
    BY <1>4 DEF ScoreLive, CommitState, new
  <2>7. \A u \in Threads, b \in Accounts : Folding(u, b)' <=> Folding(u, b)
    BY <1>4, <2>6 DEF ScoreLive, Folding
  <2>8. \A b \in Accounts : Folding(t, b) => b = a
    BY <2>1 DEF Folding
  <2>9. \A b \in Accounts : b # a => redis'[b] = redis[b] /\ ideal'[b] = ideal[b]
    BY <2>6
  <2>10. serial[a] => redis'[a] = new /\ ideal'[a] = new
    BY <2>1, <2>4, <2>5, <2>6
  <2>11. SerialFoldIsExact'
    BY <2>6, <2>9, <2>10 DEF SerialInv, SerialFoldIsExact
  <2>12. ASSUME NEW b \in Accounts, NEW u \in Threads, serial'[b], Folding(u, b)'
         PROVE  prev'[u] = redis'[b]
    <3>1. serial[b] /\ Folding(u, b)
      BY <2>6, <2>7, <2>12
    <3>2. CASE b = a
      <4>1. u = t
        BY <2>1, <3>1, <3>2 DEF SerialInv
      <4> QED BY <2>1, <2>6, <2>10, <3>1, <3>2, <4>1
    <3>3. CASE b # a
      <4>1. u # t
        BY <2>8, <3>1, <3>3
      <4> QED BY <2>6, <2>9, <3>1, <3>3, <4>1 DEF SerialInv
    <3> QED BY <3>2, <3>3
  <2>13. \A b \in Accounts, u, v \in Threads :
           serial'[b] /\ Folding(u, b)' /\ Folding(v, b)' => u = v
    BY <2>6, <2>7 DEF SerialInv
  <2> QED BY <2>11, <2>12, <2>13 DEF SerialInv
<1>5. CASE AppendEvent(t)
  <2>1. Frame
    BY <1>5 DEF AppendEvent, AfterResponse, Folding
  <2> QED BY <1>5, <2>1, SerialFrame DEF AppendEvent, historyVars
<1>6. CASE AppendFails(t)
  <2>1. Frame
    BY <1>6 DEF AppendFails, Finish, Folding
  <2> QED BY <1>6, <2>1, SerialFrame DEF AppendFails, historyVars
<1>7. CASE Abort(t)
  <2>1. Frame
    BY <1>7 DEF Abort, Finish, Folding
  <2> QED BY <1>7, <2>1, SerialFrame DEF Abort, historyVars
<1>8. CASE Respond(t)
  <2>1. Frame
    BY <1>8 DEF Respond, Finish, Folding
  <2> QED BY <1>8, <2>1, SerialFrame DEF Respond
<1> QED BY <1>1, <1>2, <1>3, <1>4, <1>5, <1>6, <1>7, <1>8 DEF ThreadStep

LEMMA SerialInvariant == ScorerSpec => []SerialInv
<1>1. ScorerInit => SerialInv
  BY DEF StoreInit, ScorerInit, SerialInv, SerialFoldIsExact, Folding
<1>2. ScorerTypes /\ WellFormed /\ SerialInv /\ [ScorerNext]_scorerStoreVars
        => SerialInv'
  <2> SUFFICES ASSUME ScorerTypes, WellFormed, SerialInv,
                      [ScorerNext]_scorerStoreVars
               PROVE  SerialInv'
    OBVIOUS
  <2>1. ASSUME NEW t \in Threads, ThreadStep(t) PROVE SerialInv'
    BY <2>1, SerialStep
  <2>2. ASSUME NEW a \in Accounts, Expire(a) PROVE SerialInv'
    <3> USE DEF ScorerTypes, ScorerTypeOK, StoreTypeOK
    <3>1. /\ redis' = [redis EXCEPT ![a] = NoState]
          /\ ideal' = [ideal EXCEPT ![a] = NoState]
          /\ serial' = [serial EXCEPT ![a] = \A u \in Threads : ~Folding(u, a)]
          /\ UNCHANGED <<pc, account, dry, prev>>
      BY <2>2 DEF Expire, LoseKey, threadVars
    <3>2. \A u \in Threads, b \in Accounts : Folding(u, b)' <=> Folding(u, b)
      BY <3>1 DEF Folding
    <3>3. serial'[a] => \A u \in Threads : ~Folding(u, a)
      BY <3>1
    <3>4. \A b \in Accounts : b # a => /\ redis'[b] = redis[b]
                                       /\ ideal'[b] = ideal[b]
                                       /\ serial'[b] = serial[b]
      BY <3>1
    <3>5. redis'[a] = NoState /\ ideal'[a] = NoState
      BY <3>1
    <3> QED BY <3>1, <3>2, <3>3, <3>4, <3>5 DEF SerialInv, SerialFoldIsExact
  <2>3. CASE UNCHANGED scorerStoreVars
    BY <2>3 DEF scorerStoreVars, scorerVars, SerialInv, SerialFoldIsExact, Folding
  <2> QED BY <2>1, <2>2, <2>3 DEF ScorerNext
<1> QED BY <1>1, <1>2, ScorerTyping, PTL DEF ScorerSpec, scorerStoreVars

(***************************************************************************)
(* SerialFoldIsExact: non-overlapping requests lose nothing, for any       *)
(* number of threads, accounts and transactions.                           *)
(***************************************************************************)
THEOREM SerialExactness == ScorerSpec => []SerialFoldIsExact
<1>1. SerialInv => SerialFoldIsExact
  BY DEF SerialInv
<1> QED BY <1>1, SerialInvariant, PTL

(***************************************************************************)
(* ScorerInv, the conjunction the run MCScorer_groups checks, is an        *)
(* invariant of the request threads.                                       *)
(***************************************************************************)
THEOREM ScorerInvariant == ScorerSpec => []ScorerInv
<1>1. (ScorerTypes /\ WellFormed) /\ DurableInv /\ SerialInv => ScorerInv
  BY DEF ScorerTypes, ScorerInv
<1> QED BY <1>1, ScorerTyping, DurableInvariant, SerialInvariant, PTL
------------------------------------------------------------------------------
\* Sums over a finite set, as MapThenSumSet computes them

LEMMA LeastOf ==
  ASSUME NEW S \in SUBSET Nat, S # {}
  PROVE  \E j \in S : \A k \in S : j <= k
<1>1. PICK j \in S : \A k \in S : ~(<<k, j>> \in OpToRel(<, Nat))
  BY NatLessThanWellFounded, WFMin, Zenon
<1>2. \A k \in S : ~(k < j)
  BY <1>1, Zenon DEF OpToRel
<1> QED BY <1>2

One(s) == CHOOSE x \in s : TRUE

\* g gives the sum of f over each subset of S, as MapThenSumSet computes it
SumsOf(f, S, g) ==
  g = [s \in SUBSET S |-> IF s = {} THEN 0 ELSE f[One(s)] + g[s \ {One(s)}]]

Sums(f, S) == CHOOSE g : SumsOf(f, S, g)
SumOver(f, S) == Sums(f, S)[S]

LEMMA OneLess ==
  ASSUME NEW S, IsFiniteSet(S), NEW s \in SUBSET S, s # {}
  PROVE  /\ One(s) \in s /\ One(s) \in S /\ s \ {One(s)} \in SUBSET S
         /\ Cardinality(s) \in Nat \ {0}
         /\ Cardinality(s \ {One(s)}) = Cardinality(s) - 1
<1>1. One(s) \in s
  BY Zenon DEF One
<1>2. IsFiniteSet(s)
  BY FS_Subset
<1>3. /\ Cardinality(s) \in Nat /\ Cardinality(s) # 0
      /\ Cardinality(s \ {One(s)}) = Cardinality(s) - 1
  BY <1>1, <1>2, FS_CardinalityType, FS_EmptySet, FS_RemoveElement
<1> QED BY <1>1, <1>3

LEMMA SumsExist ==
  ASSUME NEW S, IsFiniteSet(S), NEW f, \A x \in S : f[x] \in Nat
  PROVE  \E g : SumsOf(f, S, g) /\ g \in [SUBSET S -> Nat]
<1> DEFINE Upto(k, g) ==
      /\ g \in [SUBSET S -> Nat]
      /\ \A s \in SUBSET S : Cardinality(s) <= k =>
           g[s] = IF s = {} THEN 0 ELSE f[One(s)] + g[s \ {One(s)}]
           N == {k \in Nat : ~ \E g : Upto(k, g)}
<1>1. \A s \in SUBSET S : /\ Cardinality(s) \in Nat /\ Cardinality(s) <= Cardinality(S)
                          /\ (Cardinality(s) = 0 <=> s = {})
  BY FS_Subset, FS_CardinalityType, FS_EmptySet
<1>2. ASSUME N # {} PROVE FALSE
  <2>1. PICK k \in N : \A m \in N : k <= m
    BY <1>2, LeastOf
  <2>2. CASE k = 0
    <3>1. Upto(0, [s \in SUBSET S |-> 0])
      BY <1>1
    <3> QED BY <2>1, <2>2, <3>1
  <2>3. CASE k # 0
    <3>1. k - 1 \in Nat /\ k - 1 \notin N
      <4> HIDE DEF Upto
      <4>1. k \in Nat
        BY <2>1
      <4>2. k - 1 \in Nat /\ ~(k <= k - 1)
        BY <2>3, <4>1
      <4> HIDE DEF N
      <4> QED BY <2>1, <4>2
    <3>2. PICK g : Upto(k - 1, g)
      BY <3>1
    <3> DEFINE h == [s \in SUBSET S |->
           IF Cardinality(s) = k /\ s # {} THEN f[One(s)] + g[s \ {One(s)}] ELSE g[s]]
    <3>3. ASSUME NEW s \in SUBSET S, s # {}
          PROVE  /\ s \ {One(s)} \in SUBSET S /\ f[One(s)] \in Nat
                 /\ Cardinality(s \ {One(s)}) = Cardinality(s) - 1
      BY <3>3, OneLess
    <3>4. h \in [SUBSET S -> Nat]
      BY <3>2, <3>3
    <3>5. ASSUME NEW s \in SUBSET S, Cardinality(s) <= k
          PROVE  h[s] = IF s = {} THEN 0 ELSE f[One(s)] + h[s \ {One(s)}]
      <4>1. CASE s = {}
        <5>1. h[s] = g[s] /\ Cardinality(s) <= k - 1
          BY <1>1, <2>3, <3>1, <4>1
        <5> QED BY <3>2, <4>1, <5>1
      <4>2. CASE s # {} /\ Cardinality(s) = k
        <5>1. h[s \ {One(s)}] = g[s \ {One(s)}]
          BY <3>3, <4>2, <2>1
        <5> HIDE DEF Upto
        <5> QED BY <4>2, <5>1
      <4>3. CASE s # {} /\ Cardinality(s) # k
        <5>1. Cardinality(s) <= k - 1 /\ Cardinality(s) \in Nat
          BY <1>1, <2>1, <3>5, <4>3
        <5>2. h[s] = g[s] /\ h[s \ {One(s)}] = g[s \ {One(s)}]
          BY <2>1, <3>3, <4>3, <5>1
        <5>3. g[s] = f[One(s)] + g[s \ {One(s)}]
          BY <3>2, <4>3, <5>1
        <5> QED BY <4>3, <5>2, <5>3
      <4> QED BY <4>1, <4>2, <4>3
    <3>6. Upto(k, h)
      BY <3>4, <3>5
    <3> QED BY <2>1, <3>6
  <2> QED BY <2>2, <2>3
<1>3. Cardinality(S) \in Nat
  BY <1>1
<1>4. PICK g : Upto(Cardinality(S), g)
  BY <1>2, <1>3
<1>5. g \in [SUBSET S -> Nat] /\ \A s \in SUBSET S :
        g[s] = IF s = {} THEN 0 ELSE f[One(s)] + g[s \ {One(s)}]
  BY <1>1, <1>4
<1>6. SumsOf(f, S, g)
  BY <1>5 DEF SumsOf
<1> QED BY <1>5, <1>6

\* the equation MapThenSumSet satisfies, and its type
LEMMA SumsEquation ==
  ASSUME NEW S, IsFiniteSet(S), NEW f, \A x \in S : f[x] \in Nat
  PROVE  /\ Sums(f, S) \in [SUBSET S -> Nat]
         /\ \A s \in SUBSET S :
              Sums(f, S)[s] = IF s = {} THEN 0 ELSE f[One(s)] + Sums(f, S)[s \ {One(s)}]
<1> DEFINE g == Sums(f, S)
<1>1. SumsOf(f, S, g)
  <2>1. \E h : SumsOf(f, S, h)
    BY SumsExist
  <2> QED BY <2>1, Zenon DEF Sums
<1> HIDE DEF g
<1>2. /\ g = [s \in SUBSET S |-> g[s]]
      /\ \A s \in SUBSET S :
           g[s] = IF s = {} THEN 0 ELSE f[One(s)] + g[s \ {One(s)}]
  BY <1>1, Zenon DEF SumsOf
<1> DEFINE N == {k \in Nat : \E s \in SUBSET S : Cardinality(s) = k /\ g[s] \notin Nat}
<1>3. ASSUME N # {} PROVE FALSE
  <2>1. PICK k \in N : \A m \in N : k <= m
    BY <1>3, LeastOf
  <2>2. PICK s \in SUBSET S : Cardinality(s) = k /\ g[s] \notin Nat
    BY <2>1
  <2>3. s # {}
    <3>1. g[{}] = 0 /\ 0 \in Nat
      BY <1>2
    <3> QED BY <2>2, <3>1
  <2>4. /\ One(s) \in S /\ s \ {One(s)} \in SUBSET S
        /\ k \in Nat \ {0} /\ Cardinality(s \ {One(s)}) = k - 1
    BY <2>2, <2>3, OneLess
  <2>5. k - 1 \in Nat /\ k - 1 \notin N
    BY <2>1, <2>4
  <2>6. g[s \ {One(s)}] \in Nat
    BY <2>4, <2>5
  <2>7. g[s] = f[One(s)] + g[s \ {One(s)}]
    BY <1>2, <2>3
  <2> QED BY <2>2, <2>4, <2>6, <2>7
<1>4. \A s \in SUBSET S : g[s] \in Nat
  <2>1. \A s \in SUBSET S : Cardinality(s) \in Nat
    BY FS_Subset, FS_CardinalityType
  <2> QED BY <1>3, <2>1
<1> QED BY <1>2, <1>4 DEF g

(***************************************************************************)
(* One more at d is one more in the sum, if d is in it.                    *)
(***************************************************************************)
LEMMA SumGrows ==
  ASSUME NEW S, IsFiniteSet(S), NEW f, NEW h, NEW d,
         \A x \in S : /\ f[x] \in Nat
                      /\ h[x] = f[x] + (IF x = d THEN 1 ELSE 0)
  PROVE  /\ SumOver(f, S) \in Nat
         /\ SumOver(h, S) = SumOver(f, S) + (IF d \in S THEN 1 ELSE 0)
<1> DEFINE F == Sums(f, S)
           H == Sums(h, S)
<1>0. F = Sums(f, S) /\ H = Sums(h, S)
  OBVIOUS
<1> HIDE DEF F, H
<1>1. /\ F \in [SUBSET S -> Nat]
      /\ \A s \in SUBSET S : F[s] = IF s = {} THEN 0 ELSE f[One(s)] + F[s \ {One(s)}]
  <2>1. \A x \in S : f[x] \in Nat
    OBVIOUS
  <2> QED BY <2>1, SumsEquation DEF F, H
<1>2. /\ H \in [SUBSET S -> Nat]
      /\ \A s \in SUBSET S : H[s] = IF s = {} THEN 0 ELSE h[One(s)] + H[s \ {One(s)}]
  <2>1. \A x \in S : h[x] \in Nat
    OBVIOUS
  <2> QED BY <2>1, SumsEquation DEF F, H
<1> DEFINE Grown(s) == H[s] = F[s] + (IF d \in s THEN 1 ELSE 0)
           N == {k \in Nat : \E s \in SUBSET S : Cardinality(s) = k /\ ~Grown(s)}
<1>3. ASSUME N # {} PROVE FALSE
  <2>1. PICK k \in N : \A m \in N : k <= m
    BY <1>3, LeastOf
  <2>2. PICK s \in SUBSET S : Cardinality(s) = k /\ ~Grown(s)
    BY <2>1
  <2>3. s # {}
    <3>1. F[{}] = 0 /\ H[{}] = 0
      BY <1>1, <1>2
    <3> QED BY <2>2, <3>1
  <2> DEFINE x == One(s)
             r == s \ {x}
  <2>4. /\ x \in s /\ x \in S /\ r \in SUBSET S
        /\ k \in Nat \ {0} /\ Cardinality(r) = k - 1
    BY <2>2, <2>3, OneLess
  <2>5. k - 1 \in Nat /\ k - 1 \notin N
    BY <2>1, <2>4
  <2>6. Grown(r)
    BY <2>4, <2>5
  <2>7. H[s] = h[x] + H[r] /\ F[s] = f[x] + F[r]
    BY <1>1, <1>2, <2>3
  <2>8. h[x] = f[x] + (IF x = d THEN 1 ELSE 0) /\ f[x] \in Nat /\ F[r] \in Nat /\ H[r] \in Nat
    BY <1>1, <1>2, <2>4
  <2>9. (d \in s <=> d = x \/ d \in r) /\ x \notin r
    BY <2>4
  <2> HIDE DEF x, r
  <2> QED BY <2>2, <2>6, <2>7, <2>8, <2>9
<1>4. Grown(S)
  <2>1. Cardinality(S) \in Nat
    BY FS_CardinalityType
  <2> QED BY <1>3, <2>1
<1> QED BY <1>0, <1>1, <1>4 DEF SumOver

OfAccount(a) == {x \in Txns : x.account = a}
Commits(a) == SumOver(committed, OfAccount(a))

LEMMA OvercountsAreSums ==
  NeverOvercounts <=> \A a \in Accounts :
    redis[a] # NoState => redis[a].count <= Commits(a)
<1>1. ASSUME NEW a
      PROVE  MapThenSumSet(LAMBDA x : committed[x], {x \in Txns : x.account = a}) = Commits(a)
  BY Zenon DEF MapThenSumSet, MapThenFoldSet, Commits, OfAccount, SumOver, Sums, SumsOf, One
<1> QED BY <1>1, Zenon DEF NeverOvercounts

(***************************************************************************)
(* No document, stored or in the hands of a live thread, counts more       *)
(* events than were committed for its account.                             *)
(***************************************************************************)
CountedIn(a, s) == s # NoState => s.count <= Commits(a)

CountInv ==
  /\ \A a \in Accounts : CountedIn(a, redis[a])
  /\ \A t \in Threads : pc[t] \in {"fold", "append"} /\ ~dry[t] =>
       CountedIn(account[t], prev[t])

LEMMA CommitsAreNat ==
  ASSUME IsFiniteSet(Txns), ScorerTypes, NEW a
  PROVE  Commits(a) \in Nat
<1>1. IsFiniteSet(OfAccount(a)) /\ OfAccount(a) \subseteq Txns
  BY FS_Subset DEF OfAccount
<1>2. \A x \in OfAccount(a) : committed[x] \in Nat
  BY <1>1 DEF ScorerTypes, ScorerTypeOK
<1>3. OfAccount(a) \in SUBSET OfAccount(a)
  OBVIOUS
<1>4. Sums(committed, OfAccount(a)) \in [SUBSET OfAccount(a) -> Nat]
  BY <1>1, <1>2, SumsEquation
<1> QED BY <1>3, <1>4 DEF Commits, SumOver

LEMMA OneMoreCommit ==
  ASSUME IsFiniteSet(Txns), ScorerTypes, NEW x \in Txns, NEW a,
         committed' = [committed EXCEPT ![x] = @ + 1]
  PROVE  Commits(a)' = Commits(a) + (IF x.account = a THEN 1 ELSE 0)
<1>1. IsFiniteSet(OfAccount(a)) /\ OfAccount(a) \subseteq Txns
  BY FS_Subset DEF OfAccount
<1>2. \A y \in OfAccount(a) : /\ committed[y] \in Nat
                               /\ committed'[y] = committed[y] + (IF y = x THEN 1 ELSE 0)
  BY <1>1 DEF ScorerTypes, ScorerTypeOK
<1>3. ASSUME NEW f, NEW h, f = committed, h = committed'
      PROVE  SumOver(h, OfAccount(a))
               = SumOver(f, OfAccount(a)) + (IF x \in OfAccount(a) THEN 1 ELSE 0)
  <2>1. \A y \in OfAccount(a) : f[y] \in Nat /\ h[y] = f[y] + (IF y = x THEN 1 ELSE 0)
    BY <1>2, <1>3
  <2> QED BY <1>1, <2>1, SumGrows
<1>4. x \in OfAccount(a) <=> x.account = a
  BY DEF OfAccount
<1> QED BY <1>3, <1>4 DEF Commits

LEMMA CountFrame ==
  ASSUME CountInv, UNCHANGED <<redis, committed>>,
         \A u \in Threads : pc'[u] \in {"fold", "append"} /\ ~dry'[u] =>
           /\ account'[u] \in Accounts
           /\ \/ prev'[u] = redis[account'[u]]
              \/ /\ pc[u] \in {"fold", "append"} /\ ~dry[u]
                 /\ prev'[u] = prev[u] /\ account'[u] = account[u]
  PROVE  CountInv'
<1>1. \A a, s : CountedIn(a, s) <=> (s # NoState => s.count <= Commits(a)')
  BY DEF CountedIn, Commits
<1>2. ASSUME NEW u \in Threads, pc'[u] \in {"fold", "append"}, ~dry'[u]
      PROVE  CountedIn(account'[u], prev'[u])
  BY <1>2 DEF CountInv
<1> QED BY <1>1, <1>2 DEF CountInv, CountedIn

LEMMA CountStep ==
  ASSUME IsFiniteSet(Txns), ScorerTypes, WellFormed, CountInv, NEW t \in Threads,
         ThreadStep(t)
  PROVE  CountInv'
<1> USE DEF ScorerTypes, ScorerTypeOK, StoreTypeOK
<1>1. CASE Receive(t)
  BY <1>1, CountFrame DEF Receive, WellFormed
<1>2. ASSUME NEW a \in Accounts, ReadState(t, a) PROVE CountInv'
  BY <1>2, CountFrame DEF ReadState, WellFormed
<1>3. ASSUME NEW x \in Txns, ScoreDry(t, x) PROVE CountInv'
  BY <1>3, CountFrame DEF ScoreDry, AfterResponse, WellFormed, historyVars
<1>4. ASSUME NEW x \in Txns, ScoreLive(t, x) PROVE CountInv'
  <2> DEFINE new == Scored(x, prev[t])
             b == x.account
             more(a) == Commits(a) + (IF a = b THEN 1 ELSE 0)
  <2>1. b = account[t] /\ b \in Accounts /\ prev[t] \in MaybeState
        /\ pc[t] = "fold" /\ ~dry[t]
    BY <1>4 DEF ScoreLive, Earliest, Mine, WellFormed
  <2>2. \A a : Commits(a) \in Nat
    BY CommitsAreNat
  <2>3. /\ redis' = [redis EXCEPT ![b] = MonotonicCas(redis[b], new)]
        /\ prev' = [prev EXCEPT ![t] = new]
        /\ committed' = [committed EXCEPT ![x] = @ + 1]
        /\ pc' = [pc EXCEPT ![t] = "append"]
        /\ UNCHANGED <<dry, account>>
    BY <1>4 DEF ScoreLive, CommitState
  <2>4. \A a : Commits(a)' = more(a)
    BY <2>3, OneMoreCommit
  <2>5. new.count = IF prev[t] = NoState THEN 1 ELSE prev[t].count + 1
    BY DEF Scored, WithScore, Advance, Singleton
  <2>6. prev[t] # NoState => prev[t].count \in Nat /\ prev[t].count <= Commits(b)
    BY <2>1 DEF CountInv, CountedIn, MaybeState, AccountState
  <2>7. new.count <= more(b)
    BY <2>2, <2>5, <2>6
  <2>8. \A a \in Accounts : redis[a] # NoState =>
          redis[a].count \in Nat /\ redis[a].count <= more(a)
    BY <2>2 DEF CountInv, CountedIn, MaybeState, AccountState
  <2>9. \A u \in Threads : pc[u] \in {"fold", "append"} /\ ~dry[u] /\ prev[u] # NoState =>
          prev[u].count <= more(account[u])
    <3>1. ASSUME NEW u \in Threads, pc[u] \in {"fold", "append"}, ~dry[u], prev[u] # NoState
          PROVE  prev[u].count <= more(account[u])
      <4>1. prev[u].count \in Nat /\ prev[u].count <= Commits(account[u])
        BY <3>1 DEF CountInv, CountedIn, MaybeState, AccountState
      <4> QED BY <2>2, <4>1
    <3> QED BY <3>1
  <2> HIDE DEF new, more
  <2>10. MonotonicCas(redis[b], new) \in {redis[b], new}
    BY DEF MonotonicCas
  <2>11. \A a \in Accounts : redis'[a] # NoState => redis'[a].count <= more(a)
    BY <2>1, <2>3, <2>7, <2>8, <2>10
  <2>12. \A u \in Threads : pc'[u] \in {"fold", "append"} /\ ~dry'[u] /\ prev'[u] # NoState =>
           prev'[u].count <= more(account'[u])
    BY <2>1, <2>3, <2>7, <2>9
  <2> QED BY <2>4, <2>11, <2>12 DEF CountInv, CountedIn
<1>5. CASE AppendEvent(t)
  BY <1>5, CountFrame DEF AppendEvent, AfterResponse, WellFormed, historyVars
<1>6. CASE AppendFails(t)
  BY <1>6, CountFrame DEF AppendFails, Finish, WellFormed, historyVars
<1>7. CASE Abort(t)
  BY <1>7, CountFrame DEF Abort, Finish, WellFormed, historyVars
<1>8. CASE Respond(t)
  BY <1>8, CountFrame DEF Respond, Finish, WellFormed, historyVars
<1> QED BY <1>1, <1>2, <1>3, <1>4, <1>5, <1>6, <1>7, <1>8 DEF ThreadStep

(***************************************************************************)
(* NeverOvercounts: however requests race, fail and are sent again, the    *)
(* stored txn_count of an account is at most the commits made for it.      *)
(* There are finitely many transactions, so that commits can be summed up. *)
(***************************************************************************)
THEOREM NoOvercount ==
  ASSUME IsFiniteSet(Txns)
  PROVE  ScorerSpec => []NeverOvercounts
<1>1. ScorerInit => CountInv
  BY DEF StoreInit, ScorerInit, CountInv, CountedIn
<1>2. ScorerTypes /\ WellFormed /\ CountInv /\ [ScorerNext]_scorerStoreVars => CountInv'
  <2> SUFFICES ASSUME ScorerTypes, WellFormed, CountInv, [ScorerNext]_scorerStoreVars
               PROVE  CountInv'
    OBVIOUS
  <2>1. ASSUME NEW t \in Threads, ThreadStep(t) PROVE CountInv'
    BY <2>1, CountStep
  <2>2. ASSUME NEW a \in Accounts, Expire(a) PROVE CountInv'
    <3>1. /\ redis' = [redis EXCEPT ![a] = NoState]
          /\ UNCHANGED <<pc, dry, account, prev, committed>>
      BY <2>2 DEF Expire, LoseKey, threadVars
    <3>2. \A b : Commits(b)' = Commits(b)
      BY <3>1 DEF Commits
    <3> QED BY <3>1, <3>2 DEF CountInv, CountedIn, ScorerTypes, StoreTypeOK
  <2>3. CASE UNCHANGED scorerStoreVars
    <3>1. UNCHANGED <<redis, pc, dry, account, prev, committed>>
      BY <2>3 DEF scorerStoreVars, scorerVars
    <3>2. \A b : Commits(b)' = Commits(b)
      BY <3>1 DEF Commits
    <3> QED BY <3>1, <3>2 DEF CountInv, CountedIn
  <2> QED BY <2>1, <2>2, <2>3 DEF ScorerNext
<1>3. CountInv => NeverOvercounts
  BY OvercountsAreSums DEF CountInv, CountedIn
<1> QED BY <1>1, <1>2, <1>3, ScorerTyping, PTL DEF ScorerSpec, scorerStoreVars
==============================================================================
