-------------------------- MODULE OnlineState_proofs --------------------------
(***************************************************************************)
(* Theorems about Pathway's state repair, alone (StateRepair) and beside   *)
(* the live requests (OnlineState): for any accounts, rows and requests,   *)
(* any number of kills and backfills, and keys that are lost at any time.  *)
(***************************************************************************)
EXTENDS OnlineState, Scorer_proofs, FiniteSetTheorems, SequenceTheorems

(***************************************************************************)
(* What the inductive invariant of the repair says.  Every document that   *)
(* Pathway holds or has handed on is a fold of staged rows of its account. *)
(***************************************************************************)
StagedDocument(a, s) ==
  s # NoState => /\ s.account = a /\ Coherent(s)
                 /\ s.anchor \in Rows /\ s.score = NoScore

\* either process: its accumulators are folds of the rows it has read
FoldsInv ==
  /\ IsFiniteSet(staged) /\ IsFiniteSet(saved.staged) /\ IsFiniteSet(read)
  /\ CountedOnce(staged, acc) /\ CountedOnce(saved.staged, saved.acc)
  /\ CountedOnce(read, fold)
  /\ read \cap unread = {}
  /\ \A a \in Accounts : /\ StagedDocument(a, acc[a])
                         /\ StagedDocument(a, saved.acc[a])
                         /\ StagedDocument(a, fold[a])

\* a backfill calls its observers for the accounts it has folded
CallsInv == \A k \in Sinks, a \in Accounts : <<k, a>> \in calls => fold[a] # NoState

(***************************************************************************)
(* What waits for a sink.  The newest emission of a group that did not     *)
(* change since is its accumulator; all that waits after a repair is.      *)
(***************************************************************************)
RedisQueueInv == \A a \in Accounts :
  /\ \A i \in DOMAIN toRedis[a] : StagedDocument(a, toRedis[a][i])
  /\ ~dirty[a] /\ toRedis[a] # <<>> => toRedis[a][Len(toRedis[a])] = acc[a]
  /\ dirty[a] => acc[a] # NoState
  /\ repaired[a] => /\ ~dirty[a] /\ acc[a] # NoState
                    /\ \A i \in DOMAIN toRedis[a] : toRedis[a][i] = acc[a]

MirrorQueueInv == \A a \in Accounts :
  /\ StagedDocument(a, mirror[a])
  /\ \A i \in DOMAIN toMirror[a] : StagedDocument(a, toMirror[a][i])

RepairInv ==
  RepairTypeOK /\ FoldsInv /\ CallsInv /\ RedisQueueInv /\ MirrorQueueInv
------------------------------------------------------------------------------

LEMMA RowsAreRows ==
  ASSUME NEW x \in Rows
  PROVE  /\ x \in Transaction /\ x.account \in Accounts
         /\ Singleton(x, NoScore) \in AccountState
         /\ StagedDocument(x.account, Singleton(x, NoScore))
         /\ Singleton(x, NoScore).count = 1
<1>1. x \in Transaction /\ x.account \in Accounts
  BY RowsAssumption DEF Transaction
<1>2. NoScore \in ScoreOf
  BY DEF ScoreOf
<1>3. /\ Singleton(x, NoScore) \in AccountState
      /\ Coherent(Singleton(x, NoScore))
  BY <1>1, <1>2, SingletonFold
<1>4. /\ Singleton(x, NoScore).account = x.account
      /\ Singleton(x, NoScore).anchor = x
      /\ Singleton(x, NoScore).score = NoScore
      /\ Singleton(x, NoScore).count = 1
  BY DEF Singleton
<1> QED BY <1>1, <1>3, <1>4 DEF StagedDocument

LEMMA MergedRows ==
  ASSUME NEW a \in Accounts, NEW s \in AccountState, NEW r \in AccountState,
         StagedDocument(a, s), StagedDocument(a, r)
  PROVE  /\ Merge(s, r) \in AccountState
         /\ StagedDocument(a, Merge(s, r))
         /\ Merge(s, r).count = s.count + r.count
<1>1. /\ s # NoState /\ r # NoState
  BY NoStateAssumption
<1>2. /\ s.account = a /\ Coherent(s) /\ s.anchor \in Rows /\ s.score = NoScore
      /\ r.account = a /\ Coherent(r) /\ r.anchor \in Rows /\ r.score = NoScore
  BY <1>1 DEF StagedDocument
<1>3. /\ Merge(s, r) \in AccountState /\ Coherent(Merge(s, r))
      /\ Merge(s, r).account = a
      /\ Merge(s, r).anchor \in {s.anchor, r.anchor}
  BY <1>2, MergeFold
<1>4. Merge(s, r).score = NoScore
  BY <1>2 DEF Merge, MergeLastBlock
<1>5. Merge(s, r).count = s.count + r.count
  BY DEF Merge
<1> QED BY <1>2, <1>3, <1>4, <1>5 DEF StagedDocument

(***************************************************************************)
(* A new row leaves a fold of one more row, whichever accumulator absorbs  *)
(* the other, in the streaming run as in a backfill.                       *)
(***************************************************************************)
LEMMA AbsorbFold ==
  ASSUME NEW accs \in [Accounts -> MaybeState], NEW x \in Rows,
         StagedDocument(x.account, accs[x.account]), NEW new \in Absorbed(accs, x)
  PROVE  /\ x.account \in Accounts /\ new \in AccountState
         /\ StagedDocument(x.account, new)
         /\ new.count = 1 + IF accs[x.account] = NoState THEN 0
                            ELSE accs[x.account].count
<1> DEFINE a == x.account
           row == Singleton(x, NoScore)
           old == accs[a]
<1>1. /\ a \in Accounts /\ row \in AccountState /\ StagedDocument(a, row)
      /\ row.count = 1
  BY RowsAreRows
<1>2. new \in IF old = NoState THEN {row} ELSE {Merge(old, row), Merge(row, old)}
  BY DEF Absorbed
<1>3. old \in MaybeState /\ StagedDocument(a, old)
  BY <1>1
<1> HIDE DEF row, a, old
<1>4. CASE old = NoState
  <2>1. new = row
    BY <1>2, <1>4
  <2>2. new.count = 1 + 0
    BY <1>1, <2>1
  <2> QED BY <1>1, <1>4, <2>1, <2>2 DEF a, old
<1>5. CASE old # NoState
  <2>1. old \in AccountState
    BY <1>3, <1>5 DEF MaybeState
  <2>2. old.count \in Nat
    BY <2>1 DEF AccountState
  <2>3. /\ new \in AccountState /\ StagedDocument(a, new)
        /\ new.count = 1 + old.count
    <3>1. CASE new = Merge(old, row)
      BY <1>1, <1>3, <2>1, <2>2, <3>1, MergedRows
    <3>2. CASE new = Merge(row, old)
      BY <1>1, <1>3, <2>1, <2>2, <3>2, MergedRows
    <3> QED BY <1>2, <1>5, <3>1, <3>2
  <2> QED BY <1>1, <1>5, <2>3 DEF a, old
<1> QED BY <1>4, <1>5

LEMMA AbsorbCounts ==
  ASSUME NEW accs \in [Accounts -> MaybeState], NEW rows, IsFiniteSet(rows),
         NEW x \in Rows, x \notin rows, CountedOnce(rows, accs),
         NEW new \in AccountState,
         new.count = 1 + IF accs[x.account] = NoState THEN 0
                         ELSE accs[x.account].count
  PROVE  /\ IsFiniteSet(rows \cup {x})
         /\ CountedOnce(rows \cup {x}, [accs EXCEPT ![x.account] = new])
<1> DEFINE a == x.account
           after == [accs EXCEPT ![a] = new]
<1>1. a \in Accounts /\ new # NoState
  BY RowsAreRows, NoStateAssumption
<1>2. after[a] = new /\ \A b \in Accounts : b # a => after[b] = accs[b]
  BY <1>1
<1>3. new.count = 1 + IF accs[a] = NoState THEN 0 ELSE accs[a].count
  OBVIOUS
<1> HIDE DEF after, a
<1>4. ASSUME NEW b \in Accounts
      PROVE  Cardinality({y \in rows \cup {x} : y.account = b})
               = IF after[b] = NoState THEN 0 ELSE after[b].count
  <2> DEFINE was == {y \in rows : y.account = b}
  <2>1. Cardinality(was) = IF accs[b] = NoState THEN 0 ELSE accs[b].count
    BY DEF CountedOnce
  <2>2. CASE b = a
    <3>1. {y \in rows \cup {x} : y.account = b} = was \cup {x} /\ x \notin was
      BY <2>2 DEF a
    <3>2. IsFiniteSet(was)
      BY FS_Subset
    <3> HIDE DEF was
    <3>3. Cardinality(was \cup {x}) = Cardinality(was) + 1
      BY <3>1, <3>2, FS_AddElement
    <3>4. Cardinality(was) \in Nat
      BY <3>2, FS_CardinalityType
    <3>5. new.count = 1 + Cardinality(was)
      BY <1>3, <2>1, <2>2
    <3>6. after[b] # NoState /\ after[b].count = Cardinality(was) + 1
      BY <1>1, <1>2, <2>2, <3>4, <3>5
    <3> QED BY <3>1, <3>3, <3>6
  <2>3. CASE b # a
    <3>1. {y \in rows \cup {x} : y.account = b} = was
      BY <2>3 DEF a
    <3> QED BY <1>2, <2>1, <2>3, <3>1
  <2> QED BY <2>2, <2>3
<1>5. CountedOnce(rows \cup {x}, after)
  BY <1>4 DEF CountedOnce
<1> QED BY <1>5, FS_AddElement DEF after, a
------------------------------------------------------------------------------
\* Every action of the repair keeps RepairInv

LEMMA ExportInv ==
  ASSUME RepairInv, NEW x \in Rows, Export(x)
  PROVE  RepairInv'
<1>1. /\ files' \in SUBSET Rows
      /\ UNCHANGED <<mirror, streamVars, backfillVars, repaired, backfilled>>
  BY DEF RepairInv, RepairTypeOK, Export
<1> QED BY <1>1 DEF streamVars, backfillVars, RepairInv, RepairTypeOK, FoldsInv,
                    CountedOnce, CallsInv, RedisQueueInv, MirrorQueueInv

LEMMA IngestInv ==
  ASSUME RepairInv, NEW x \in Rows, Ingest(x)
  PROVE  RepairInv'
<1> USE DEF RepairInv
<1> DEFINE a == x.account
<1>1. PICK new \in Absorbed(acc, x) : acc' = [acc EXCEPT ![a] = new]
  BY DEF Ingest
<1>2. acc \in [Accounts -> MaybeState]
  BY DEF RepairTypeOK
<1>3. StagedDocument(a, acc[a])
  BY RowsAreRows DEF FoldsInv
<1>4. /\ a \in Accounts /\ new \in AccountState
      /\ StagedDocument(a, new)
      /\ new.count = 1 + IF acc[a] = NoState THEN 0 ELSE acc[a].count
  BY <1>2, <1>3, AbsorbFold
<1>5. new # NoState /\ new \in MaybeState
  BY <1>4, NoStateAssumption DEF MaybeState
<1>6. /\ x \notin staged /\ staged' = staged \cup {x}
      /\ dirty' = [dirty EXCEPT ![a] = TRUE]
      /\ repaired' = [repaired EXCEPT ![a] = FALSE]
      /\ UNCHANGED <<files, mirror, toRedis, toMirror, saved, restarts,
                     backfillVars, backfilled>>
  BY DEF Ingest
<1>7. IsFiniteSet(staged') /\ CountedOnce(staged', acc')
  BY <1>1, <1>2, <1>4, <1>6, AbsorbCounts DEF FoldsInv
<1> HIDE DEF a
<1>8. /\ acc'[a] = new
      /\ \A b \in Accounts : b # a => /\ acc'[b] = acc[b] /\ dirty'[b] = dirty[b]
                                      /\ repaired'[b] = repaired[b]
      /\ dirty'[a] /\ ~repaired'[a]
  BY <1>1, <1>4, <1>6 DEF RepairTypeOK
<1>9. RepairTypeOK'
  BY <1>1, <1>4, <1>5, <1>6 DEF RepairTypeOK, backfillVars
<1>10. FoldsInv'
  <2>1. \A b \in Accounts : StagedDocument(b, acc'[b])
    BY <1>4, <1>8 DEF FoldsInv
  <2>2. UNCHANGED <<saved, read, unread, fold>>
    BY <1>6 DEF backfillVars
  <2>3. CountedOnce(saved.staged, saved.acc)' /\ CountedOnce(read, fold)'
    BY <2>2 DEF FoldsInv, CountedOnce
  <2>4. CountedOnce(staged, acc)'
    BY <1>7 DEF CountedOnce
  <2> QED BY <1>7, <2>1, <2>2, <2>3, <2>4 DEF FoldsInv
<1>11. RedisQueueInv'
  BY <1>5, <1>6, <1>8 DEF RedisQueueInv
<1>12. MirrorQueueInv' /\ CallsInv'
  BY <1>6 DEF MirrorQueueInv, CallsInv, backfillVars
<1> QED BY <1>9, <1>10, <1>11, <1>12

\* a queue with one more emission
LEMMA Appended ==
  ASSUME NEW q \in Seq(AccountState), NEW e \in AccountState
  PROVE  /\ Append(q, e) \in Seq(AccountState)
         /\ Append(q, e) # <<>>
         /\ Append(q, e)[Len(Append(q, e))] = e
         /\ \A i \in DOMAIN Append(q, e) :
              Append(q, e)[i] = e \/ (i \in DOMAIN q /\ Append(q, e)[i] = q[i])
  BY AppendProperties

\* a queue whose head was handled
LEMMA Handled ==
  ASSUME NEW q \in Seq(AccountState), q # <<>>
  PROVE  /\ Head(q) \in AccountState /\ Head(q) = q[1] /\ 1 \in DOMAIN q
         /\ Tail(q) \in Seq(AccountState)
         /\ Tail(q) # <<>> => Tail(q)[Len(Tail(q))] = q[Len(q)]
         /\ \A i \in DOMAIN Tail(q) :
              i + 1 \in DOMAIN q /\ Tail(q)[i] = q[i + 1]
  BY HeadTailProperties

LEMMA EmitInv ==
  ASSUME RepairInv, NEW a \in Accounts, Emit(a)
  PROVE  RepairInv'
<1> USE DEF RepairInv
<1> DEFINE e == acc[a]
<1>0. /\ dirty[a] /\ dirty' = [dirty EXCEPT ![a] = FALSE]
      /\ UNCHANGED <<files, mirror, staged, acc, saved, restarts, backfillVars,
                     repaired, backfilled>>
  BY DEF Emit
<1>1. e \in AccountState /\ StagedDocument(a, e)
  BY <1>0 DEF RepairTypeOK, MaybeState, FoldsInv, RedisQueueInv
<1>2. /\ toRedis' = [toRedis EXCEPT ![a] = Append(toRedis[a], e)]
      /\ toMirror' = [toMirror EXCEPT ![a] = Append(toMirror[a], e)]
  BY DEF Emit
<1>3. toRedis[a] \in Seq(AccountState) /\ toMirror[a] \in Seq(AccountState)
  BY DEF RepairTypeOK
<1>4. /\ toRedis'[a] = Append(toRedis[a], e)
      /\ toMirror'[a] = Append(toMirror[a], e)
      /\ ~dirty'[a]
      /\ \A b \in Accounts : b # a => /\ toRedis'[b] = toRedis[b]
                                      /\ toMirror'[b] = toMirror[b]
                                      /\ dirty'[b] = dirty[b]
  BY <1>0, <1>2 DEF RepairTypeOK
<1>5. RepairTypeOK'
  BY <1>0, <1>1, <1>2, <1>3, Appended DEF RepairTypeOK, backfillVars
<1>6. FoldsInv' /\ CallsInv'
  BY <1>0 DEF FoldsInv, CountedOnce, CallsInv, backfillVars
<1>7. RedisQueueInv'
  <2> SUFFICES ASSUME NEW b \in Accounts
      PROVE /\ \A i \in DOMAIN toRedis'[b] : StagedDocument(b, toRedis'[b][i])
            /\ ~dirty'[b] /\ toRedis'[b] # <<>>
                 => toRedis'[b][Len(toRedis'[b])] = acc[b]
            /\ dirty'[b] => acc[b] # NoState
            /\ repaired[b] => /\ ~dirty'[b] /\ acc[b] # NoState
                              /\ \A i \in DOMAIN toRedis'[b] :
                                   toRedis'[b][i] = acc[b]
    BY <1>0 DEF RedisQueueInv
  <2>1. CASE b = a
    <3> HIDE DEF e
    <3>1. /\ toRedis'[a][Len(toRedis'[a])] = e
          /\ \A i \in DOMAIN toRedis'[a] :
               \/ toRedis'[a][i] = e
               \/ i \in DOMAIN toRedis[a] /\ toRedis'[a][i] = toRedis[a][i]
      BY <1>1, <1>3, <1>4, Appended
    <3> QED BY <1>1, <1>4, <2>1, <3>1 DEF RedisQueueInv, e
  <2>2. CASE b # a
    BY <1>4, <2>2 DEF RedisQueueInv
  <2> QED BY <2>1, <2>2
<1>8. MirrorQueueInv'
  <2> SUFFICES ASSUME NEW b \in Accounts, NEW i \in DOMAIN toMirror'[b]
               PROVE  StagedDocument(b, toMirror'[b][i])
    BY <1>0 DEF MirrorQueueInv
  <2>1. CASE b = a
    <3> HIDE DEF e
    <3>1. \/ toMirror'[a][i] = e
          \/ i \in DOMAIN toMirror[a] /\ toMirror'[a][i] = toMirror[a][i]
      BY <1>1, <1>3, <1>4, <2>1, Appended
    <3> QED BY <1>1, <2>1, <3>1 DEF MirrorQueueInv
  <2>2. CASE b # a
    BY <1>4, <2>2 DEF MirrorQueueInv
  <2> QED BY <2>1, <2>2
<1> QED BY <1>5, <1>6, <1>7, <1>8

LEMMA ApplyRedisInv ==
  ASSUME RepairInv, NEW a \in Accounts, ApplyRedis(a)
  PROVE  RepairInv'
<1> USE DEF RepairInv
<1> DEFINE q == toRedis[a]
<1>1. q \in Seq(AccountState) /\ q # <<>>
  BY DEF RepairTypeOK, ApplyRedis
<1>2. /\ toRedis' = [toRedis EXCEPT ![a] = Tail(q)]
      /\ repaired' = [repaired EXCEPT ![a] = @ \/ (Len(q) = 1 /\ ~dirty[a])]
      /\ UNCHANGED <<files, mirror, staged, acc, dirty, toMirror, saved, restarts,
                     backfillVars>>
      /\ backfilled' \in [Accounts -> BOOLEAN]
  BY DEF ApplyRedis, RepairTypeOK
<1>3. /\ toRedis'[a] = Tail(q)
      /\ repaired'[a] = (repaired[a] \/ (Len(q) = 1 /\ ~dirty[a]))
      /\ \A b \in Accounts : b # a => /\ toRedis'[b] = toRedis[b]
                                      /\ repaired'[b] = repaired[b]
  BY <1>2 DEF RepairTypeOK
<1>4. /\ Tail(q) \in Seq(AccountState)
      /\ Tail(q) # <<>> => Tail(q)[Len(Tail(q))] = q[Len(q)]
      /\ \A i \in DOMAIN Tail(q) : i + 1 \in DOMAIN q /\ Tail(q)[i] = q[i + 1]
      /\ q[Len(q)] \in AccountState
      /\ Len(q) = 1 => Tail(q) = <<>>
  BY <1>1, Handled
<1>5. RepairTypeOK'
  BY <1>2, <1>4 DEF RepairTypeOK, backfillVars
<1>6. FoldsInv' /\ CallsInv'
  BY <1>2 DEF FoldsInv, CountedOnce, CallsInv, backfillVars
<1>7. RedisQueueInv'
  <2> SUFFICES ASSUME NEW b \in Accounts
      PROVE /\ \A i \in DOMAIN toRedis'[b] : StagedDocument(b, toRedis'[b][i])
            /\ ~dirty[b] /\ toRedis'[b] # <<>>
                 => toRedis'[b][Len(toRedis'[b])] = acc[b]
            /\ dirty[b] => acc[b] # NoState
            /\ repaired'[b] => /\ ~dirty[b] /\ acc[b] # NoState
                               /\ \A i \in DOMAIN toRedis'[b] :
                                    toRedis'[b][i] = acc[b]
    BY <1>2 DEF RedisQueueInv
  <2>1. CASE b = a
    <3>1. \A i \in DOMAIN q : StagedDocument(a, q[i])
      BY DEF RedisQueueInv
    <3>2. ~dirty[a] => q[Len(q)] = acc[a]
      BY <1>1 DEF RedisQueueInv
    <3>3. repaired[a] => /\ ~dirty[a] /\ acc[a] # NoState
                         /\ \A i \in DOMAIN q : q[i] = acc[a]
      BY DEF RedisQueueInv
    <3>4. dirty[a] => acc[a] # NoState
      BY DEF RedisQueueInv
    <3>5. ~dirty[a] => acc[a] # NoState
      BY <1>4, <3>2, NoStateAssumption
    <3>6. Len(q) = 1 => DOMAIN Tail(q) = {}
      BY <1>4
    <3> HIDE DEF q
    <3> QED BY <1>3, <1>4, <2>1, <3>1, <3>2, <3>3, <3>4, <3>5, <3>6
  <2>2. CASE b # a
    BY <1>3, <2>2 DEF RedisQueueInv
  <2> QED BY <2>1, <2>2
<1>8. MirrorQueueInv'
  BY <1>2 DEF MirrorQueueInv
<1> QED BY <1>5, <1>6, <1>7, <1>8

LEMMA ApplyMirrorInv ==
  ASSUME RepairInv, NEW a \in Accounts, ApplyMirror(a)
  PROVE  RepairInv'
<1> USE DEF RepairInv
<1> DEFINE q == toMirror[a]
<1>1. q \in Seq(AccountState) /\ q # <<>>
  BY DEF RepairTypeOK, ApplyMirror
<1>2. /\ toMirror' = [toMirror EXCEPT ![a] = Tail(q)]
      /\ mirror' = [mirror EXCEPT ![a] = MonotonicUpsert(mirror[a], Head(q))]
      /\ UNCHANGED <<files, staged, acc, dirty, toRedis, saved, restarts,
                     backfillVars, repaired, backfilled>>
  BY DEF ApplyMirror
<1>3. /\ Head(q) \in AccountState /\ Head(q) = q[1] /\ 1 \in DOMAIN q
      /\ Tail(q) \in Seq(AccountState)
      /\ \A i \in DOMAIN Tail(q) : i + 1 \in DOMAIN q /\ Tail(q)[i] = q[i + 1]
  BY <1>1, Handled
<1>4. StagedDocument(a, Head(q)) /\ StagedDocument(a, mirror[a])
  BY <1>3 DEF MirrorQueueInv
<1> DEFINE new == MonotonicUpsert(mirror[a], Head(q))
<1>5. new \in {mirror[a], Head(q)}
  BY DEF MonotonicUpsert
<1>6. new \in MaybeState /\ StagedDocument(a, new)
  BY <1>3, <1>4, <1>5 DEF RepairTypeOK, MaybeState
<1> HIDE DEF new
<1>7. RepairTypeOK'
  BY <1>2, <1>3, <1>6 DEF RepairTypeOK, new, backfillVars
<1>8. FoldsInv' /\ CallsInv'
  BY <1>2 DEF FoldsInv, CountedOnce, CallsInv, backfillVars
<1>9. RedisQueueInv'
  BY <1>2 DEF RedisQueueInv
<1>10. MirrorQueueInv'
  <2>1. /\ mirror'[a] = new /\ toMirror'[a] = Tail(q)
        /\ \A b \in Accounts : b # a => /\ mirror'[b] = mirror[b]
                                        /\ toMirror'[b] = toMirror[b]
    BY <1>2 DEF RepairTypeOK, new
  <2>2. \A i \in DOMAIN q : StagedDocument(a, q[i])
    BY DEF MirrorQueueInv
  <2> HIDE DEF q
  <2> QED BY <1>3, <1>6, <2>1, <2>2 DEF MirrorQueueInv
<1> QED BY <1>7, <1>8, <1>9, <1>10

LEMMA SnapshotInv ==
  ASSUME RepairInv, Snapshot
  PROVE  RepairInv'
<1>1. RepairTypeOK'
  BY DEF RepairInv, RepairTypeOK, Snapshot, backfillVars
<1>2. FoldsInv' /\ CallsInv'
  BY DEF RepairInv, FoldsInv, CountedOnce, CallsInv, Snapshot, backfillVars
<1>3. RedisQueueInv' /\ MirrorQueueInv'
  BY DEF RepairInv, RedisQueueInv, MirrorQueueInv, Snapshot
<1> QED BY <1>1, <1>2, <1>3 DEF RepairInv

(***************************************************************************)
(* A kill takes the accumulators and the set of read rows back together,   *)
(* so each row is still counted once.                                      *)
(***************************************************************************)
LEMMA RestartInv ==
  ASSUME RepairInv, Restart
  PROVE  RepairInv'
<1>1. RepairTypeOK'
  BY DEF RepairInv, RepairTypeOK, Restart, backfillVars
<1>2. FoldsInv' /\ CallsInv'
  BY DEF RepairInv, FoldsInv, CountedOnce, CallsInv, Restart, backfillVars
<1>3. RedisQueueInv' /\ MirrorQueueInv'
  BY DEF RepairInv, RedisQueueInv, MirrorQueueInv, Restart
<1> QED BY <1>1, <1>2, <1>3 DEF RepairInv

\* a backfill does not touch what the streaming run holds
LEMMA BackfillLeavesStream ==
  ASSUME RepairInv, UNCHANGED <<streamVars, repaired>>
  PROVE  RedisQueueInv'
  BY DEF RepairInv, streamVars, RedisQueueInv

LEMMA BackfillReadsInv ==
  ASSUME RepairInv, NEW x \in Rows, BackfillReads(x)
  PROVE  RepairInv'
<1> USE DEF RepairInv
<1> DEFINE a == x.account
           all == Sinks \X {b \in Accounts : fold'[b] # NoState}
<1>1. PICK new \in Absorbed(fold, x) : fold' = [fold EXCEPT ![a] = new]
  BY DEF BackfillReads
<1>2. fold \in [Accounts -> MaybeState]
  BY DEF RepairTypeOK
<1>3. StagedDocument(a, fold[a])
  BY RowsAreRows DEF FoldsInv
<1>4. /\ a \in Accounts /\ new \in AccountState
      /\ StagedDocument(a, new)
      /\ new.count = 1 + IF fold[a] = NoState THEN 0 ELSE fold[a].count
  BY <1>2, <1>3, AbsorbFold
<1>5. /\ x \in unread /\ unread' = unread \ {x} /\ read' = read \cup {x}
      /\ calls' \in {{}, all}
      /\ UNCHANGED <<files, mirror, streamVars, backfills, repaired, backfilled>>
  BY DEF BackfillReads
<1>6. x \notin read
  BY <1>5 DEF FoldsInv
<1>7. IsFiniteSet(read') /\ CountedOnce(read', fold')
  BY <1>1, <1>2, <1>4, <1>5, <1>6, AbsorbCounts DEF FoldsInv
<1> HIDE DEF a
<1>8. fold' \in [Accounts -> MaybeState]
  BY <1>1, <1>2, <1>4 DEF MaybeState
<1>9. \A b \in Accounts : StagedDocument(b, fold'[b])
  BY <1>1, <1>2, <1>4 DEF FoldsInv
<1>10. calls' \subseteq all
  BY <1>5
<1>11. RepairTypeOK'
  BY <1>5, <1>8, <1>10 DEF RepairTypeOK, streamVars
<1>12. FoldsInv'
  <2>1. UNCHANGED <<staged, acc, saved>> /\ read' \cap unread' = {}
    BY <1>5 DEF streamVars, FoldsInv
  <2>2. CountedOnce(saved.staged, saved.acc)' /\ CountedOnce(staged, acc)'
    BY <2>1 DEF FoldsInv, CountedOnce
  <2>3. CountedOnce(read, fold)'
    BY <1>7 DEF CountedOnce
  <2> QED BY <1>7, <1>9, <2>1, <2>2, <2>3 DEF FoldsInv
<1>13. CallsInv'
  BY <1>10 DEF CallsInv
<1>14. MirrorQueueInv'
  BY <1>5 DEF MirrorQueueInv, streamVars
<1> QED BY <1>5, <1>11, <1>12, <1>13, <1>14, BackfillLeavesStream

LEMMA BackfillMirrorInv ==
  ASSUME RepairInv, NEW a \in Accounts, BackfillMirror(a)
  PROVE  RepairInv'
<1> USE DEF RepairInv
<1> DEFINE new == MonotonicUpsert(mirror[a], fold[a])
<1>1. /\ mirror' = [mirror EXCEPT ![a] = new]
      /\ calls' \subseteq calls
      /\ UNCHANGED <<files, streamVars, unread, read, fold, backfills, repaired,
                     backfilled>>
  BY DEF BackfillMirror
<1>2. /\ fold[a] \in MaybeState /\ StagedDocument(a, fold[a])
      /\ mirror[a] \in MaybeState /\ StagedDocument(a, mirror[a])
  BY DEF RepairTypeOK, FoldsInv, MirrorQueueInv
<1>3. new \in {mirror[a], fold[a]}
  BY DEF MonotonicUpsert
<1> HIDE DEF new
<1>4. RepairTypeOK'
  BY <1>1, <1>2, <1>3 DEF RepairTypeOK, streamVars
<1>5. FoldsInv' /\ CallsInv'
  BY <1>1 DEF FoldsInv, CountedOnce, CallsInv, streamVars
<1>6. MirrorQueueInv'
  BY <1>1, <1>2, <1>3 DEF MirrorQueueInv, RepairTypeOK, streamVars
<1> QED BY <1>1, <1>4, <1>5, <1>6, BackfillLeavesStream

\* the steps that start, write to Redis and end
LEMMA BackfillRestInv ==
  ASSUME RepairInv,
         BackfillStart \/ (\E a \in Accounts : BackfillRedis(a)) \/ BackfillEnds
  PROVE  RepairInv'
<1> USE DEF RepairInv
<1>1. UNCHANGED <<files, mirror, streamVars, repaired>>
  BY DEF BackfillStart, BackfillRedis, BackfillEnds
<1>2. RedisQueueInv' /\ MirrorQueueInv'
  BY <1>1, BackfillLeavesStream DEF MirrorQueueInv, streamVars
<1>3. CASE BackfillStart
  BY <1>2, <1>3 DEF BackfillStart, streamVars, RepairTypeOK, FoldsInv, CountedOnce,
                    CallsInv
<1>4. CASE \E a \in Accounts : BackfillRedis(a)
  BY <1>2, <1>4 DEF BackfillRedis, streamVars, RepairTypeOK, FoldsInv, CountedOnce,
                    CallsInv
<1>5. CASE BackfillEnds
  <2>1. /\ unread' = {} /\ read' = {} /\ fold' = EmptyAcc /\ calls' = {}
        /\ UNCHANGED <<backfills, backfilled>>
    BY <1>5 DEF BackfillEnds
  <2>2. RepairTypeOK'
    BY <1>1, <2>1 DEF RepairTypeOK, streamVars, EmptyAcc, MaybeState
  <2>3. CallsInv'
    BY <2>1 DEF CallsInv
  <2>4. CountedOnce(read, fold)' /\ IsFiniteSet(read')
    <3>1. \A a \in Accounts : {x \in {} : x.account = a} = {}
      OBVIOUS
    <3> QED BY <2>1, <3>1, FS_EmptySet DEF CountedOnce, EmptyAcc
  <2>5. CountedOnce(saved.staged, saved.acc)' /\ CountedOnce(staged, acc)'
    BY <1>1 DEF FoldsInv, CountedOnce, streamVars
  <2>6. FoldsInv'
    BY <1>1, <2>1, <2>4, <2>5 DEF FoldsInv, streamVars, EmptyAcc, StagedDocument
  <2> QED BY <1>2, <2>2, <2>3, <2>6
<1> QED BY <1>3, <1>4, <1>5

LEMMA RepairExpireInv ==
  ASSUME RepairInv, NEW a \in Accounts, RepairExpire(a)
  PROVE  RepairInv'
<1>1. RepairTypeOK'
  BY DEF RepairInv, RepairTypeOK, RepairExpire, streamVars, backfillVars
<1>2. FoldsInv' /\ CallsInv'
  BY DEF RepairInv, FoldsInv, CountedOnce, CallsInv, RepairExpire, streamVars,
         backfillVars
<1>3. RedisQueueInv' /\ MirrorQueueInv'
  BY DEF RepairInv, RepairTypeOK, RedisQueueInv, MirrorQueueInv, RepairExpire,
         streamVars
<1> QED BY <1>1, <1>2, <1>3 DEF RepairInv

LEMMA RepairInitInv == RepairInit => RepairInv
<1> SUFFICES ASSUME RepairInit PROVE RepairInv
  OBVIOUS
<1>1. RepairTypeOK
  BY DEF RepairInit, RepairTypeOK, EmptyAcc, MaybeState
<1>2. FoldsInv
  <2>1. /\ staged = {} /\ saved.staged = {} /\ read = {}
        /\ \A a \in Accounts : /\ acc[a] = NoState /\ saved.acc[a] = NoState
                               /\ fold[a] = NoState
    BY DEF RepairInit, EmptyAcc
  <2>2. \A a \in Accounts : {x \in {} : x.account = a} = {}
    OBVIOUS
  <2> QED BY <2>1, <2>2, FS_EmptySet DEF FoldsInv, CountedOnce, StagedDocument
<1>3. RedisQueueInv /\ MirrorQueueInv /\ CallsInv
  BY DEF RepairInit, CallsInv, RedisQueueInv, MirrorQueueInv, StagedDocument
<1> QED BY <1>1, <1>2, <1>3 DEF RepairInv

LEMMA RepairStepInv ==
  ASSUME RepairInv, RepairStep
  PROVE  RepairInv'
<1>1. ASSUME NEW x \in Rows, Export(x) \/ Ingest(x) \/ BackfillReads(x)
      PROVE  RepairInv'
  BY <1>1, ExportInv, IngestInv, BackfillReadsInv
<1>2. ASSUME NEW a \in Accounts, Emit(a) \/ ApplyRedis(a) \/ ApplyMirror(a)
      PROVE  RepairInv'
  BY <1>2, EmitInv, ApplyRedisInv, ApplyMirrorInv
<1>3. ASSUME NEW a \in Accounts, BackfillRedis(a) \/ BackfillMirror(a)
      PROVE  RepairInv'
  BY <1>3, BackfillRestInv, BackfillMirrorInv
<1> QED BY <1>1, <1>2, <1>3, SnapshotInv, RestartInv, BackfillRestInv
        DEF RepairStep, StreamStep, BackfillStep
------------------------------------------------------------------------------
\* What the two sinks do with the emissions

(***************************************************************************)
(* What the streaming run's observer hands to the script is a staged       *)
(* document of the account; when it completes a repair, it is the          *)
(* accumulator.                                                            *)
(***************************************************************************)
LEMMA ApplyRedisCommits ==
  ASSUME RepairInv, StoreTypeOK, NEW a \in Accounts, ApplyRedis(a)
  PROVE  \E new \in AccountState :
           /\ StagedDocument(a, new)
           /\ redis' = [redis EXCEPT ![a] = MonotonicCas(redis[a], new)]
           /\ repaired'[a] => new = acc[a]
           /\ \A b \in Accounts : b # a => repaired'[b] = repaired[b]
<1> DEFINE q == toRedis[a]
<1>1. q \in Seq(AccountState) /\ q # <<>>
  BY DEF RepairInv, RepairTypeOK, ApplyRedis
<1>2. Head(q) \in AccountState /\ Head(q) = q[1] /\ 1 \in DOMAIN q
  BY <1>1, Handled
<1>3. redis' = [redis EXCEPT ![a] = MonotonicCas(redis[a], Head(q))]
  BY DEF ApplyRedis, CommitState
<1>4. /\ repaired'[a] = (repaired[a] \/ (Len(q) = 1 /\ ~dirty[a]))
      /\ \A b \in Accounts : b # a => repaired'[b] = repaired[b]
  BY DEF ApplyRedis, RepairInv, RepairTypeOK
<1>5. StagedDocument(a, Head(q))
  BY <1>2 DEF RepairInv, RedisQueueInv
<1>6. repaired[a] => Head(q) = acc[a]
  BY <1>2 DEF RepairInv, RedisQueueInv
<1>7. Len(q) = 1 /\ ~dirty[a] => Head(q) = acc[a]
  BY <1>1, <1>2 DEF RepairInv, RedisQueueInv
<1> QED BY <1>2, <1>3, <1>4, <1>5, <1>6, <1>7

(***************************************************************************)
(* A backfill hands over the document of its own fold.                     *)
(***************************************************************************)
LEMMA BackfillCommits ==
  ASSUME RepairInv, NEW a \in Accounts, BackfillRedis(a)
  PROVE  /\ fold[a] \in AccountState /\ StagedDocument(a, fold[a])
         /\ redis' = [redis EXCEPT ![a] = MonotonicCas(redis[a], fold[a])]
         /\ UNCHANGED <<acc, repaired>>
<1>1. <<"redis", a>> \in calls /\ "redis" \in Sinks
  BY DEF BackfillRedis, Sinks
<1>2. fold[a] \in AccountState /\ StagedDocument(a, fold[a])
  BY <1>1 DEF RepairInv, RepairTypeOK, FoldsInv, CallsInv, MaybeState
<1> QED BY <1>2 DEF BackfillRedis, CommitState, streamVars

LEMMA MirrorStep ==
  ASSUME RepairInv, NEW a \in Accounts, ApplyMirror(a) \/ BackfillMirror(a),
         NEW b \in Accounts, mirror[b] # NoState
  PROVE  mirror'[b] # NoState /\ mirror'[b].updated >= mirror[b].updated
<1>1. PICK doc \in AccountState :
        mirror' = [mirror EXCEPT ![a] = MonotonicUpsert(mirror[a], doc)]
  <2>1. CASE ApplyMirror(a)
    BY <2>1, Handled DEF RepairInv, RepairTypeOK, ApplyMirror
  <2>2. CASE BackfillMirror(a)
    <3>1. <<"mirror", a>> \in calls /\ "mirror" \in Sinks
      BY <2>2 DEF BackfillMirror, Sinks
    <3>2. fold[a] \in AccountState
      BY <3>1 DEF RepairInv, RepairTypeOK, CallsInv, MaybeState
    <3> QED BY <2>2, <3>2 DEF BackfillMirror
  <2> QED BY <2>1, <2>2
<1> DEFINE new == MonotonicUpsert(mirror[a], doc)
<1>2. mirror[a] \in MaybeState /\ mirror[b] \in AccountState
  BY DEF RepairInv, RepairTypeOK, MaybeState
<1>3. mirror' = [mirror EXCEPT ![a] = new]
  BY <1>1
<1>4. b = a => new # NoState /\ new.updated >= mirror[a].updated
  BY <1>2, NoStateAssumption DEF MonotonicUpsert, AccountState
<1>5. mirror[b].updated \in Nat
  BY <1>2 DEF AccountState
<1> HIDE DEF new
<1> QED BY <1>3, <1>4, <1>5 DEF RepairInv, RepairTypeOK

\* of all the steps of the repair, only the observers' write the mirror
LEMMA MirrorWrites ==
  ASSUME RepairInv, RepairStep
  PROVE  \A b \in Accounts : mirror[b] # NoState =>
           mirror'[b] # NoState /\ mirror'[b].updated >= mirror[b].updated
<1>0. ASSUME UNCHANGED mirror
      PROVE  \A b \in Accounts : mirror[b] # NoState =>
               mirror'[b] # NoState /\ mirror'[b].updated >= mirror[b].updated
  <2>1. \A b \in Accounts : mirror[b] # NoState => mirror[b].updated \in Nat
    BY DEF RepairInv, RepairTypeOK, MaybeState, AccountState
  <2> QED BY <1>0, <2>1
<1>1. ASSUME NEW x \in Rows, Export(x) \/ Ingest(x) \/ BackfillReads(x)
      PROVE  UNCHANGED mirror
  BY <1>1 DEF Export, Ingest, BackfillReads
<1>2. ASSUME NEW a \in Accounts, Emit(a) \/ ApplyRedis(a) \/ BackfillRedis(a)
      PROVE  UNCHANGED mirror
  BY <1>2 DEF Emit, ApplyRedis, BackfillRedis
<1>3. Snapshot \/ Restart \/ BackfillStart \/ BackfillEnds => UNCHANGED mirror
  BY DEF Snapshot, Restart, BackfillStart, BackfillEnds
<1> QED BY <1>0, <1>1, <1>2, <1>3, MirrorStep DEF RepairStep, StreamStep, BackfillStep

\* the steps that leave Redis alone
LEMMA RedisUntouched ==
  ASSUME RepairStep, \A a \in Accounts : ~ApplyRedis(a) /\ ~BackfillRedis(a)
  PROVE  UNCHANGED <<redis, backfilled>>
  BY DEF RepairStep, StreamStep, BackfillStep, Export, Ingest, Emit, ApplyMirror,
         Snapshot, Restart, BackfillStart, BackfillReads, BackfillMirror, BackfillEnds

LEMMA StutterInv ==
  ASSUME RepairInv, UNCHANGED repairVars
  PROVE  RepairInv'
<1> USE DEF RepairInv, repairVars, streamVars, backfillVars
<1>1. RepairTypeOK'
  BY DEF RepairTypeOK
<1>2. FoldsInv' /\ CallsInv'
  BY DEF FoldsInv, CountedOnce, CallsInv
<1>3. RedisQueueInv' /\ MirrorQueueInv'
  BY DEF RedisQueueInv, MirrorQueueInv
<1> QED BY <1>1, <1>2, <1>3

(***************************************************************************)
(* An account that counts as repaired keeps its accumulator: a step that   *)
(* changes it takes the mark away.                                         *)
(***************************************************************************)
LEMMA RepairedKeepsFold ==
  ASSUME RepairInv, RepairStep, NEW a \in Accounts, repaired'[a],
         \A b \in Accounts : ~ApplyRedis(b)
  PROVE  repaired[a] /\ acc'[a] = acc[a]
<1>1. ASSUME NEW x \in Rows, Ingest(x) PROVE repaired[a] /\ acc'[a] = acc[a]
  <2>1. a # x.account
    BY <1>1, RowsAreRows DEF Ingest, RepairInv, RepairTypeOK
  <2> QED BY <1>1, <2>1, RowsAreRows DEF Ingest, RepairInv, RepairTypeOK
<1>2. ASSUME NEW b \in Accounts, Emit(b) \/ ApplyMirror(b)
      PROVE  repaired[a] /\ acc'[a] = acc[a]
  BY <1>2 DEF Emit, ApplyMirror
<1>3. Snapshot => repaired[a] /\ acc'[a] = acc[a]
  BY DEF Snapshot
<1>4. ~Restart
  BY DEF Restart
<1>5. BackfillStep \/ (\E x \in Rows : Export(x)) => UNCHANGED <<streamVars, repaired>>
  BY DEF Export, BackfillStep, BackfillStart, BackfillReads, BackfillRedis,
         BackfillMirror, BackfillEnds
<1> QED BY <1>1, <1>2, <1>3, <1>4, <1>5 DEF RepairStep, StreamStep, streamVars
------------------------------------------------------------------------------
\* Pathway alone

RepairedInv ==
  /\ StoreTypeOK
  /\ \A a \in Accounts : repaired[a] =>
       /\ redis[a] # NoState
       /\ \/ redis[a] = acc[a]
          \/ redis[a].updated > acc[a].updated
          \/ redis[a].updated = acc[a].updated /\ backfilled[a]

LEMMA RepairedStep ==
  ASSUME RepairInv, RepairedInv, [RepairNext]_repairStoreVars
  PROVE  RepairedInv'
<1> USE DEF RepairedInv
<1>1. ASSUME NEW a \in Accounts, ApplyRedis(a) PROVE RepairedInv'
  <2>1. PICK new \in AccountState :
          /\ redis' = [redis EXCEPT ![a] = MonotonicCas(redis[a], new)]
          /\ repaired'[a] => new = acc[a]
          /\ \A b \in Accounts : b # a => repaired'[b] = repaired[b]
    BY <1>1, ApplyRedisCommits
  <2>2. redis[a] \in MaybeState
    BY DEF StoreTypeOK
  <2> DEFINE after == MonotonicCas(redis[a], new)
  <2>3. after \in {redis[a], new} /\ after # NoState
    BY <2>2, CasStores
  <2>4. after = new \/ after.updated > new.updated
    BY DEF MonotonicCas
  <2>5. acc' = acc /\ \A b \in Accounts : b # a => backfilled'[b] = backfilled[b]
    BY <1>1 DEF ApplyRedis, RepairInv, RepairTypeOK
  <2> HIDE DEF after
  <2>6. redis' = [redis EXCEPT ![a] = after]
    BY <2>1 DEF after
  <2>7. StoreTypeOK'
    BY <2>2, <2>3, <2>6 DEF StoreTypeOK, MaybeState
  <2> QED BY <2>1, <2>3, <2>4, <2>5, <2>6, <2>7 DEF StoreTypeOK
<1>2. ASSUME NEW a \in Accounts, BackfillRedis(a) PROVE RepairedInv'
  <2> DEFINE after == MonotonicCas(redis[a], fold[a])
  <2>1. fold[a] \in AccountState /\ UNCHANGED <<acc, repaired>>
    BY <1>2, BackfillCommits
  <2>2. redis[a] \in MaybeState
    BY DEF StoreTypeOK
  <2>3. /\ after \in {redis[a], fold[a]} /\ after # NoState
        /\ redis[a] # NoState => after.updated >= redis[a].updated
    BY <2>1, <2>2, CasStores
  <2>4. redis' = [redis EXCEPT ![a] = after]
    BY <1>2, BackfillCommits
  <2> HIDE DEF after
  <2>5. redis'[a] = after /\ \A b \in Accounts : b # a => redis'[b] = redis[b]
    BY <2>4 DEF StoreTypeOK
  <2>6. /\ backfilled'[a] = (backfilled[a] \/ after = fold[a])
        /\ \A b \in Accounts : b # a => backfilled'[b] = backfilled[b]
    BY <1>2, <2>5 DEF BackfillRedis, RepairInv, RepairTypeOK
  <2>7. StoreTypeOK'
    BY <2>1, <2>2, <2>3, <2>4 DEF StoreTypeOK, MaybeState
  <2>8. ASSUME repaired[a]
        PROVE  \/ after = acc[a]
               \/ after.updated > acc[a].updated
               \/ after.updated = acc[a].updated /\ backfilled'[a]
    <3>1. CASE after = redis[a]
      BY <2>6, <2>8, <3>1
    <3>2. CASE after = fold[a]
      <4>1. redis[a] \in AccountState /\ acc[a] \in AccountState
        BY <2>2, <2>8 DEF MaybeState, RepairInv, RepairTypeOK, RedisQueueInv
      <4>2. /\ redis[a].updated \in Nat /\ acc[a].updated \in Nat
            /\ after.updated \in Nat
        BY <2>1, <3>2, <4>1 DEF AccountState
      <4>3. redis[a].updated >= acc[a].updated
        BY <2>8, <4>2
      <4>4. after.updated >= redis[a].updated
        BY <2>3, <2>8
      <4>5. backfilled'[a]
        BY <2>6, <3>2
      <4>6. after.updated > acc[a].updated \/ after.updated = acc[a].updated
        BY <4>2, <4>3, <4>4
      <4> QED BY <4>5, <4>6
    <3> QED BY <2>3, <3>1, <3>2
  <2> QED BY <2>1, <2>3, <2>5, <2>6, <2>7, <2>8
<1>3. ASSUME NEW a \in Accounts, RepairExpire(a) PROVE RepairedInv'
  <2>1. \A b \in Accounts : b # a => backfilled'[b] = backfilled[b]
    BY <1>3 DEF RepairExpire, RepairInv, RepairTypeOK
  <2> QED BY <1>3, <2>1 DEF RepairExpire, LoseKey, StoreTypeOK, MaybeState,
                            RepairInv, RepairTypeOK, streamVars
<1>4. CASE RepairStep /\ \A a \in Accounts : ~ApplyRedis(a) /\ ~BackfillRedis(a)
  BY <1>4, RepairedKeepsFold, RedisUntouched DEF StoreTypeOK
<1>5. CASE UNCHANGED repairStoreVars
  BY <1>5 DEF repairStoreVars, repairVars, streamVars, StoreTypeOK
<1> QED BY <1>1, <1>2, <1>3, <1>4, <1>5 DEF RepairNext

(***************************************************************************)
(* The inductive invariant of the repair: its types, its folds and what    *)
(* waits for its sinks.                                                    *)
(***************************************************************************)
THEOREM RepairInvariant == RepairSpec => [](RepairInv /\ RepairedInv)
<1>1. RepairInit => RepairInv /\ RepairedInv
  <2>1. RepairInit => RepairedInv
    BY DEF RepairInit, StoreInit, RepairedInv, StoreTypeOK, MaybeState
  <2> QED BY <2>1, RepairInitInv
<1>2. RepairInv /\ RepairedInv /\ [RepairNext]_repairStoreVars
        => (RepairInv /\ RepairedInv)'
  <2> SUFFICES ASSUME RepairInv, RepairedInv, [RepairNext]_repairStoreVars
               PROVE  RepairInv' /\ RepairedInv'
    OBVIOUS
  <2>1. RepairInv'
    <3>1. CASE UNCHANGED repairStoreVars
      BY <3>1, StutterInv DEF repairStoreVars
    <3> QED BY <3>1, RepairStepInv, RepairExpireInv DEF RepairNext
  <2> QED BY <2>1, RepairedStep
<1> QED BY <1>1, <1>2, PTL DEF RepairSpec

(***************************************************************************)
(* RepairedIsFold: kills never make an accumulator of the streaming run or *)
(* of a backfill count a row twice or miss one it read, and an account     *)
(* whose newest emission the streaming run's observer handled has in Redis *)
(* that fold, a document with a later clock, or one a backfill stored with *)
(* the same clock.                                                         *)
(***************************************************************************)
THEOREM RepairIsExact == RepairSpec => []RepairedIsFold
<1>1. RepairInv /\ RepairedInv => RepairedIsFold
  BY DEF RepairInv, FoldsInv, RedisQueueInv, RepairedInv, RepairedIsFold
<1> QED BY <1>1, RepairInvariant, PTL

(***************************************************************************)
(* MirrorNeverBackInTime: no kill, backfill or order of emissions takes a  *)
(* row of gold.account_state back in time or deletes it.                   *)
(***************************************************************************)
THEOREM MirrorMonotonic == RepairSpec => MirrorNeverBackInTime
<1> DEFINE Kept == \A a \in Accounts : mirror[a] # NoState =>
       mirror'[a] # NoState /\ mirror'[a].updated >= mirror[a].updated
<1>1. RepairInv /\ [RepairNext]_repairStoreVars => [Kept]_mirror
  <2> SUFFICES ASSUME RepairInv, [RepairNext]_repairStoreVars
               PROVE  [Kept]_mirror
    OBVIOUS
  <2>1. CASE RepairStep
    BY <2>1, MirrorWrites
  <2>2. CASE \E a \in Accounts : RepairExpire(a)
    BY <2>2 DEF RepairExpire
  <2>3. CASE UNCHANGED repairStoreVars
    BY <2>3 DEF repairStoreVars, repairVars
  <2> QED BY <2>1, <2>2, <2>3 DEF RepairNext
<1> QED BY <1>1, RepairInvariant, PTL DEF RepairSpec, MirrorNeverBackInTime
------------------------------------------------------------------------------
\* Pathway beside the live requests

\* no request takes a document away
LEMMA ThreadKeepsKey ==
  ASSUME ScorerTypes, WellFormed, NEW t \in Threads, ThreadStep(t),
         NEW a \in Accounts, redis[a] # NoState
  PROVE  redis'[a] # NoState
<1>1. ASSUME NEW x \in Txns, ScoreLive(t, x) PROVE redis'[a] # NoState
  <2> DEFINE new == Scored(x, prev[t])
  <2>1. /\ x.account \in Accounts /\ prev[t] \in MaybeState
        /\ DocumentOf(x.account, prev[t]) /\ redis[x.account] \in MaybeState
    BY <1>1 DEF ScoreLive, Earliest, Mine, WellFormed, ScorerTypes, StoreTypeOK,
                ScorerTypeOK
  <2>2. new \in AccountState
    BY <2>1, ScoredFold
  <2> HIDE DEF new
  <2>3. MonotonicCas(redis[x.account], new) # NoState
    BY <2>1, <2>2, CasStores
  <2>4. redis' = [redis EXCEPT ![x.account] = MonotonicCas(redis[x.account], new)]
    BY <1>1 DEF ScoreLive, CommitState, new
  <2> QED BY <2>3, <2>4 DEF ScorerTypes, StoreTypeOK
<1>2. CASE UNCHANGED redis
  BY <1>2
<1> QED BY <1>1, <1>2 DEF ThreadStep, Receive, ReadState, ScoreDry, AppendEvent,
                          AppendFails, Abort, Respond

(***************************************************************************)
(* The inductive invariant of the composition: each part's own, over the   *)
(* documents they share.  Neither part disturbs what the other relies on:  *)
(* both store coherent documents of the account through the same CAS.      *)
(***************************************************************************)
OnlineInv ==
  ScorerTypes /\ WellFormed /\ DurableInv /\ RepairInv /\ RepairIsEffective

LEMMA OnlineThreadStep ==
  ASSUME OnlineInv, NEW t \in Threads, ThreadStep(t), UNCHANGED repairVars
  PROVE  OnlineInv' /\ NotBack
<1> USE DEF OnlineInv
<1>1. ScorerTypes' /\ WellFormed' /\ NotBack
  BY ThreadStepInv
<1>2. DurableInv'
  BY DurableStep
<1>3. RepairInv'
  BY StutterInv
<1>4. RepairIsEffective'
  <2> SUFFICES ASSUME NEW a \in Accounts, repaired[a]
               PROVE  /\ acc[a] # NoState /\ redis'[a] # NoState
                      /\ redis'[a].updated >= acc[a].updated
    BY DEF RepairIsEffective, repairVars, streamVars
  <2>1. /\ acc[a] # NoState /\ redis[a] # NoState
        /\ redis[a].updated >= acc[a].updated
    BY DEF RepairIsEffective
  <2>2. redis'[a] # NoState
    BY <2>1, ThreadKeepsKey
  <2>3. redis'[a].updated >= redis[a].updated
    BY <1>1, <2>1, <2>2 DEF NotBack
  <2>4. /\ redis[a].updated \in Nat /\ redis'[a].updated \in Nat
        /\ acc[a].updated \in Nat
    BY <1>1, <2>1, <2>2
       DEF ScorerTypes, StoreTypeOK, RepairInv, RepairTypeOK, MaybeState, AccountState
  <2> QED BY <2>1, <2>2, <2>3, <2>4
<1> QED BY <1>1, <1>2, <1>3, <1>4

LEMMA OnlineRepairStep ==
  ASSUME OnlineInv, RepairStep, UNCHANGED scorerVars
  PROVE  OnlineInv' /\ NotBack
<1> USE DEF OnlineInv
<1>1. RepairInv'
  BY RepairStepInv
<1>2. DurableInv'
  BY DEF scorerVars, DurableInv, AnsweredIsDurable
<1>3. ASSUME NEW a \in Accounts, ApplyRedis(a) \/ BackfillRedis(a)
      PROVE  ScorerTypes' /\ WellFormed' /\ RepairIsEffective' /\ NotBack
  <2>1. PICK new \in AccountState :
          /\ StagedDocument(a, new)
          /\ redis' = [redis EXCEPT ![a] = MonotonicCas(redis[a], new)]
          /\ repaired'[a] => new = acc[a] \/ repaired[a]
          /\ \A b \in Accounts : b # a => repaired'[b] = repaired[b]
    BY <1>3, ApplyRedisCommits, BackfillCommits DEF ScorerTypes
  <2> DEFINE after == MonotonicCas(redis[a], new)
  <2>2. redis[a] \in MaybeState /\ DocumentOf(a, redis[a])
    BY DEF ScorerTypes, StoreTypeOK, WellFormed
  <2>3. /\ after \in {redis[a], new} /\ after # NoState
        /\ redis[a] # NoState => after.updated >= redis[a].updated
        /\ after.updated >= new.updated
    BY <2>2, CasStores
  <2>4. DocumentOf(a, new)
    BY NoStateAssumption, <2>1 DEF StagedDocument, DocumentOf
  <2> HIDE DEF after
  <2>5. redis' = [redis EXCEPT ![a] = after]
    BY <2>1 DEF after
  <2>6. after \in MaybeState /\ DocumentOf(a, after)
    BY <2>2, <2>3, <2>4 DEF MaybeState
  <2>7. ScorerTypes'
    BY <2>5, <2>6 DEF ScorerTypes, StoreTypeOK, ScorerTypeOK, scorerVars
  <2>8. WellFormed'
    BY <2>5, <2>6 DEF WellFormed, ScorerTypes, StoreTypeOK, scorerVars
  <2>9. NotBack
    BY <2>3, <2>5, StoredComparable DEF NotBack, ScorerTypes, StoreTypeOK
  <2>10. RepairIsEffective'
    <3>1. acc' = acc
      BY <1>3, BackfillCommits DEF ApplyRedis
    <3>2. CASE repaired[a]
      <4>1. /\ acc[a] # NoState /\ redis[a] # NoState
            /\ redis[a].updated >= acc[a].updated
        BY <3>2 DEF RepairIsEffective
      <4>2. redis[a] \in AccountState /\ acc[a] \in AccountState /\ after \in AccountState
        BY <2>2, <2>3, <4>1 DEF MaybeState, RepairInv, RepairTypeOK
      <4>3. after.updated >= redis[a].updated
        BY <2>3, <4>1
      <4> HIDE DEF OnlineInv
      <4>4. after.updated >= acc[a].updated
        BY <4>1, <4>2, <4>3 DEF AccountState
      <4> QED BY <2>1, <2>3, <2>5, <3>1, <4>1, <4>4
              DEF OnlineInv, RepairIsEffective, ScorerTypes, StoreTypeOK
    <3>3. CASE ~repaired[a]
      <4>1. repaired'[a] => acc[a] # NoState /\ after.updated >= acc[a].updated
        BY <2>1, <2>3, <3>3, NoStateAssumption
      <4> QED BY <2>1, <2>3, <2>5, <3>1, <4>1
              DEF RepairIsEffective, ScorerTypes, StoreTypeOK
    <3> QED BY <3>2, <3>3
  <2> QED BY <2>7, <2>8, <2>9, <2>10
<1>4. CASE \A a \in Accounts : ~ApplyRedis(a) /\ ~BackfillRedis(a)
  <2>1. UNCHANGED redis
    BY <1>4, RedisUntouched
  <2>2. ScorerTypes' /\ WellFormed'
    BY <2>1 DEF scorerVars, ScorerTypes, StoreTypeOK, ScorerTypeOK, WellFormed
  <2>3. RepairIsEffective'
    BY <1>4, <2>1, RepairedKeepsFold DEF RepairIsEffective
  <2>4. NotBack
    BY <2>1, StoredComparable DEF NotBack, ScorerTypes
  <2> QED BY <1>1, <1>2, <2>2, <2>3, <2>4
<1> QED BY <1>1, <1>2, <1>3, <1>4

LEMMA OnlineExpire ==
  ASSUME OnlineInv, NEW a \in Accounts, Expire(a), RepairExpire(a)
  PROVE  OnlineInv' /\ NotBack
<1> USE DEF OnlineInv
<1>1. ScorerTypes' /\ WellFormed' /\ NotBack
  BY ExpireInv
<1>2. DurableInv'
  BY DEF Expire, threadVars, DurableInv, AnsweredIsDurable
<1>3. RepairInv'
  BY RepairExpireInv
<1>4. RepairIsEffective'
  BY DEF RepairExpire, LoseKey, RepairIsEffective, ScorerTypes, StoreTypeOK,
         RepairInv, RepairTypeOK, streamVars
<1> QED BY <1>1, <1>2, <1>3, <1>4

LEMMA OnlineStep ==
  ASSUME OnlineInv, [OnlineNext]_onlineVars
  PROVE  OnlineInv' /\ [NotBack]_redis
<1>1. CASE UNCHANGED onlineVars
  <2>1. UNCHANGED <<redis, repairVars>> /\ UNCHANGED scorerVars
    BY <1>1 DEF onlineVars
  <2>2. ScorerTypes' /\ WellFormed' /\ DurableInv'
    BY <2>1 DEF OnlineInv, scorerVars, ScorerTypes, StoreTypeOK, ScorerTypeOK,
                WellFormed, DurableInv, AnsweredIsDurable
  <2>3. RepairInv'
    BY <2>1, StutterInv DEF OnlineInv
  <2>4. RepairIsEffective'
    BY <2>1 DEF OnlineInv, repairVars, streamVars, RepairIsEffective
  <2> QED BY <2>1, <2>2, <2>3, <2>4 DEF OnlineInv
<1> QED BY <1>1, OnlineThreadStep, OnlineRepairStep, OnlineExpire DEF OnlineNext

(***************************************************************************)
(* The inductive invariant of the online state: that of the scorer's       *)
(* requests, that of the repair, and RepairIsEffective over both.          *)
(***************************************************************************)
THEOREM OnlineInvariant == OnlineSpec => []OnlineInv
<1>1. OnlineInit => OnlineInv
  <2> SUFFICES ASSUME OnlineInit PROVE OnlineInv
    OBVIOUS
  <2>1. ScorerTypes /\ WellFormed
    BY DEF OnlineInit, StoreInit, ScorerInit, ScorerTypes, StoreTypeOK,
           ScorerTypeOK, WellFormed, DocumentOf, MaybeState
  <2>2. DurableInv
    BY DEF OnlineInit, ScorerInit, DurableInv, AnsweredIsDurable
  <2>3. RepairInv
    BY RepairInitInv DEF OnlineInit
  <2>4. RepairIsEffective
    BY DEF OnlineInit, RepairInit, RepairIsEffective
  <2> QED BY <2>1, <2>2, <2>3, <2>4 DEF OnlineInv
<1>2. OnlineInv /\ [OnlineNext]_onlineVars => OnlineInv'
  BY OnlineStep
<1> QED BY <1>1, <1>2, PTL DEF OnlineSpec

(***************************************************************************)
(* OnlineTypeOK: the two writers of the store, interleaved at every step,  *)
(* never hold or store anything but account states.                        *)
(***************************************************************************)
THEOREM OnlineTyping == OnlineSpec => []OnlineTypeOK
<1>1. OnlineInv => OnlineTypeOK
  BY DEF OnlineInv, OnlineTypeOK, ScorerTypes, RepairInv
<1> QED BY <1>1, OnlineInvariant, PTL

(***************************************************************************)
(* StoredCoherent and AnsweredIsDurable also hold with Pathway repairing   *)
(* the documents the requests race for.                                    *)
(***************************************************************************)
THEOREM OnlineCoherence == OnlineSpec => [](StoredCoherent /\ AnsweredIsDurable)
<1>1. OnlineInv => StoredCoherent /\ AnsweredIsDurable
  BY DEF OnlineInv, WellFormed, StoredCoherent, DocumentOf, CoherentOrNone,
         DurableInv
<1> QED BY <1>1, OnlineInvariant, PTL

(***************************************************************************)
(* RepairIsEffective: a completed repair stays effective whatever the live *)
(* requests do, until the key is lost or a new row is read.                *)
(***************************************************************************)
THEOREM RepairEffective == OnlineSpec => []RepairIsEffective
<1>1. OnlineInv => RepairIsEffective
  BY DEF OnlineInv
<1> QED BY <1>1, OnlineInvariant, PTL

(***************************************************************************)
(* MirrorIsStagedOnly: what only a live request knows (a score, a          *)
(* transaction that was never staged) does not reach gold.account_state.   *)
(***************************************************************************)
THEOREM MirrorStaged == OnlineSpec => []MirrorIsStagedOnly
<1>1. OnlineInv => MirrorIsStagedOnly
  BY DEF OnlineInv, RepairInv, MirrorQueueInv, StagedDocument, MirrorIsStagedOnly
<1> QED BY <1>1, OnlineInvariant, PTL

(***************************************************************************)
(* NeverBackInTime: neither writer of the store, nor any interleaving of   *)
(* both, takes an account back in time.                                    *)
(***************************************************************************)
THEOREM OnlineNeverBackInTime == OnlineSpec => NeverBackInTime
<1>1. OnlineInv /\ [OnlineNext]_onlineVars => [NotBack]_redis
  BY OnlineStep
<1> QED BY <1>1, OnlineInvariant, PTL DEF OnlineSpec, NeverBackInTime, NotBack
==============================================================================
