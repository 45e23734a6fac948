---------------------------- MODULE Replay_proofs -----------------------------
(***************************************************************************)
(* Theorems about event time and about the replay producer, for any files, *)
(* batch sizes, limits and threads, and any number of runs, failures and   *)
(* lost keys.                                                              *)
(***************************************************************************)
EXTENDS Replay, Scorer_proofs

\* Event time

\* what floor division means
LEMMA Quotient ==
  ASSUME NEW m \in Nat, NEW c \in Nat \ {0}
  PROVE  m \div c \in Nat /\ c * (m \div c) <= m /\ m < c * (m \div c) + c
OBVIOUS

LEMMA ProductGrows ==
  ASSUME NEW c \in Nat \ {0}, NEW x \in Nat, NEW y \in Nat, x <= y
  PROVE  c * x <= c * y
OBVIOUS

LEMMA QuotientBelow ==
  ASSUME NEW m \in Nat, NEW c \in Nat \ {0}, NEW b \in Nat, m < c * b
  PROVE  m \div c < b
<1> DEFINE q == m \div c
<1>1. q \in Nat /\ c * q <= m
  BY Quotient
<1>2. ASSUME b <= q PROVE FALSE
  <2>1. c * b <= c * q
    BY <1>1, <1>2, ProductGrows
  <2>2. QED
    BY <1>1, <2>1
<1>3. QED
  BY <1>1, <1>2

LEMMA QuotientGrows ==
  ASSUME NEW m \in Nat, NEW n \in Nat, NEW c \in Nat \ {0}, m + c <= n
  PROVE  m \div c < n \div c
<1> DEFINE k == m \div c
           l == n \div c
<1>1. k \in Nat /\ c * k <= m
  BY Quotient
<1>2. l \in Nat /\ n < c * l + c
  BY Quotient
<1>3. ASSUME l <= k PROVE FALSE
  <2>1. c * l <= c * k
    BY <1>1, <1>2, <1>3, ProductGrows
  <2>2. QED
    BY <1>1, <1>2, <2>1
<1>4. QED
  BY <1>1, <1>2, <1>3

\* a row's place in its hour stays within the hour
LEMMA WithinHour ==
  ASSUME NEW c \in Nat \ {0}, NEW q \in 1..c
  PROVE  /\ (q - 1) * HourUs \in Nat
         /\ ((q - 1) * HourUs) \div c \in Nat
         /\ ((q - 1) * HourUs) \div c < HourUs
<1> USE HourAssumption
<1>1. q - 1 \in Nat /\ q - 1 <= c - 1 /\ c \in Nat \ {0}
  OBVIOUS
<1>2. (q - 1) * HourUs \in Nat
  BY <1>1
<1>3. HourUs * (q - 1) <= HourUs * (c - 1)
  BY <1>1, ProductGrows
<1>4. HourUs * (c - 1) = c * HourUs - HourUs
  BY <1>1
<1>5. HourUs * (q - 1) = (q - 1) * HourUs
  BY <1>1
<1>6. c * HourUs \in Nat
  BY <1>1
<1>7. (q - 1) * HourUs < c * HourUs
  BY <1>2, <1>3, <1>4, <1>5, <1>6
<1>8. QED
  BY <1>1, <1>2, <1>7, Quotient, QuotientBelow

LEMMA QuotientMonotone ==
  ASSUME NEW m \in Nat, NEW n \in Nat, NEW c \in Nat \ {0}, m <= n
  PROVE  m \div c <= n \div c
<1> DEFINE k == m \div c
           l == n \div c
<1>1. k \in Nat /\ c * k <= m
  BY Quotient
<1>2. l \in Nat /\ n < c * l + c
  BY Quotient
<1>3. ASSUME l + 1 <= k PROVE FALSE
  <2>1. c * (l + 1) <= c * k
    BY <1>1, <1>2, <1>3, ProductGrows
  <2>2. c * (l + 1) = c * l + c
    BY <1>2
  <2> QED BY <1>1, <1>2, <2>1, <2>2
<1> QED BY <1>1, <1>2, <1>3

Earlier(x, y) == ~NotBefore(x, y)

\* a row's place among those of its step
Peers(f, n, i) == {j \in 1..n : f[j].step = f[i].step}
Place(f, n, i) == Cardinality({j \in Peers(f, n, i) : j <= i})

LEMMA PlaceInStep ==
  ASSUME NEW f, NEW n \in Nat, NEW i \in 1..n
  PROVE  /\ Cardinality(Peers(f, n, i)) \in Nat \ {0}
         /\ Place(f, n, i) \in 1..Cardinality(Peers(f, n, i))
<1> DEFINE P == Peers(f, n, i)
           Q == {j \in P : j <= i}
<1>1. IsFiniteSet(P) /\ IsFiniteSet(Q) /\ Q \subseteq P /\ i \in Q
  <2>1. IsFiniteSet(1..n) /\ P \subseteq 1..n
    BY FS_Interval DEF Peers
  <2> QED BY <2>1, FS_Subset DEF Peers
<1> HIDE DEF P, Q
<1>2. Cardinality(Q) \in Nat /\ Cardinality(P) \in Nat /\ Cardinality(Q) <= Cardinality(P)
  BY <1>1, FS_CardinalityType, FS_Subset
<1>3. Cardinality(Q) # 0
  BY <1>1, FS_EmptySet
<1> QED BY <1>2, <1>3 DEF Place, P, Q

LEMMA PlacesGrow ==
  ASSUME NEW f, NEW n \in Nat, NEW i \in 1..n, NEW j \in 1..n, i <= j,
         f[i].step = f[j].step
  PROVE  Peers(f, n, i) = Peers(f, n, j) /\ Place(f, n, i) <= Place(f, n, j)
<1>1. Peers(f, n, i) = Peers(f, n, j)
  BY DEF Peers
<1> DEFINE P == {k \in Peers(f, n, i) : k <= i}
           Q == {k \in Peers(f, n, j) : k <= j}
<1>2. P \subseteq Q
  BY <1>1 DEF Peers
<1>3. IsFiniteSet(Q)
  <2>1. IsFiniteSet(1..n) /\ Q \subseteq 1..n
    BY FS_Interval DEF Peers
  <2> QED BY <2>1, FS_Subset
<1>4. Cardinality(P) <= Cardinality(Q)
  <2> HIDE DEF P, Q
  <2> QED BY <1>2, <1>3, FS_Subset
<1> QED BY <1>1, <1>4 DEF Place

LEMMA EventFields ==
  ASSUME NEW f, NEW n, NEW i
  PROVE  LET x == EventOf(f, n, i) IN
         /\ x.id = i /\ x.account = f[i].account /\ x.amount = f[i].amount
         /\ x.ts = DeriveEventTs(f[i].step, Place(f, n, i), Cardinality(Peers(f, n, i)))
BY DEF EventOf, Place, Peers

(***************************************************************************)
(* The order of time is the order of the rows, however many there are.     *)
(***************************************************************************)
LEMMA RowOrder ==
  ASSUME NEW f \in Files, NEW n \in Nat, n <= Len(f),
         NEW i \in 1..n, NEW j \in 1..n, i < j
  PROVE  Earlier(EventOf(f, n, i), EventOf(f, n, j))
<1> USE HourAssumption
<1> DEFINE s == f[i].step
           t == f[j].step
           c == Cardinality(Peers(f, n, i))
           d == Cardinality(Peers(f, n, j))
           q == Place(f, n, i)
           r == Place(f, n, j)
<1>1. s \in Nat \ {0} /\ t \in Nat \ {0} /\ s <= t
  <2>1. f \in Seq([account : Accounts, step : Nat \ {0}, amount : Nat])
    BY FilesAssumption
  <2>2. Len(f) \in Nat /\ DOMAIN f = 1..Len(f) /\ i \in DOMAIN f /\ j \in DOMAIN f /\ i <= j
    BY <2>1
  <2>3. f[i].step <= f[j].step
    BY <2>2, FilesAssumption
  <2> DEFINE R == [account : Accounts, step : Nat \ {0}, amount : Nat]
  <2>4. \A row \in R : row.step \in Nat \ {0}
    OBVIOUS
  <2> HIDE DEF R
  <2>6. f \in Seq(R)
    BY <2>1 DEF R
  <2>7. f[i] \in R /\ f[j] \in R
    BY <2>2, <2>6
  <2>5. f[i].step \in Nat \ {0} /\ f[j].step \in Nat \ {0}
    BY <2>4, <2>7
  <2> QED BY <2>3, <2>5
<1>2. c \in Nat \ {0} /\ d \in Nat \ {0} /\ q \in 1..c /\ r \in 1..d
  BY PlaceInStep
<1>3. s = t => c = d /\ q <= r
  BY PlacesGrow
<1> DEFINE a == (s - 1) * HourUs
           b == (t - 1) * HourUs
           u == ((q - 1) * HourUs) \div c
           v == ((r - 1) * HourUs) \div d
<1>4. /\ EventOf(f, n, i).ts = DeriveEventTs(s, q, c) /\ EventOf(f, n, i).id = i
      /\ EventOf(f, n, j).ts = DeriveEventTs(t, r, d) /\ EventOf(f, n, j).id = j
  BY EventFields
<1> HIDE DEF s, t, c, d, q, r
<1>5. /\ u \in Nat /\ u < HourUs /\ v \in Nat
      /\ (q - 1) * HourUs \in Nat /\ (r - 1) * HourUs \in Nat
  BY <1>2, WithinHour
<1>6. DeriveEventTs(s, q, c) = a + u /\ DeriveEventTs(t, r, d) = b + v
  <2>1. (IF c > 1 THEN c ELSE 1) = c /\ (IF d > 1 THEN d ELSE 1) = d
    BY <1>2
  <2> QED BY <2>1 DEF DeriveEventTs
<1>7. a \in Nat /\ b \in Nat
  BY <1>1
<1>8. CASE s < t
  <2>1. HourUs * s <= HourUs * (t - 1)
    BY <1>1, <1>8, ProductGrows
  <2>2. HourUs * s = a + HourUs /\ HourUs * (t - 1) = b
    BY <1>1
  <2> HIDE DEF a, b, u, v
  <2>3. a + u < b + v
    BY <1>5, <1>7, <2>1, <2>2
  <2> QED BY <1>4, <1>5, <1>6, <1>7, <2>3 DEF Earlier, NotBefore
<1>9. CASE s = t
  <2>1. HourUs * (q - 1) <= HourUs * (r - 1)
    BY <1>2, <1>3, <1>9, ProductGrows
  <2>2. (q - 1) * HourUs <= (r - 1) * HourUs
    <3>1. (q - 1) * HourUs = HourUs * (q - 1) /\ (r - 1) * HourUs = HourUs * (r - 1)
      BY <1>2
    <3> QED BY <2>1, <3>1
  <2>3. u <= v /\ a = b
    BY <1>2, <1>3, <1>5, <1>9, <2>2, QuotientMonotone
  <2> HIDE DEF a, b, u, v
  <2>4. a + u <= b + v
    BY <1>5, <1>7, <2>3
  <2> QED BY <1>4, <1>5, <1>6, <1>7, <2>4 DEF Earlier, NotBefore
<1> QED BY <1>1, <1>8, <1>9

(***************************************************************************)
(* derive_event_ts_us is what its docstring says: a later row of a step,   *)
(* and any row of a later step, has a later timestamp, so timestamps are   *)
(* unique and row order is time order.                                     *)
(***************************************************************************)
THEOREM RowsFollowInTime ==
  ASSUME NEW s \in Nat \ {0}, NEW t \in Nat \ {0},
         NEW c \in 1..HourUs, NEW d \in 1..HourUs,
         NEW q \in 1..c, NEW r \in 1..d,
         s < t \/ (s = t /\ c = d /\ q < r)
  PROVE  DeriveEventTs(s, q, c) < DeriveEventTs(t, r, d)
<1> USE HourAssumption
<1> DEFINE i == ((q - 1) * HourUs) \div c
           j == ((r - 1) * HourUs) \div d
<1>1. i \in Nat /\ i < HourUs /\ j \in Nat
  BY WithinHour
<1>2. /\ DeriveEventTs(s, q, c) = (s - 1) * HourUs + i
      /\ DeriveEventTs(t, r, d) = (t - 1) * HourUs + j
  <2>1. (IF c > 1 THEN c ELSE 1) = c /\ (IF d > 1 THEN d ELSE 1) = d
    OBVIOUS
  <2>2. QED
    BY <2>1 DEF DeriveEventTs
<1> DEFINE a == (s - 1) * HourUs
           b == (t - 1) * HourUs
<1>3. a \in Nat /\ b \in Nat
  OBVIOUS
<1>4. CASE s < t
  <2>1. HourUs * s <= HourUs * (t - 1)
    BY <1>4, ProductGrows
  <2>2. HourUs * s = a + HourUs /\ HourUs * (t - 1) = b
    OBVIOUS
  <2>3. QED
    BY <1>1, <1>2, <1>3, <2>1, <2>2
<1>5. CASE s = t /\ c = d /\ q < r
  <2>1. (q - 1) * HourUs \in Nat /\ (r - 1) * HourUs \in Nat
    BY WithinHour
  <2>2. HourUs * q <= HourUs * (r - 1)
    BY <1>5, ProductGrows
  <2>3. HourUs * q = (q - 1) * HourUs + HourUs /\ HourUs * (r - 1) = (r - 1) * HourUs
    OBVIOUS
  <2>4. (q - 1) * HourUs + c <= (r - 1) * HourUs
    BY <2>1, <2>2, <2>3
  <2>5. i < j
    BY <1>5, <2>1, <2>4, QuotientGrows
  <2>6. QED
    BY <1>1, <1>2, <1>3, <1>5, <2>5
<1>6. QED
  BY <1>4, <1>5

(***************************************************************************)
(* derive_step_from_ts_us is the inverse at hour granularity: live requests*)
(* get back the step a row's timestamp was derived from.                   *)
(***************************************************************************)
THEOREM StepRoundTrip ==
  ASSUME NEW s \in Nat \ {0}, NEW c \in 1..HourUs, NEW q \in 1..c
  PROVE  DeriveStepFromTs(DeriveEventTs(s, q, c)) = s
<1> USE HourAssumption
<1> DEFINE i == ((q - 1) * HourUs) \div c
           ts == DeriveEventTs(s, q, c)
           hours == ts \div HourUs
<1>1. i \in Nat /\ i < HourUs
  BY WithinHour
<1>2. ts = (s - 1) * HourUs + i
  <2>1. (IF c > 1 THEN c ELSE 1) = c
    OBVIOUS
  <2>2. QED
    BY <2>1 DEF DeriveEventTs
<1>3. ts \in Nat
  BY <1>1, <1>2
<1>4. HourUs * s = (s - 1) * HourUs + HourUs /\ HourUs * (s - 1) = (s - 1) * HourUs
  OBVIOUS
<1>5. hours < s
  BY <1>1, <1>2, <1>3, <1>4, QuotientBelow
<1>6. hours \in Nat /\ ts < HourUs * hours + HourUs
  BY <1>3, Quotient
<1>7. ASSUME hours < s - 1 PROVE FALSE
  <2>1. HourUs * (hours + 1) <= HourUs * (s - 1)
    BY <1>6, <1>7, ProductGrows
  <2>2. HourUs * (hours + 1) = HourUs * hours + HourUs
    BY <1>6
  <2>3. QED
    BY <1>1, <1>2, <1>4, <1>6, <2>1, <2>2
<1>8. hours = s - 1
  BY <1>5, <1>6, <1>7
<1>9. QED
  BY <1>8 DEF DeriveStepFromTs

Event(i) == EventOf(csv, limit, i)
Batch == {Event(i) : i \in BatchRows}
Active(t) == pc[t] # "idle"

\* the transactions of the request that have been scored
TakenBy(t) == responses[t] \cup (IF pc[t] = "append" THEN {current[t]} ELSE {})

(***************************************************************************)
(* A run's arguments are in range; while its client waits, one thread has  *)
(* the batch in hand; the results of a thread, and the output, are of the  *)
(* rows they should be of; and what a live run wrote out is durable.       *)
(***************************************************************************)
ArgumentsInv ==
  /\ csv \in Files /\ limit \in Nat /\ limit <= Len(csv) /\ dryRun \in BOOLEAN
  /\ client \in {"posting", "waiting", "ended", "failed"}
  /\ pos \in Nat /\ pos <= limit
  /\ runs \in 0..MaxRuns /\ clean \in BOOLEAN

ServerInv ==
  /\ client = "waiting" =>
       /\ server \in Threads /\ Active(server) /\ dry[server] = dryRun
       /\ request[server] = Batch /\ pos < limit
  /\ client # "waiting" => server = None

ResultsInv ==
  /\ DOMAIN results = Threads
  /\ \A t \in Threads : {f.txn : f \in results[t]} = TakenBy(t)
  /\ \A t \in Threads : TakenBy(t) \subseteq request[t]
  /\ {f.txn : f \in output} = {Event(i) : i \in 1..pos}

OutputDurable == ~dryRun =>
  \A i \in 1..pos : committed[Event(i)] >= 1 /\ logged[Event(i)] >= 1

BaseInv ==
  /\ ScorerTypes /\ WellFormed /\ DurableInv
  /\ ArgumentsInv /\ ServerInv /\ ResultsInv /\ OutputDurable

LEMMA Rows ==
  ASSUME NEW f \in Files
  PROVE  /\ Len(f) \in Nat /\ DOMAIN f = 1..Len(f)
         /\ \A n \in 1..Len(f) : \A i \in 1..n :
              EventOf(f, n, i) \in Txns /\ EventOf(f, n, i).id = i
              /\ EventOf(f, n, i).account = f[i].account
<1>1. f \in Seq([account : Accounts, step : Nat \ {0}, amount : Nat])
  BY FilesAssumption
<1>2. Len(f) \in Nat /\ DOMAIN f = 1..Len(f)
  BY <1>1
<1>3. \A n \in DOMAIN f : \A i \in 1..n : EventOf(f, n, i) \in Txns
  BY FilesAssumption
<1>4. \A n, i : EventOf(f, n, i).id = i /\ EventOf(f, n, i).account = f[i].account
  BY EventFields
<1> QED BY <1>2, <1>3, <1>4

LEMMA Events ==
  ASSUME ArgumentsInv
  PROVE  \A i \in 1..limit : Event(i) \in Txns /\ Event(i).id = i
                             /\ Event(i).account = csv[i].account
<1>1. SUFFICES ASSUME NEW i \in 1..limit
               PROVE  Event(i) \in Txns /\ Event(i).id = i
                      /\ Event(i).account = csv[i].account
  OBVIOUS
<1>2. limit \in 1..Len(csv) /\ csv \in Files
  BY Rows DEF ArgumentsInv
<1> QED BY <1>2, Rows DEF Event

LEMMA Rest ==
  ASSUME ArgumentsInv
  PROVE  /\ BatchRows \subseteq pos + 1 .. limit
         /\ pos < limit => pos + 1 \in BatchRows
         /\ Lesser(pos + BatchSize, limit) \in Nat /\ Lesser(pos + BatchSize, limit) <= limit
         /\ pos <= Lesser(pos + BatchSize, limit)
         /\ 1 .. Lesser(pos + BatchSize, limit) = (1 .. pos) \cup BatchRows
         /\ BatchRows \subseteq 1..limit
BY BatchAssumption DEF ArgumentsInv, BatchRows, Lesser


\* client.post reaches a thread as a request of any client does
LEMMA PostStep ==
  ASSUME BaseInv, NEW t \in Threads, Post(t)
  PROVE  ScorerTypes' /\ WellFormed' /\ DurableInv'
<1>1. BatchRows \subseteq 1..limit /\ \A i \in 1..limit : Event(i) \in Txns
  BY Rest, Events DEF BaseInv
<1>2. {EventOf(csv, limit, i) : i \in BatchRows} \subseteq Txns
  BY <1>1 DEF Event
<1>3. dryRun \in BOOLEAN
  BY DEF BaseInv, ArgumentsInv
<1> DEFINE batch == {EventOf(csv, limit, i) : i \in BatchRows}
<1> HIDE DEF batch
<1>4. /\ batch \in SUBSET Txns
      /\ request' = [request EXCEPT ![t] = batch]
      /\ dry' = [dry EXCEPT ![t] = dryRun]
      /\ pc' = [pc EXCEPT ![t] = "group"] /\ pc[t] = "idle"
      /\ received' = received + 1
      /\ UNCHANGED <<redis, responses, account, prev, current, logged, committed,
                     answered, ideal, serial>>
  BY <1>2 DEF batch, Post
<1>5. ScorerTypes'
  BY <1>3, <1>4 DEF BaseInv, ScorerTypes, StoreTypeOK, ScorerTypeOK
<1>6. WellFormed'
  BY <1>4 DEF BaseInv, ScorerTypes, ScorerTypeOK, WellFormed, DocumentOf, Coherent
<1>7. DurableInv'
  BY <1>4 DEF BaseInv, ScorerTypes, ScorerTypeOK, DurableInv, AnsweredIsDurable
<1> QED BY <1>5, <1>6, <1>7

\* the three ways a step meets the scorer
ScorerPart ==
  \/ UNCHANGED <<redis, scorerVars>>
  \/ \E t \in Threads : Post(t)
  \/ \E t \in Threads : ThreadStep(t)
  \/ \E a \in Accounts : Expire(a)

LEMMA ScorerPartOf ==
  ASSUME [ReplayNext]_allVars
  PROVE  ScorerPart
<1>1. CASE StartRun
  BY <1>1 DEF StartRun, ScorerPart
<1>2. CASE ClientStep
  BY <1>2 DEF ClientStep, GiveUp, EndRun, ScorerPart
<1>3. ASSUME NEW t \in Threads, LogEvent(t) \/ Answer(t) \/ ServerFails(t)
      PROVE  ScorerPart
  BY <1>3 DEF LogEvent, Answer, ServerFails, ThreadStep, ScorerPart
<1>4. ASSUME NEW t \in Threads, NEW a \in Accounts, ReadAccount(t, a)
      PROVE  ScorerPart
  BY <1>4 DEF ReadAccount, ThreadStep, ScorerPart
<1>5. ASSUME NEW t \in Threads, NEW x \in Txns, Score(t, x)
      PROVE  ScorerPart
  BY <1>5 DEF Score, ThreadStep, ScorerPart
<1>6. ASSUME NEW a \in Accounts, ForgetAccount(a)
      PROVE  ScorerPart
  BY <1>6 DEF ForgetAccount, ScorerPart
<1>7. CASE UNCHANGED allVars
  BY <1>7 DEF allVars, ScorerPart
<1> QED BY <1>1, <1>2, <1>3, <1>4, <1>5, <1>6, <1>7 DEF ReplayNext

LEMMA ScorerKept ==
  ASSUME BaseInv, [ReplayNext]_allVars
  PROVE  ScorerTypes' /\ WellFormed' /\ DurableInv'
<1>0. ScorerTypes /\ WellFormed /\ DurableInv
  BY DEF BaseInv
<1>1. CASE UNCHANGED <<redis, scorerVars>>
  BY <1>0, <1>1 DEF scorerVars, ScorerTypes, StoreTypeOK, ScorerTypeOK, WellFormed,
                   DurableInv, AnsweredIsDurable
<1>2. ASSUME NEW t \in Threads, Post(t) PROVE ScorerTypes' /\ WellFormed' /\ DurableInv'
  BY <1>2, PostStep
<1>3. ASSUME NEW t \in Threads, ThreadStep(t) PROVE ScorerTypes' /\ WellFormed' /\ DurableInv'
  BY <1>0, <1>3, ThreadStepInv, DurableStep
<1>4. ASSUME NEW a \in Accounts, Expire(a) PROVE ScorerTypes' /\ WellFormed' /\ DurableInv'
  <2>1. ScorerTypes' /\ WellFormed'
    BY <1>0, <1>4, ExpireInv
  <2>2. DurableInv'
    BY <1>0, <1>4 DEF Expire, threadVars, DurableInv, AnsweredIsDurable
  <2> QED BY <2>1, <2>2
<1> QED BY <1>1, <1>2, <1>3, <1>4, ScorerPartOf DEF ScorerPart

\* no step takes a commit or a line back
LEMMA LedgersGrow ==
  ASSUME BaseInv, [ReplayNext]_allVars
  PROVE  \A x \in Txns : committed'[x] >= committed[x] /\ logged'[x] >= logged[x]
<1>0. committed \in [Txns -> Nat] /\ logged \in [Txns -> Nat]
  BY DEF BaseInv, ScorerTypes, ScorerTypeOK
<1>1. CASE UNCHANGED <<committed, logged>>
  BY <1>0, <1>1
<1>2. ASSUME NEW x \in Txns, committed' = [committed EXCEPT ![x] = @ + 1], logged' = logged
      PROVE  \A y \in Txns : committed'[y] >= committed[y] /\ logged'[y] >= logged[y]
  BY <1>0, <1>2
<1>3. ASSUME NEW x, NEW n \in {0, 1}, logged' = [logged EXCEPT ![x] = @ + n],
             committed' = committed
      PROVE  \A y \in Txns : committed'[y] >= committed[y] /\ logged'[y] >= logged[y]
  BY <1>0, <1>3
<1>4. CASE UNCHANGED <<redis, scorerVars>>
  BY <1>1, <1>4 DEF scorerVars
<1>5. ASSUME NEW t \in Threads, Post(t) PROVE UNCHANGED <<committed, logged>>
  BY <1>5 DEF Post
<1>6. ASSUME NEW a \in Accounts, Expire(a) PROVE UNCHANGED <<committed, logged>>
  BY <1>6 DEF Expire
<1>7. ASSUME NEW t \in Threads, ThreadStep(t)
      PROVE  \A y \in Txns : committed'[y] >= committed[y] /\ logged'[y] >= logged[y]
  <2>1. CASE Receive(t)
    BY <2>1, <1>1 DEF Receive
  <2>2. ASSUME NEW a \in Accounts, ReadState(t, a) PROVE UNCHANGED <<committed, logged>>
    BY <2>2 DEF ReadState
  <2>3. ASSUME NEW x \in Txns, ScoreDry(t, x) PROVE UNCHANGED <<committed, logged>>
    BY <2>3 DEF ScoreDry, historyVars
  <2>4. ASSUME NEW x \in Txns, ScoreLive(t, x)
        PROVE committed' = [committed EXCEPT ![x] = @ + 1] /\ logged' = logged
    BY <2>4 DEF ScoreLive
  <2>5. CASE AppendEvent(t)
    <3>1. logged' = [logged EXCEPT ![current[t]] = @ + 1] /\ committed' = committed
      BY <2>5 DEF AppendEvent, historyVars
    <3> QED BY <3>1, <1>3
  <2>6. CASE AppendFails(t)
    <3>1. committed' = committed
      BY <2>6 DEF AppendFails, historyVars
    <3>2. PICK n \in {0, 1} : logged' = [logged EXCEPT ![current[t]] = @ + n]
      BY <2>6 DEF AppendFails
    <3> QED BY <3>1, <3>2, <1>3
  <2>7. CASE Abort(t)
    BY <2>7, <1>1 DEF Abort, historyVars
  <2>8. CASE Respond(t)
    BY <2>8, <1>1 DEF Respond
  <2> QED BY <1>1, <1>2, <1>7, <2>1, <2>2, <2>3, <2>4, <2>5, <2>6, <2>7, <2>8 DEF ThreadStep
<1> QED BY <1>1, <1>4, <1>5, <1>6, <1>7, ScorerPartOf DEF ScorerPart

\* a step of t leaves the locals of the other threads alone
LEMMA OthersKept ==
  ASSUME ScorerTypes, NEW t \in Threads, ThreadStep(t) \/ Post(t),
         NEW u \in Threads, u # t
  PROVE  /\ pc'[u] = pc[u] /\ request'[u] = request[u] /\ dry'[u] = dry[u]
         /\ responses'[u] = responses[u] /\ account'[u] = account[u]
         /\ prev'[u] = prev[u] /\ current'[u] = current[u]
         /\ TakenBy(u)' = TakenBy(u)
<1> SUFFICES /\ pc'[u] = pc[u] /\ request'[u] = request[u] /\ dry'[u] = dry[u]
             /\ responses'[u] = responses[u] /\ account'[u] = account[u]
             /\ prev'[u] = prev[u] /\ current'[u] = current[u]
  BY DEF TakenBy
<1> USE DEF ScorerTypes, ScorerTypeOK
<1>1. CASE Receive(t)
  BY <1>1 DEF Receive
<1>2. ASSUME NEW a \in Accounts, ReadState(t, a)
      PROVE  /\ pc'[u] = pc[u] /\ request'[u] = request[u] /\ dry'[u] = dry[u]
             /\ responses'[u] = responses[u] /\ account'[u] = account[u]
             /\ prev'[u] = prev[u] /\ current'[u] = current[u]
  BY <1>2 DEF ReadState
<1>3. ASSUME NEW x \in Txns, ScoreDry(t, x)
      PROVE  /\ pc'[u] = pc[u] /\ request'[u] = request[u] /\ dry'[u] = dry[u]
             /\ responses'[u] = responses[u] /\ account'[u] = account[u]
             /\ prev'[u] = prev[u] /\ current'[u] = current[u]
  BY <1>3 DEF ScoreDry, AfterResponse
<1>4. ASSUME NEW x \in Txns, ScoreLive(t, x)
      PROVE  /\ pc'[u] = pc[u] /\ request'[u] = request[u] /\ dry'[u] = dry[u]
             /\ responses'[u] = responses[u] /\ account'[u] = account[u]
             /\ prev'[u] = prev[u] /\ current'[u] = current[u]
  BY <1>4 DEF ScoreLive
<1>5. CASE AppendEvent(t)
  BY <1>5 DEF AppendEvent, AfterResponse
<1>6. CASE Finish(t)
  BY <1>6 DEF Finish
<1>7. CASE AppendFails(t) \/ Abort(t) \/ Respond(t)
  BY <1>6, <1>7 DEF AppendFails, Abort, Respond
<1>8. CASE Post(t)
  BY <1>8 DEF Post
<1> QED BY <1>1, <1>2, <1>3, <1>4, <1>5, <1>7, <1>8 DEF ThreadStep

\* and what each does to its own
LEMMA OwnReceive ==
  ASSUME BaseInv, NEW t \in Threads, Post(t)
  PROVE  /\ request'[t] = Batch /\ dry'[t] = dryRun /\ pc'[t] = "group"
         /\ responses'[t] = {} /\ ~Active(t) /\ TakenBy(t) = {} /\ TakenBy(t)' = {}
  BY DEF BaseInv, ScorerTypes, ScorerTypeOK, DurableInv, Post, TakenBy, Batch, Event, Active

LEMMA OwnRead ==
  ASSUME BaseInv, NEW t \in Threads, NEW a \in Accounts, ReadState(t, a)
  PROVE  /\ request'[t] = request[t] /\ dry'[t] = dry[t] /\ pc[t] = "group" /\ pc'[t] = "fold"
         /\ responses'[t] = responses[t] /\ TakenBy(t)' = TakenBy(t)
         /\ account'[t] = a /\ prev'[t] = redis[a] /\ redis' = redis
         /\ \E x \in request[t] : x.account = a /\ x \notin TakenBy(t)
  BY DEF BaseInv, ScorerTypes, ScorerTypeOK, ReadState, TakenBy, Pending

LEMMA OwnScore ==
  ASSUME BaseInv, NEW t \in Threads, NEW x \in Txns, ScoreDry(t, x) \/ ScoreLive(t, x)
  PROVE  /\ request'[t] = request[t] /\ dry'[t] = dry[t] /\ pc[t] = "fold"
         /\ pc'[t] \in {"group", "fold", "append"} /\ account'[t] = account[t]
         /\ TakenBy(t)' = TakenBy(t) \cup {x} /\ x \in request[t] \ TakenBy(t)
         /\ x.account = account[t] /\ Earliest(t, x)
<1> USE DEF BaseInv, ScorerTypes, ScorerTypeOK
<1>1. CASE ScoreDry(t, x)
  BY <1>1 DEF ScoreDry, AfterResponse, TakenBy, Pending, Earliest, Mine
<1>2. CASE ScoreLive(t, x)
  BY <1>2 DEF ScoreLive, TakenBy, Pending, Earliest, Mine
<1> QED BY <1>1, <1>2

LEMMA OwnAppend ==
  ASSUME BaseInv, NEW t \in Threads, AppendEvent(t)
  PROVE  /\ request'[t] = request[t] /\ dry'[t] = dry[t] /\ pc[t] = "append"
         /\ pc'[t] \in {"group", "fold"} /\ account'[t] = account[t] /\ prev'[t] = prev[t]
         /\ TakenBy(t)' = TakenBy(t) /\ redis' = redis /\ committed' = committed
  BY DEF BaseInv, ScorerTypes, ScorerTypeOK, AppendEvent, AfterResponse, TakenBy, historyVars

LEMMA OwnFinish ==
  ASSUME BaseInv, NEW t \in Threads, AppendFails(t) \/ Abort(t) \/ Respond(t)
  PROVE  /\ pc[t] # "idle" /\ pc'[t] = "idle" /\ TakenBy(t)' = {}
         /\ redis' = redis /\ committed' = committed
<1>1. Finish(t) => pc'[t] = "idle" /\ responses'[t] = {}
  BY DEF BaseInv, ScorerTypes, ScorerTypeOK, Finish
<1> QED BY <1>1 DEF AppendFails, Abort, Respond, historyVars, TakenBy

LEMMA OwnRespond ==
  ASSUME BaseInv, NEW t \in Threads, Respond(t)
  PROVE  /\ pc[t] = "group" /\ TakenBy(t) = request[t] /\ responses[t] = request[t]
         /\ logged' = logged /\ committed' = committed
  BY DEF BaseInv, ResultsInv, Respond, Pending, TakenBy

LEMMA FoldedKept ==
  ASSUME BaseInv, NEW t \in Threads, ThreadStep(t) \/ Post(t),
         DOMAIN results' = Threads, \A u \in Threads : u # t => results'[u] = results[u],
         {f.txn : f \in results'[t]} = TakenBy(t)', TakenBy(t)' \subseteq request'[t]
  PROVE  /\ \A u \in Threads : {f.txn : f \in results'[u]} = TakenBy(u)'
         /\ \A u \in Threads : TakenBy(u)' \subseteq request'[u]
<1>1. \A u \in Threads : u # t => TakenBy(u)' = TakenBy(u) /\ request'[u] = request[u]
  BY OthersKept DEF BaseInv
<1> QED BY <1>1 DEF BaseInv, ResultsInv

LEMMA FeaturesOf ==
  ASSUME NEW x, NEW s
  PROVE  ComputeFeatures(x, s).txn = x
<1>1. CASE s = NoState
  BY <1>1 DEF ComputeFeatures
<1>2. CASE s # NoState
  BY <1>2 DEF ComputeFeatures
<1> QED BY <1>1, <1>2

\* what a step of the client, or of a thread, leaves of the run
RunKept ==
  /\ UNCHANGED <<csv, limit, dryRun, runs>>
  /\ clean' \in BOOLEAN /\ (clean' => clean)

LEMMA RunsKept ==
  ASSUME BaseInv, [ReplayNext]_allVars, ~StartRun
  PROVE  RunKept
<1>0. clean \in BOOLEAN
  BY DEF BaseInv, ArgumentsInv
<1>1. CASE ClientStep
  BY <1>0, <1>1 DEF ClientStep, GiveUp, EndRun, Post, runVars, RunKept
<1>2. ASSUME NEW t \in Threads, LogEvent(t) \/ Answer(t) \/ ServerFails(t) PROVE RunKept
  BY <1>0, <1>2 DEF LogEvent, Answer, ServerFails, runVars, replayVars, RunKept
<1>3. ASSUME NEW t \in Threads, NEW a \in Accounts, ReadAccount(t, a) PROVE RunKept
  BY <1>0, <1>3 DEF ReadAccount, replayVars, RunKept
<1>4. ASSUME NEW t \in Threads, NEW x \in Txns, Score(t, x) PROVE RunKept
  BY <1>0, <1>4 DEF Score, runVars, RunKept
<1>5. ASSUME NEW a \in Accounts, ForgetAccount(a) PROVE RunKept
  BY <1>5 DEF ForgetAccount, runVars, RunKept
<1>6. CASE UNCHANGED allVars
  BY <1>0, <1>6 DEF allVars, replayVars, RunKept
<1> QED BY <1>1, <1>2, <1>3, <1>4, <1>5, <1>6 DEF ReplayNext

ServingInv == ArgumentsInv /\ ServerInv /\ ResultsInv /\ OutputDurable

\* a step that leaves the client, its output and its thread's batch alone
LEMMA ServingFrame ==
  ASSUME BaseInv, [ReplayNext]_allVars, RunKept, UNCHANGED <<client, server, pos, output>>,
         client = "waiting" =>
           pc'[server] # "idle" /\ dry'[server] = dry[server] /\ request'[server] = request[server],
         DOMAIN results' = Threads,
         \A u \in Threads : {f.txn : f \in results'[u]} = TakenBy(u)',
         \A u \in Threads : TakenBy(u)' \subseteq request'[u]
  PROVE  ServingInv'
<1>0. ArgumentsInv /\ ServerInv /\ ResultsInv /\ OutputDurable
  BY DEF BaseInv
<1>1. ArgumentsInv'
  BY <1>0 DEF ArgumentsInv, RunKept
<1>2. Batch' = Batch /\ \A i : Event(i)' = Event(i)
  BY DEF Batch, BatchRows, Event, RunKept
<1>3. ServerInv'
  BY <1>0, <1>2 DEF ServerInv, RunKept, Active
<1>4. ResultsInv'
  BY <1>0, <1>2 DEF ResultsInv, RunKept
<1>5. OutputDurable'
  <2>1. \A i \in 1..pos : Event(i) \in Txns
    BY <1>0, Events DEF ArgumentsInv
  <2>2. \A i \in 1..pos : committed[Event(i)] \in Nat /\ logged[Event(i)] \in Nat
                         /\ committed'[Event(i)] \in Nat /\ logged'[Event(i)] \in Nat
    BY <2>1, ScorerKept DEF BaseInv, ScorerTypes, ScorerTypeOK
  <2>3. \A i \in 1..pos : /\ committed'[Event(i)] >= committed[Event(i)]
                          /\ logged'[Event(i)] >= logged[Event(i)]
    BY <2>1, LedgersGrow
  <2>4. dryRun' = dryRun /\ pos' = pos
    BY DEF RunKept
  <2> HIDE DEF Event
  <2> SUFFICES ASSUME ~dryRun, NEW i \in 1..pos
               PROVE  committed'[Event(i)'] >= 1 /\ logged'[Event(i)'] >= 1
    BY <2>4 DEF OutputDurable
  <2>5. committed[Event(i)] >= 1 /\ logged[Event(i)] >= 1
    BY <1>0 DEF OutputDurable
  <2> QED BY <1>2, <2>2, <2>3, <2>5
<1> QED BY <1>1, <1>3, <1>4, <1>5 DEF ServingInv

LEMMA WaitingFrame ==
  ASSUME BaseInv, NEW t \in Threads, ThreadStep(t), server # t
  PROVE  client = "waiting" =>
           pc'[server] # "idle" /\ dry'[server] = dry[server] /\ request'[server] = request[server]
<1>1. ASSUME client = "waiting"
      PROVE  pc'[server] # "idle" /\ dry'[server] = dry[server] /\ request'[server] = request[server]
  <2>1. server \in Threads /\ Active(server)
    BY <1>1 DEF BaseInv, ServerInv
  <2> QED BY <2>1, OthersKept DEF BaseInv, Active
<1> QED BY <1>1

LEMMA ServingStart ==
  ASSUME BaseInv, StartRun
  PROVE  ServingInv'
<1>1. ArgumentsInv'
  <2>1. Limits \subseteq Nat /\ MaxRuns \in Nat
    BY BatchAssumption
  <2>2. limit' \in Nat /\ limit' <= Len(csv')
    BY <2>1 DEF StartRun
  <2>3. runs' \in 0..MaxRuns
    BY <2>1 DEF StartRun, BaseInv, ArgumentsInv
  <2>4. clean' \in BOOLEAN
    BY DEF StartRun
  <2> QED BY <2>2, <2>3, <2>4 DEF StartRun, ArgumentsInv
<1>2. ServerInv'
  BY DEF StartRun, BaseInv, ServerInv
<1>3. ResultsInv'
  <2>1. \A t \in Threads : TakenBy(t)' = TakenBy(t) /\ request'[t] = request[t]
                          /\ results'[t] = results[t]
    BY DEF StartRun, TakenBy, scorerVars
  <2>2. DOMAIN results' = Threads /\ pos' = 0 /\ output' = {}
    BY DEF StartRun, BaseInv, ResultsInv
  <2>3. 1..pos' = {}
    BY <2>2
  <2> QED BY <2>1, <2>2, <2>3 DEF BaseInv, ResultsInv
<1>4. OutputDurable'
  BY DEF StartRun, OutputDurable
<1> QED BY <1>1, <1>2, <1>3, <1>4 DEF ServingInv

LEMMA ServingPost ==
  ASSUME BaseInv, [ReplayNext]_allVars, NEW t \in Threads, Post(t), RunKept
  PROVE  ServingInv'
<1>1. ArgumentsInv'
  BY DEF Post, RunKept, BaseInv, ArgumentsInv
<1>2. Batch' = Batch /\ \A i : Event(i)' = Event(i)
  BY DEF Batch, BatchRows, Event, RunKept, Post
<1>3. ServerInv'
  BY <1>2, OwnReceive DEF Post, ServerInv, RunKept, Active
<1>4. ResultsInv'
  <2>1. results' = results /\ output' = output /\ pos' = pos
    BY DEF Post
  <2>2. {f.txn : f \in results'[t]} = TakenBy(t)' /\ TakenBy(t)' \subseteq request'[t]
    BY <2>1, OwnReceive DEF BaseInv, ResultsInv
  <2> QED BY <1>2, <2>1, <2>2, FoldedKept DEF BaseInv, ResultsInv
<1>5. OutputDurable'
  BY <1>2 DEF Post, RunKept, BaseInv, OutputDurable
<1> QED BY <1>1, <1>3, <1>4, <1>5 DEF ServingInv

LEMMA ServingAnswer ==
  ASSUME BaseInv, [ReplayNext]_allVars, NEW t \in Threads, Answer(t), RunKept, server = t
  PROVE  ServingInv'
<1>0. ArgumentsInv /\ ServerInv /\ ResultsInv /\ OutputDurable /\ DurableInv
  BY DEF BaseInv
<1>1. /\ client = "waiting" /\ dry[t] = dryRun /\ request[t] = Batch /\ pos < limit
  BY <1>0, ThreadsAssumption DEF ServerInv
<1>2. /\ Respond(t) /\ results' = [results EXCEPT ![t] = {}]
      /\ output' = output \cup results[t] /\ pos' = Lesser(pos + BatchSize, limit)
      /\ client' = "posting" /\ server' = None
  BY DEF Answer
<1>3. ArgumentsInv'
  BY <1>0, <1>2, Rest DEF RunKept, ArgumentsInv
<1>4. ServerInv'
  BY <1>2 DEF ServerInv
<1>5. \A i : Event(i)' = Event(i)
  BY DEF Event, RunKept
<1>6. {i : i \in 1..pos'} = (1..pos) \cup BatchRows
  BY <1>0, <1>2, Rest
<1>7. /\ TakenBy(t) = Batch /\ responses[t] = Batch
      /\ logged' = logged /\ committed' = committed
  BY <1>1, <1>2, OwnRespond
<1>8. ResultsInv'
  <2>1. DOMAIN results' = Threads /\ results'[t] = {}
        /\ \A u \in Threads : u # t => results'[u] = results[u]
    BY <1>0, <1>2 DEF ResultsInv
  <2>2. TakenBy(t)' = {}
    BY <1>2, OwnFinish
  <2>3. ThreadStep(t)
    BY <1>2 DEF ThreadStep
  <2>4. {f.txn : f \in results'[t]} = TakenBy(t)' /\ TakenBy(t)' \subseteq request'[t]
    BY <2>1, <2>2
  <2>5. {f.txn : f \in output'} = {f.txn : f \in output} \cup {f.txn : f \in results[t]}
    BY <1>2
  <2>6. {f.txn : f \in output'} = {Event(i) : i \in 1..pos} \cup {Event(i) : i \in BatchRows}
    BY <1>0, <1>7, <2>5 DEF ResultsInv, Batch
  <2> HIDE DEF Event
  <2>7. {f.txn : f \in output'} = {Event(i)' : i \in 1..pos'}
    BY <1>5, <1>6, <2>6
  <2> QED BY <2>1, <2>3, <2>4, <2>7, FoldedKept DEF ResultsInv
<1>9. OutputDurable'
  <2>1. dryRun' = dryRun
    BY DEF RunKept
  <2> SUFFICES ASSUME ~dryRun, NEW i \in 1..pos'
               PROVE  committed'[Event(i)'] >= 1 /\ logged'[Event(i)'] >= 1
    BY <2>1 DEF OutputDurable
  <2> HIDE DEF Event
  <2>2. CASE i \in 1..pos
    BY <1>0, <1>5, <1>7, <2>2 DEF OutputDurable
  <2>3. CASE i \in BatchRows
    <3>1. Event(i) \in responses[t]
      BY <1>7, <2>3 DEF Batch
    <3> QED BY <1>0, <1>1, <1>5, <1>7, <3>1 DEF DurableInv
  <2> QED BY <1>6, <2>2, <2>3
<1> QED BY <1>3, <1>4, <1>8, <1>9 DEF ServingInv

LEMMA ServingStep ==
  ASSUME BaseInv, [ReplayNext]_allVars
  PROVE  ServingInv'
<1>0. ArgumentsInv /\ ServerInv /\ ResultsInv /\ OutputDurable /\ DOMAIN results = Threads
  BY DEF BaseInv, ResultsInv
<1>1. CASE StartRun
  BY <1>1, ServingStart
<1>2. SUFFICES ASSUME RunKept PROVE ServingInv'
  BY <1>1, RunsKept
<1>3. ASSUME NEW t \in Threads, Post(t) PROVE ServingInv'
  BY <1>2, <1>3, ServingPost
<1>4. CASE GiveUp \/ EndRun
  <2>1. UNCHANGED <<pc, request, dry, responses, current, committed, logged, pos, output, results>>
    BY <1>4 DEF GiveUp, EndRun, scorerVars
  <2>2. client' \in {"ended", "failed"} /\ server' = None
    BY <1>0, <1>4 DEF GiveUp, EndRun, ServerInv
  <2>3. ArgumentsInv' /\ ServerInv'
    BY <1>0, <1>2, <2>1, <2>2 DEF ArgumentsInv, ServerInv, RunKept
  <2>4. ResultsInv' /\ OutputDurable'
    BY <1>0, <1>2, <2>1 DEF ResultsInv, OutputDurable, RunKept, Event, TakenBy
  <2> QED BY <2>3, <2>4 DEF ServingInv
<1>5. ASSUME NEW t \in Threads, LogEvent(t) PROVE ServingInv'
  <2>1. AppendEvent(t) /\ UNCHANGED <<client, server, pos, output, results>> /\ ThreadStep(t)
    BY <1>5 DEF LogEvent, replayVars, ThreadStep
  <2>2. {f.txn : f \in results'[t]} = TakenBy(t)' /\ TakenBy(t)' \subseteq request'[t]
    BY <1>0, <2>1, OwnAppend DEF ResultsInv
  <2>3. client = "waiting" =>
           pc'[server] # "idle" /\ dry'[server] = dry[server] /\ request'[server] = request[server]
    BY <2>1, WaitingFrame, OwnAppend DEF Active
  <2>4. DOMAIN results' = Threads /\ \A u \in Threads : u # t => results'[u] = results[u]
    BY <1>0, <2>1
  <2> QED BY <1>2, <2>1, <2>2, <2>3, <2>4, FoldedKept, ServingFrame
<1>6. ASSUME NEW t \in Threads, NEW a \in Accounts, ReadAccount(t, a) PROVE ServingInv'
  <2>1. ReadState(t, a) /\ UNCHANGED <<client, server, pos, output, results>> /\ ThreadStep(t)
    BY <1>6 DEF ReadAccount, replayVars, ThreadStep
  <2>2. {f.txn : f \in results'[t]} = TakenBy(t)' /\ TakenBy(t)' \subseteq request'[t]
    BY <1>0, <2>1, OwnRead DEF ResultsInv
  <2>3. client = "waiting" =>
           pc'[server] # "idle" /\ dry'[server] = dry[server] /\ request'[server] = request[server]
    BY <2>1, WaitingFrame, OwnRead DEF Active
  <2>4. DOMAIN results' = Threads /\ \A u \in Threads : u # t => results'[u] = results[u]
    BY <1>0, <2>1
  <2> QED BY <1>2, <2>1, <2>2, <2>3, <2>4, FoldedKept, ServingFrame
<1>7. ASSUME NEW t \in Threads, NEW x \in Txns, Score(t, x) PROVE ServingInv'
  <2>1. /\ ScoreDry(t, x) \/ ScoreLive(t, x)
        /\ UNCHANGED <<client, server, pos, output>> /\ ThreadStep(t)
        /\ results' = [results EXCEPT ![t] = @ \cup {ComputeFeatures(x, prev[t])}]
    BY <1>7 DEF Score, ThreadStep
  <2>2. results'[t] = results[t] \cup {ComputeFeatures(x, prev[t])}
        /\ DOMAIN results' = Threads /\ \A u \in Threads : u # t => results'[u] = results[u]
    BY <1>0, <2>1
  <2>3. {f.txn : f \in results'[t]} = {f.txn : f \in results[t]} \cup {x}
    BY <2>2, FeaturesOf
  <2>4. {f.txn : f \in results'[t]} = TakenBy(t)' /\ TakenBy(t)' \subseteq request'[t]
    BY <1>0, <2>1, <2>3, OwnScore DEF ResultsInv
  <2>5. client = "waiting" =>
           pc'[server] # "idle" /\ dry'[server] = dry[server] /\ request'[server] = request[server]
    BY <2>1, WaitingFrame, OwnScore DEF Active
  <2> QED BY <1>2, <2>1, <2>2, <2>4, <2>5, FoldedKept, ServingFrame
<1>8. ASSUME NEW t \in Threads, Answer(t), server # t PROVE ServingInv'
  <2>1. Respond(t) /\ UNCHANGED <<client, server, pos, output>> /\ ThreadStep(t)
        /\ results' = [results EXCEPT ![t] = {}]
    BY <1>8 DEF Answer, ThreadStep
  <2>2. results'[t] = {} /\ DOMAIN results' = Threads
        /\ \A u \in Threads : u # t => results'[u] = results[u]
    BY <1>0, <2>1
  <2>3. {f.txn : f \in results'[t]} = TakenBy(t)' /\ TakenBy(t)' \subseteq request'[t]
    BY <2>1, <2>2, OwnFinish
  <2> QED BY <1>2, <1>8, <2>1, <2>2, <2>3, WaitingFrame, FoldedKept, ServingFrame
<1>9. ASSUME NEW t \in Threads, ServerFails(t) PROVE ServingInv'
  <2>1. /\ AppendFails(t) \/ Abort(t)
        /\ UNCHANGED <<pos, output>> /\ ThreadStep(t)
        /\ results' = [results EXCEPT ![t] = {}]
    BY <1>9 DEF ServerFails, ThreadStep
  <2>2. results'[t] = {} /\ DOMAIN results' = Threads
        /\ \A u \in Threads : u # t => results'[u] = results[u]
    BY <1>0, <2>1
  <2>3. {f.txn : f \in results'[t]} = TakenBy(t)' /\ TakenBy(t)' \subseteq request'[t]
    BY <2>1, <2>2, OwnFinish
  <2>4. CASE server # t
    <3>1. UNCHANGED <<client, server>>
      BY <1>9, <2>4 DEF ServerFails
    <3> QED BY <1>2, <2>1, <2>2, <2>3, <2>4, <3>1, WaitingFrame, FoldedKept, ServingFrame
  <2>5. CASE server = t
    <3>1. client' = "failed" /\ server' = None
      BY <1>9, <2>5 DEF ServerFails
    <3>2. ArgumentsInv' /\ ServerInv'
      BY <1>0, <1>2, <2>1, <3>1 DEF ArgumentsInv, ServerInv, RunKept
    <3>3. ResultsInv'
      BY <1>0, <1>2, <2>1, <2>2, <2>3, FoldedKept DEF ResultsInv, RunKept, Event
    <3>4. OutputDurable'
      <4>1. dryRun' = dryRun /\ pos' = pos /\ \A i : Event(i)' = Event(i)
        BY <1>2, <2>1 DEF RunKept, Event
      <4>2. \A i \in 1..pos : Event(i) \in Txns
        BY <1>0, Events DEF ArgumentsInv
      <4>3. \A i \in 1..pos : committed[Event(i)] \in Nat /\ logged[Event(i)] \in Nat
                             /\ committed'[Event(i)] \in Nat /\ logged'[Event(i)] \in Nat
        BY <4>2, ScorerKept DEF BaseInv, ScorerTypes, ScorerTypeOK
      <4>4. \A i \in 1..pos : /\ committed'[Event(i)] >= committed[Event(i)]
                              /\ logged'[Event(i)] >= logged[Event(i)]
        BY <4>2, LedgersGrow
      <4> HIDE DEF Event
      <4> SUFFICES ASSUME ~dryRun, NEW i \in 1..pos
                   PROVE  committed'[Event(i)'] >= 1 /\ logged'[Event(i)'] >= 1
        BY <4>1 DEF OutputDurable
      <4>5. committed[Event(i)] >= 1 /\ logged[Event(i)] >= 1
        BY <1>0 DEF OutputDurable
      <4> QED BY <4>1, <4>3, <4>4, <4>5
    <3> QED BY <3>2, <3>3, <3>4 DEF ServingInv
  <2> QED BY <2>4, <2>5
<1>10. ASSUME NEW t \in Threads, Answer(t) PROVE ServingInv'
  BY <1>2, <1>8, <1>10, ServingAnswer
<1>11. CASE UNCHANGED <<pc, request, dry, responses, current>>
            /\ UNCHANGED <<client, server, pos, output, results>>
  <2>1. /\ client = "waiting" =>
           pc'[server] # "idle" /\ dry'[server] = dry[server] /\ request'[server] = request[server]
        /\ \A u \in Threads : {f.txn : f \in results'[u]} = TakenBy(u)'
        /\ \A u \in Threads : TakenBy(u)' \subseteq request'[u]
    BY <1>0, <1>11 DEF ServerInv, ResultsInv, Active, TakenBy
  <2> QED BY <1>0, <1>2, <1>11, <2>1, ServingFrame
<1>12. ASSUME NEW a \in Accounts, ForgetAccount(a) PROVE ServingInv'
  BY <1>11, <1>12 DEF ForgetAccount, Expire, threadVars
<1>13. CASE UNCHANGED allVars
  BY <1>11, <1>13 DEF allVars, scorerVars, replayVars
<1> QED BY <1>1, <1>3, <1>4, <1>5, <1>6, <1>7, <1>9, <1>10, <1>12, <1>13
        DEF ReplayNext, ClientStep

(***************************************************************************)
(* The inductive invariant of the replay: the scorer's own, the arguments  *)
(* of the run, the batch in hand, whose results are whose, and the output  *)
(* of a live run being committed and logged.                               *)
(***************************************************************************)
THEOREM ReplayInvariant == ReplaySpec => []BaseInv
<1>1. ReplayInit => BaseInv
  <2> SUFFICES ASSUME ReplayInit PROVE BaseInv
    OBVIOUS
  <2>1. ScorerInit
    BY DEF ReplayInit
  <2>2. ScorerTypes /\ WellFormed /\ DurableInv
    BY <2>1, NoStateAssumption DEF ScorerInit, StoreInit, ScorerTypes, StoreTypeOK, ScorerTypeOK,
       WellFormed, DocumentOf, DurableInv, AnsweredIsDurable, MaybeState
  <2>3. \A f \in Files : Len(f) \in Nat
    BY Rows
  <2>4. ArgumentsInv
    <3>1. csv \in Files /\ limit = 0 /\ pos = 0 /\ runs = 0 /\ client = "ended"
          /\ dryRun \in BOOLEAN /\ clean \in BOOLEAN
      BY DEF ReplayInit
    <3>2. Len(csv) \in Nat /\ MaxRuns \in Nat
      BY <2>3, <3>1, BatchAssumption
    <3>3. 0 <= Len(csv) /\ 0 \in 0..MaxRuns
      BY <3>2
    <3> QED BY <3>1, <3>3 DEF ArgumentsInv
  <2>5. ServerInv /\ OutputDurable
    BY DEF ReplayInit, ServerInv, OutputDurable
  <2>6. ResultsInv
    BY <2>1 DEF ReplayInit, ScorerInit, ResultsInv, TakenBy
  <2> QED BY <2>2, <2>4, <2>5, <2>6 DEF BaseInv
<1>2. BaseInv /\ [ReplayNext]_allVars => BaseInv'
  BY ScorerKept, ServingStep DEF BaseInv, ServingInv
<1> QED BY <1>1, <1>2, PTL DEF ReplaySpec

(***************************************************************************)
(* The type invariant, with the rows of the output being exactly those of  *)
(* the batches whose answers have been received.                           *)
(***************************************************************************)
THEOREM ReplayTyping == ReplaySpec => []ReplayTypeOK
<1>1. BaseInv => ReplayTypeOK
  <2> SUFFICES ASSUME BaseInv PROVE ReplayTypeOK
    OBVIOUS
  <2>1. limit \in 0..Len(csv) /\ pos \in 0..limit
    BY Rows DEF BaseInv, ArgumentsInv
  <2>2. server \in Threads \cup {None} /\ (server # None) = (client = "waiting")
    BY ThreadsAssumption DEF BaseInv, ServerInv
  <2> QED BY <2>1, <2>2 DEF BaseInv, ArgumentsInv, ScorerTypes, ResultsInv, Event, ReplayTypeOK
<1> QED BY <1>1, ReplayInvariant, PTL

(***************************************************************************)
(* While nothing has disturbed the run, a request in progress is the one   *)
(* of the batch in hand, waited for or given up.                           *)
(***************************************************************************)
AloneInv == clean =>
  /\ \A t \in Threads : Active(t) =>
       /\ client = "failed" \/ (client = "waiting" /\ server = t)
       /\ pos < limit /\ dry[t] = dryRun /\ request[t] = Batch
  /\ \A t, u \in Threads : Active(t) /\ Active(u) => t = u

LEMMA AloneFrame ==
  ASSUME BaseInv, AloneInv, RunKept, pos' = pos,
         \A u \in Threads : pc'[u] # "idle" =>
           pc[u] # "idle" /\ dry'[u] = dry[u] /\ request'[u] = request[u],
         client' = "failed" \/ (client' = client /\ server' = server)
  PROVE  AloneInv'
<1>1. Batch' = Batch
  BY DEF Batch, BatchRows, Event, RunKept
<1> QED BY <1>1 DEF AloneInv, RunKept, Active

LEMMA NobodyActive ==
  ASSUME \A u \in Threads : pc'[u] = "idle"
  PROVE  AloneInv'
BY DEF AloneInv, Active

LEMMA AloneStep ==
  ASSUME BaseInv, AloneInv, [ReplayNext]_allVars
  PROVE  AloneInv'
<1>0. ServerInv
  BY DEF BaseInv
<1>1. CASE StartRun
  BY <1>1 DEF StartRun, AloneInv, Active, scorerVars
<1>2. SUFFICES ASSUME RunKept PROVE AloneInv'
  BY <1>1, RunsKept
<1>3. ASSUME NEW t \in Threads, Post(t) PROVE AloneInv'
  <2>1. SUFFICES ASSUME clean PROVE AloneInv'
    BY <1>2 DEF AloneInv, RunKept
  <2>2. client = "posting" /\ pos < limit /\ client' = "waiting" /\ server' = t /\ pos' = pos
    BY <1>3 DEF Post
  <2>3. \A u \in Threads : ~Active(u)
    BY <2>1, <2>2 DEF AloneInv
  <2>4. \A u \in Threads : u # t => pc'[u] = "idle"
    BY <1>3, <2>3, OthersKept DEF Active, BaseInv
  <2>5. Batch' = Batch /\ limit' = limit /\ dryRun' = dryRun
    BY <1>2, <2>2 DEF Batch, BatchRows, Event, RunKept
  <2>6. dry'[t] = dryRun /\ request'[t] = Batch
    BY <1>3, OwnReceive
  <2> HIDE DEF Batch
  <2> QED BY <2>2, <2>4, <2>5, <2>6 DEF AloneInv, Active
<1>4. CASE GiveUp
  BY <1>2, <1>4, AloneFrame DEF GiveUp, scorerVars
<1>5. CASE EndRun
  <2>1. clean => \A u \in Threads : ~Active(u)
    BY <1>5 DEF EndRun, AloneInv
  <2>2. pc' = pc
    BY <1>5 DEF EndRun, scorerVars
  <2> QED BY <1>2, <2>1, <2>2, NobodyActive DEF AloneInv, Active, RunKept
<1>6. ASSUME NEW t \in Threads, ThreadStep(t), pos' = pos,
             pc'[t] # "idle" => pc[t] # "idle" /\ dry'[t] = dry[t] /\ request'[t] = request[t],
             client' = "failed" \/ (client' = client /\ server' = server)
      PROVE  AloneInv'
  <2>1. \A u \in Threads : pc'[u] # "idle" =>
           pc[u] # "idle" /\ dry'[u] = dry[u] /\ request'[u] = request[u]
    BY <1>6, OthersKept DEF BaseInv
  <2> QED BY <1>2, <1>6, <2>1, AloneFrame
<1>7. ASSUME NEW t \in Threads, LogEvent(t) PROVE AloneInv'
  BY <1>6, <1>7, OwnAppend DEF LogEvent, ThreadStep, replayVars
<1>8. ASSUME NEW t \in Threads, NEW a \in Accounts, ReadAccount(t, a) PROVE AloneInv'
  BY <1>6, <1>8, OwnRead DEF ReadAccount, ThreadStep, replayVars
<1>9. ASSUME NEW t \in Threads, NEW x \in Txns, Score(t, x) PROVE AloneInv'
  BY <1>6, <1>9, OwnScore DEF Score, ThreadStep
<1>10. ASSUME NEW t \in Threads, ServerFails(t) PROVE AloneInv'
  <2>1. ThreadStep(t) /\ pos' = pos /\ pc'[t] = "idle"
    BY <1>10, OwnFinish DEF ServerFails, ThreadStep
  <2> QED BY <1>6, <1>10, <2>1 DEF ServerFails
<1>11. ASSUME NEW t \in Threads, Answer(t) PROVE AloneInv'
  <2>1. Respond(t) /\ ThreadStep(t)
    BY <1>11 DEF Answer, ThreadStep
  <2>2. pc[t] # "idle" /\ pc'[t] = "idle"
    BY <2>1, OwnFinish
  <2>3. clean => \A u \in Threads : u # t => pc[u] = "idle" /\ pc'[u] = "idle"
    BY <2>1, <2>2, OthersKept DEF BaseInv, AloneInv, Active
  <2> QED BY <1>2, <2>2, <2>3, NobodyActive DEF AloneInv, RunKept
<1>12. ASSUME NEW a \in Accounts, ForgetAccount(a) PROVE AloneInv'
  BY <1>12 DEF ForgetAccount, AloneInv
<1>13. CASE UNCHANGED allVars
  BY <1>2, <1>13, AloneFrame DEF allVars, scorerVars, replayVars
<1> QED BY <1>1, <1>3, <1>4, <1>5, <1>7, <1>8, <1>9, <1>10, <1>11, <1>12, <1>13
        DEF ReplayNext, ClientStep

(***************************************************************************)
(* The commits of the first run: one for a row whose result has been       *)
(* received, none beyond the batch in hand or while there is none, and     *)
(* none for a row of the batch that its thread has still to score.         *)
(***************************************************************************)
OnceAt(i) ==
  LET n == committed[Event(i)] IN
  /\ n <= 1
  /\ i <= pos => n = 1
  /\ i > pos + BatchSize => n = 0
  /\ client = "posting" /\ i > pos => n = 0
  /\ i \in BatchRows =>
       \A t \in Threads : Active(t) /\ Event(i) \notin TakenBy(t) => n = 0

CommitInv ==
  /\ runs = 0 => /\ client = "ended" /\ \A x \in Txns : committed[x] = 0
                 /\ \A t \in Threads : ~Active(t)
  /\ clean /\ runs = 1 /\ ~dryRun => \A i \in 1..limit : OnceAt(i)

LEMMA CommitFrame ==
  ASSUME BaseInv, CommitInv, RunKept, committed' = committed, pos' = pos,
         client' = "failed" \/ client' = client \/ client' = "waiting", runs # 0,
         \A u \in Threads : pc'[u] # "idle" => TakenBy(u) \subseteq TakenBy(u)' /\ pc[u] # "idle"
  PROVE  CommitInv'
<1>1. BatchRows' = BatchRows /\ \A i : Event(i)' = Event(i)
  BY DEF BatchRows, Event, RunKept
<1>2. \A i : OnceAt(i) => OnceAt(i)'
  <2> HIDE DEF BatchRows, Event
  <2> QED BY <1>1 DEF OnceAt, Active
<1> QED BY <1>2 DEF CommitInv, RunKept

LEMMA CommitAnswer ==
  ASSUME BaseInv, AloneInv, CommitInv, RunKept, NEW t \in Threads, Answer(t), server = t
  PROVE  CommitInv'
<1>1. /\ client = "waiting" /\ dry[t] = dryRun /\ request[t] = Batch /\ pos < limit
  BY ThreadsAssumption DEF BaseInv, ServerInv
<1>2. /\ Respond(t) /\ pos' = Lesser(pos + BatchSize, limit)
      /\ client' = "posting"
  BY DEF Answer
<1>3. /\ responses[t] = Batch /\ committed' = committed /\ pc[t] = "group" /\ pc'[t] = "idle"
  BY <1>1, <1>2, OwnRespond, OwnFinish
<1>4. runs # 0
  BY <1>1 DEF CommitInv
<1>5. clean' /\ runs' = 1 /\ ~dryRun' => \A i \in 1..limit' : OnceAt(i)'
  <2> SUFFICES ASSUME clean, runs = 1, ~dryRun, NEW i \in 1..limit PROVE OnceAt(i)'
    BY DEF RunKept
  <2>1. OnceAt(i) /\ Event(i) \in Txns
    BY Events DEF CommitInv, BaseInv
  <2>2. committed[Event(i)] \in Nat
    BY <2>1 DEF BaseInv, ScorerTypes, ScorerTypeOK
  <2>3. i \in BatchRows => committed[Event(i)] >= 1
    BY <1>1, <1>3 DEF Batch, BaseInv, DurableInv
  <2>4. \A u \in Threads : pc'[u] = "idle"
    <3>1. ThreadStep(t)
      BY <1>2 DEF ThreadStep
    <3> QED BY <1>3, <3>1, OthersKept DEF BaseInv, AloneInv, Active
  <2>5. Event(i)' = Event(i) /\ limit' = limit
    BY DEF Event, RunKept
  <2>6. limit \in Nat /\ pos \in Nat /\ BatchSize \in Nat \ {0}
    BY BatchAssumption DEF BaseInv, ArgumentsInv
  <2>7. /\ i <= pos \/ i \in BatchRows \/ i > pos + BatchSize
        /\ i <= pos' <=> i <= pos \/ i \in BatchRows
        /\ i > pos' => i > pos + BatchSize
        /\ i > pos' + BatchSize => i > pos + BatchSize
    BY <1>2, <2>6 DEF BatchRows, Lesser
  <2> DEFINE n == committed[Event(i)]
             m == committed'[Event(i)']
  <2>8. n = m
    BY <1>3, <2>5
  <2>9. /\ n <= 1
        /\ i <= pos => n = 1
        /\ i > pos + BatchSize => n = 0
    BY <2>1 DEF OnceAt
  <2>10. /\ n <= 1 /\ (i <= pos' => n = 1)
         /\ (i > pos' + BatchSize => n = 0) /\ (i > pos' => n = 0)
    <3> HIDE DEF n
    <3> QED BY <2>2, <2>3, <2>7, <2>9 DEF n
  <2> HIDE DEF n
  <2> QED BY <2>4, <2>8, <2>10 DEF OnceAt, Active
<1> QED BY <1>4, <1>5 DEF CommitInv, RunKept

LEMMA CommitScore ==
  ASSUME BaseInv, AloneInv, CommitInv, RunKept, NEW t \in Threads, NEW x \in Txns, Score(t, x)
  PROVE  CommitInv'
<1>1. /\ ScoreDry(t, x) \/ ScoreLive(t, x)
      /\ UNCHANGED <<client, server, pos, output>> /\ ThreadStep(t)
  BY DEF Score, ThreadStep
<1>2. /\ pc[t] = "fold" /\ pc'[t] # "idle" /\ TakenBy(t)' = TakenBy(t) \cup {x}
      /\ x \in request[t] \ TakenBy(t)
  BY <1>1, OwnScore
<1>3. Active(t) /\ runs # 0
  BY <1>2 DEF Active, CommitInv
<1>4. \A u \in Threads : pc'[u] # "idle" => TakenBy(u) \subseteq TakenBy(u)' /\ pc[u] # "idle"
  BY <1>1, <1>2, OthersKept DEF BaseInv
<1>5. CASE ScoreDry(t, x)
  <2>1. committed' = committed
    BY <1>5 DEF ScoreDry, historyVars
  <2> QED BY <1>1, <1>3, <1>4, <2>1, CommitFrame
<1>6. CASE ScoreLive(t, x)
  <2>1. committed' = [committed EXCEPT ![x] = @ + 1] /\ committed \in [Txns -> Nat]
    BY <1>6 DEF ScoreLive, BaseInv, ScorerTypes, ScorerTypeOK
  <2>2. clean' /\ runs' = 1 /\ ~dryRun' => \A i \in 1..limit' : OnceAt(i)'
    <3> SUFFICES ASSUME clean, runs = 1, ~dryRun, NEW i \in 1..limit PROVE OnceAt(i)'
      BY DEF RunKept
    <3>1. request[t] = Batch /\ (client = "failed" \/ client = "waiting")
      BY <1>3 DEF AloneInv
    <3>2. PICK k \in BatchRows : x = Event(k)
      BY <1>2, <3>1 DEF Batch
    <3>3. k \in 1..limit /\ k > pos /\ k <= pos + BatchSize
      BY <3>2, BatchAssumption DEF BatchRows, Lesser, BaseInv, ArgumentsInv
    <3>4. OnceAt(i) /\ OnceAt(k) /\ Event(i) \in Txns /\ Event(i).id = i /\ Event(k).id = k
      BY <3>3, Events DEF CommitInv, BaseInv
    <3>5. Event(i)' = Event(i) /\ BatchRows' = BatchRows /\ client' = client /\ pos' = pos
      BY <1>1 DEF Event, BatchRows, RunKept
    <3> HIDE DEF Event, BatchRows
    <3>6. CASE i = k
      <4>1. committed[Event(i)] = 0
        BY <1>2, <1>3, <3>2, <3>4, <3>6 DEF OnceAt
      <4>2. committed'[Event(i)'] = 1
        BY <2>1, <3>2, <3>4, <3>5, <3>6, <4>1
      <4>3. \A u \in Threads : Active(u)' => Event(i)' \in TakenBy(u)'
        BY <1>2, <1>3, <1>4, <3>2, <3>5, <3>6 DEF AloneInv, Active
      <4>4. i > pos /\ i <= pos + BatchSize /\ client' # "posting" /\ BatchSize \in Nat /\ pos \in Nat
        BY <3>1, <3>3, <3>5, <3>6, BatchAssumption DEF BaseInv, ArgumentsInv
      <4> QED BY <3>5, <4>2, <4>3, <4>4 DEF OnceAt
    <3>7. CASE i # k
      <4>1. Event(i) # x
        BY <3>2, <3>4, <3>7
      <4>2. committed'[Event(i)'] = committed[Event(i)]
        BY <2>1, <3>4, <3>5, <4>1
      <4> QED BY <1>4, <3>4, <3>5, <4>2 DEF OnceAt, Active
    <3> QED BY <3>6, <3>7
  <2> QED BY <1>3, <2>2 DEF CommitInv, RunKept
<1> QED BY <1>1, <1>5, <1>6

LEMMA CommitStep ==
  ASSUME BaseInv, AloneInv, CommitInv, [ReplayNext]_allVars
  PROVE  CommitInv'
<1>0. runs \in Nat
  BY DEF BaseInv, ArgumentsInv
<1>1. CASE StartRun
  <2>1. runs' = runs + 1 /\ pos' = 0 /\ committed' = committed /\ pc' = pc
    BY <1>1 DEF StartRun, scorerVars
  <2>2. runs' # 0
    BY <1>0, <2>1
  <2>3. clean' /\ runs' = 1 /\ ~dryRun' => \A i \in 1..limit' : OnceAt(i)'
    <3> SUFFICES ASSUME clean', runs' = 1, NEW i \in 1..limit' PROVE OnceAt(i)'
      OBVIOUS
    <3>1. runs = 0
      BY <1>0, <2>1
    <3>2. Event(i)' \in Txns
      <4>1. csv' \in Files /\ limit' \in Nat /\ limit' <= Len(csv')
        BY <1>1, ServingStart DEF ServingInv, ArgumentsInv
      <4>2. limit' \in 1..Len(csv')
        BY <4>1, Rows
      <4>3. EventOf(csv', limit', i) \in Txns
        BY <4>1, <4>2, Rows
      <4> QED BY <4>3 DEF Event
    <3>3. committed'[Event(i)'] = 0
      BY <2>1, <3>1, <3>2 DEF CommitInv
    <3>4. ~(i <= pos')
      BY <2>1
    <3> QED BY <3>3, <3>4 DEF OnceAt
  <2> QED BY <2>2, <2>3 DEF CommitInv
<1>2. SUFFICES ASSUME RunKept PROVE CommitInv'
  BY <1>1, RunsKept
<1>3. ASSUME NEW t \in Threads, Post(t) PROVE CommitInv'
  <2>1. client = "posting" /\ client' = "waiting" /\ committed' = committed /\ pos' = pos
    BY <1>3 DEF Post
  <2>2. runs # 0
    BY <2>1 DEF CommitInv
  <2>3. clean' /\ runs' = 1 /\ ~dryRun' => \A i \in 1..limit' : OnceAt(i)'
    <3> SUFFICES ASSUME clean, runs = 1, ~dryRun, NEW i \in 1..limit PROVE OnceAt(i)'
      BY <1>2 DEF RunKept
    <3>1. OnceAt(i)
      BY DEF CommitInv
    <3>2. BatchRows' = BatchRows /\ Event(i)' = Event(i) /\ (i \in BatchRows => i > pos)
      BY <1>2, <2>1, BatchAssumption DEF BatchRows, Event, RunKept, BaseInv, ArgumentsInv, Lesser
    <3> HIDE DEF BatchRows, Event
    <3> QED BY <2>1, <3>1, <3>2 DEF OnceAt
  <2> QED BY <1>2, <2>2, <2>3 DEF CommitInv, RunKept
<1>4. CASE GiveUp
  <2>1. UNCHANGED <<committed, pos, pc, responses, current>> /\ client' = "failed" /\ client # "ended"
    BY <1>4 DEF GiveUp, scorerVars
  <2> QED BY <1>2, <2>1, CommitFrame DEF CommitInv, TakenBy
<1>5. CASE EndRun
  <2>1. UNCHANGED <<committed, pos, pc, responses, current>> /\ client' = "ended"
        /\ client = "posting"
    BY <1>5 DEF EndRun, scorerVars
  <2>2. runs # 0
    BY <2>1 DEF CommitInv
  <2>3. \A i : OnceAt(i) => OnceAt(i)'
    <3>1. BatchRows' = BatchRows /\ \A i : Event(i)' = Event(i)
      BY <1>2, <2>1 DEF BatchRows, Event, RunKept
    <3> HIDE DEF BatchRows, Event
    <3> QED BY <2>1, <3>1 DEF OnceAt, Active, TakenBy
  <2> QED BY <1>2, <2>2, <2>3 DEF CommitInv, RunKept
<1>6. ASSUME NEW t \in Threads, ThreadStep(t), pos' = pos, committed' = committed, pc[t] # "idle",
             pc'[t] # "idle" => TakenBy(t) \subseteq TakenBy(t)',
             client' = "failed" \/ client' = client
      PROVE  CommitInv'
  <2>1. \A u \in Threads : pc'[u] # "idle" => TakenBy(u) \subseteq TakenBy(u)' /\ pc[u] # "idle"
    BY <1>6, OthersKept DEF BaseInv
  <2>2. runs # 0
    BY <1>6 DEF CommitInv, Active
  <2> QED BY <1>2, <1>6, <2>1, <2>2, CommitFrame
<1>7. ASSUME NEW t \in Threads, LogEvent(t) PROVE CommitInv'
  BY <1>6, <1>7, OwnAppend DEF LogEvent, ThreadStep, replayVars
<1>8. ASSUME NEW t \in Threads, NEW a \in Accounts, ReadAccount(t, a) PROVE CommitInv'
  <2>1. ReadState(t, a) /\ committed' = committed
    BY <1>8 DEF ReadAccount, ReadState
  <2> QED BY <1>6, <1>8, <2>1, OwnRead DEF ReadAccount, ThreadStep, replayVars
<1>9. ASSUME NEW t \in Threads, NEW x \in Txns, Score(t, x) PROVE CommitInv'
  BY <1>2, <1>9, CommitScore
<1>10. ASSUME NEW t \in Threads, ServerFails(t) PROVE CommitInv'
  <2>1. ThreadStep(t) /\ pos' = pos /\ pc'[t] = "idle" /\ pc[t] # "idle" /\ committed' = committed
    BY <1>10, OwnFinish DEF ServerFails, ThreadStep
  <2> QED BY <1>6, <1>10, <2>1 DEF ServerFails
<1>11. ASSUME NEW t \in Threads, Answer(t) PROVE CommitInv'
  <2>1. CASE server = t
    BY <1>2, <1>11, <2>1, CommitAnswer
  <2>2. CASE server # t
    <3>1. ThreadStep(t) /\ pos' = pos /\ pc'[t] = "idle" /\ pc[t] # "idle" /\ committed' = committed
          /\ client' = client
      BY <1>11, <2>2, OwnFinish DEF Answer, ThreadStep
    <3> QED BY <1>6, <3>1
  <2> QED BY <2>1, <2>2
<1>12. ASSUME NEW a \in Accounts, ForgetAccount(a) PROVE CommitInv'
  BY <1>2, <1>12 DEF ForgetAccount, Expire, threadVars, CommitInv, RunKept, Active
<1>13. CASE UNCHANGED allVars
  <2>1. UNCHANGED <<committed, pos, pc, responses, current, client, runs, dryRun, limit, csv, clean>>
    BY <1>13 DEF allVars, scorerVars, replayVars
  <2>2. \A i : OnceAt(i)' <=> OnceAt(i)
    BY <2>1 DEF OnceAt, BatchRows, Event, Active, TakenBy
  <2> QED BY <2>1, <2>2 DEF CommitInv, Active
<1> QED BY <1>1, <1>3, <1>4, <1>5, <1>7, <1>8, <1>9, <1>10, <1>11, <1>12, <1>13
        DEF ReplayNext, ClientStep

(***************************************************************************)
(* A row of the output of a live run was committed and is in the log; a    *)
(* run on an empty store commits each row up to the batch in hand once,    *)
(* none twice and none beyond.                                             *)
(***************************************************************************)
THEOREM RowsWrittenOnce == ReplaySpec => []WrittenOnce
<1>1. ReplayInit => AloneInv /\ CommitInv
  BY DEF ReplayInit, ScorerInit, AloneInv, CommitInv, Active
<1>2. BaseInv /\ BaseInv' /\ AloneInv /\ CommitInv /\ [ReplayNext]_allVars
        => AloneInv' /\ CommitInv'
  BY AloneStep, CommitStep
<1>3. BaseInv /\ CommitInv => WrittenOnce
  <2> SUFFICES ASSUME BaseInv, CommitInv, ~dryRun PROVE WrittenOnce
    BY DEF WrittenOnce
  <2>1. ASSUME NEW f \in output PROVE committed[f.txn] >= 1 /\ logged[f.txn] >= 1
    <3>1. f.txn \in {g.txn : g \in output}
      BY <2>1
    <3>2. PICK i \in 1..pos : f.txn = Event(i)
      BY <3>1 DEF BaseInv, ResultsInv
    <3> QED BY <3>2 DEF BaseInv, OutputDurable
  <2>2. ASSUME clean, runs = 1, NEW i \in 1..limit PROVE OnceAt(i)
    BY <2>2 DEF CommitInv
  <2> QED BY <2>1, <2>2 DEF WrittenOnce, OnceAt, Event
<1> QED BY <1>1, <1>2, <1>3, ReplayInvariant, PTL DEF ReplaySpec

\* Gold: what the batch path folds before a row

LEMMA HighestOf ==
  ASSUME NEW n \in Nat, NEW S \in SUBSET (1..n), S # {}
  PROVE  \E j \in S : \A k \in S : k <= j
<1> DEFINE D == {n - k : k \in S}
<1>1. D \in SUBSET Nat /\ D # {}
  <2>1. \A k \in S : n - k \in Nat
    OBVIOUS
  <2> QED BY <2>1
<1>2. PICK d \in D : \A e \in D : d <= e
  BY <1>1, LeastOf
<1>3. PICK j \in S : d = n - j
  OBVIOUS
<1>4. ASSUME NEW k \in S PROVE k <= j
  <2>1. n - k \in D
    OBVIOUS
  <2>2. n - j <= n - k
    BY <1>2, <1>3, <2>1
  <2> QED BY <2>2
<1> QED BY <1>4

LEMMA MaxOf ==
  ASSUME NEW n \in Nat, NEW S \in SUBSET (1..n), S # {}
  PROVE  Max(S) \in S /\ \A k \in S : k <= Max(S)
<1>1. \E j \in S : \A k \in S : j >= k
  <2>1. PICK j \in S : \A k \in S : k <= j
    BY HighestOf
  <2> QED BY <2>1
<1>2. Max(S) \in S /\ \A k \in S : Max(S) >= k
  BY <1>1, Zenon DEF Max
<1> QED BY <1>2

LEMMA MaxIs ==
  ASSUME NEW n \in Nat, NEW S \in SUBSET (1..n), NEW m \in S, \A k \in S : k <= m
  PROVE  Max(S) = m
<1> DEFINE q == Max(S)
<1>1. q \in S /\ m <= q
  BY MaxOf
<1> HIDE DEF q
<1>2. q \in Nat /\ m \in Nat /\ q <= m
  BY <1>1
<1>3. q = m
  BY <1>1, <1>2
<1> QED BY <1>3 DEF q

(***************************************************************************)
(* FoldLeft of Advance over an enumeration, as the community module        *)
(* computes it: a function on the sets of positions.                       *)
(***************************************************************************)
Absorb(x, s) == Advance(x, s, NoScore)

FoldsOf(s, g) ==
  g = [S \in SUBSET DOMAIN s |-> IF S = {} THEN NoState
                                 ELSE Absorb(s[Max(S)], g[S \ {Max(S)}])]

Folds(s) == CHOOSE g : FoldsOf(s, g)
FoldAll(s) == Folds(s)[DOMAIN s]

\* g is such a function as far as position n
FoldsUpto(s, n, g) ==
  \A S \in SUBSET (1..n) : g[S] = IF S = {} THEN NoState
                                  ELSE Absorb(s[Max(S)], g[S \ {Max(S)}])

LEMMA FoldsExtend ==
  ASSUME NEW s, NEW n \in Nat, NEW g, FoldsUpto(s, n, g)
  PROVE  \E h : FoldsUpto(s, n + 1, h)
<1> DEFINE m == n + 1
           h == [S \in SUBSET (1..m) |->
                   IF m \in S THEN Absorb(s[m], g[S \ {m}]) ELSE g[S]]
<1>1. ASSUME NEW S \in SUBSET (1..m)
      PROVE  h[S] = IF S = {} THEN NoState ELSE Absorb(s[Max(S)], h[S \ {Max(S)}])
  <2>1. CASE m \in S
    <3>1. Max(S) = m
      BY <2>1, MaxIs
    <3>2. S \ {m} \in SUBSET (1..m) /\ m \notin S \ {m}
      OBVIOUS
    <3>3. h[S \ {m}] = g[S \ {m}]
      BY <3>2, Zenon
    <3>4. h[S] = Absorb(s[m], g[S \ {m}])
      BY <2>1, Zenon
    <3> QED BY <2>1, <3>1, <3>3, <3>4
  <2>2. CASE m \notin S
    <3>1. S \in SUBSET (1..n)
      BY <2>2
    <3>2. h[S] = g[S]
      BY <2>2, Zenon
    <3>3. CASE S = {}
      BY <3>1, <3>2, <3>3 DEF FoldsUpto
    <3>4. CASE S # {}
      <4>1. Max(S) \in S
        BY <3>1, <3>4, MaxOf
      <4>2. S \ {Max(S)} \in SUBSET (1..m) /\ m \notin S \ {Max(S)}
        BY <2>2
      <4>3. h[S \ {Max(S)}] = g[S \ {Max(S)}]
        BY <4>2, Zenon
      <4>4. g[S] = Absorb(s[Max(S)], g[S \ {Max(S)}])
        BY <3>1, <3>4 DEF FoldsUpto
      <4> QED BY <3>2, <3>4, <4>3, <4>4
    <3> QED BY <3>3, <3>4
  <2> QED BY <2>1, <2>2
<1> HIDE DEF h
<1>2. FoldsUpto(s, m, h)
  BY <1>1 DEF FoldsUpto
<1> QED BY <1>2

LEMMA FoldsExist ==
  ASSUME NEW s, NEW n \in Nat
  PROVE  \E g : FoldsUpto(s, n, g)
<1> DEFINE N == {k \in Nat : ~ \E g : FoldsUpto(s, k, g)}
<1>1. ASSUME N # {} PROVE FALSE
  <2>1. PICK k \in N : \A m \in N : k <= m
    BY <1>1, LeastOf
  <2>2. CASE k = 0
    <3> DEFINE g == [S \in {{}} |-> NoState]
    <3>1. \A S \in SUBSET (1..0) : S = {}
      OBVIOUS
    <3>2. FoldsUpto(s, 0, g)
      BY <3>1 DEF FoldsUpto
    <3> QED BY <2>1, <2>2, <3>2
  <2>3. CASE k # 0
    <3>1. k - 1 \in Nat /\ ~(k <= k - 1) /\ (k - 1) + 1 = k
      BY <2>1, <2>3
    <3>2. k - 1 \notin N
      BY <2>1, <3>1
    <3>3. PICK g : FoldsUpto(s, k - 1, g)
      BY <3>1, <3>2
    <3>4. \E h : FoldsUpto(s, (k - 1) + 1, h)
      BY <3>1, <3>3, FoldsExtend
    <3> QED BY <2>1, <3>1, <3>4
  <2> QED BY <2>2, <2>3
<1> QED BY <1>1

LEMMA FoldsEquation ==
  ASSUME NEW s, NEW n \in Nat, DOMAIN s = 1..n
  PROVE  FoldsUpto(s, n, Folds(s))
<1>1. PICK g : FoldsUpto(s, n, g)
  BY FoldsExist
<1> DEFINE h == [S \in SUBSET (1..n) |-> g[S]]
<1>2. ASSUME NEW S \in SUBSET (1..n)
      PROVE  h[S] = IF S = {} THEN NoState ELSE Absorb(s[Max(S)], h[S \ {Max(S)}])
  <2>1. g[S] = IF S = {} THEN NoState ELSE Absorb(s[Max(S)], g[S \ {Max(S)}])
    BY <1>1 DEF FoldsUpto
  <2>2. S \ {Max(S)} \in SUBSET (1..n)
    OBVIOUS
  <2> QED BY <2>1, <2>2
<1>3. FoldsOf(s, h)
  <2>1. h = [S \in SUBSET (1..n) |-> h[S]]
    OBVIOUS
  <2> HIDE DEF h
  <2>2. h = [S \in SUBSET (1..n) |-> IF S = {} THEN NoState ELSE Absorb(s[Max(S)], h[S \ {Max(S)}])]
    BY <1>2, <2>1
  <2> QED BY <2>2 DEF FoldsOf
<1>4. FoldsOf(s, Folds(s))
  BY <1>3, Zenon DEF Folds
<1> DEFINE e == Folds(s)
<1> HIDE DEF e
<1>5. e = [S \in SUBSET (1..n) |-> IF S = {} THEN NoState ELSE Absorb(s[Max(S)], e[S \ {Max(S)}])]
  BY <1>4 DEF e, FoldsOf
<1>6. FoldsUpto(s, n, e)
  BY <1>5, Zenon DEF FoldsUpto
<1> QED BY <1>6 DEF e

\* one position after another
LEMMA FoldsOneByOne ==
  ASSUME NEW s, NEW n \in Nat, NEW g, FoldsUpto(s, n, g)
  PROVE  /\ g[{}] = NoState
         /\ \A k \in 1..n : g[1..k] = Absorb(s[k], g[1..(k - 1)])
<1>1. g[{}] = NoState
  BY DEF FoldsUpto
<1>2. ASSUME NEW k \in 1..n PROVE g[1..k] = Absorb(s[k], g[1..(k - 1)])
  <2>1. 1..k \in SUBSET (1..n) /\ k \in 1..k /\ (1..k) \ {k} = 1..(k - 1) /\ \A j \in 1..k : j <= k
    OBVIOUS
  <2>2. Max(1..k) = k
    BY <2>1, MaxIs
  <2>3. g[1..k] = Absorb(s[Max(1..k)], g[(1..k) \ {Max(1..k)}])
    BY <2>1 DEF FoldsUpto
  <2> QED BY <2>1, <2>2, <2>3
<1> QED BY <1>1, <1>2

\* one element more at the end is one more step of the fold
LEMMA FoldSnoc ==
  ASSUME NEW n \in Nat, NEW s, NEW t, DOMAIN s = 1..n, DOMAIN t = 1..(n + 1),
         \A k \in 1..n : t[k] = s[k]
  PROVE  FoldAll(t) = Absorb(t[n + 1], FoldAll(s))
<1> DEFINE g == Folds(s)
           h == Folds(t)
<1>1. FoldsUpto(s, n, g) /\ FoldsUpto(t, n + 1, h)
  BY FoldsEquation
<1> HIDE DEF g, h
<1>2. /\ g[{}] = NoState /\ h[{}] = NoState
      /\ \A k \in 1..n : g[1..k] = Absorb(s[k], g[1..(k - 1)])
  BY <1>1, FoldsOneByOne
<1>3. \A k \in 1..(n + 1) : h[1..k] = Absorb(t[k], h[1..(k - 1)])
  BY <1>1, FoldsOneByOne
<1> DEFINE N == {k \in 0..n : g[1..k] # h[1..k]}
<1>4. ASSUME N # {} PROVE FALSE
  <2>1. PICK k \in N : \A m \in N : k <= m
    <3>1. N \in SUBSET Nat
      OBVIOUS
    <3> QED BY <1>4, <3>1, LeastOf
  <2>2. k # 0
    <3>1. 1..0 = {}
      OBVIOUS
    <3> QED BY <1>2, <2>1, <3>1
  <2>3. k \in 1..n /\ k - 1 \in 0..n /\ ~(k <= k - 1) /\ k \in 1..(n + 1)
    BY <2>1, <2>2
  <2>4. g[1..(k - 1)] = h[1..(k - 1)]
    BY <2>1, <2>3
  <2>5. g[1..k] = h[1..k]
    BY <1>2, <1>3, <2>3, <2>4
  <2> QED BY <2>1, <2>5
<1>5. g[1..n] = h[1..n]
  BY <1>4
<1>6. h[1..(n + 1)] = Absorb(t[n + 1], h[1..n])
  <2>1. n + 1 \in 1..(n + 1) /\ (n + 1) - 1 = n
    OBVIOUS
  <2> QED BY <1>3, <2>1
<1> QED BY <1>5, <1>6 DEF FoldAll, g, h

LEMMA FoldNone ==
  ASSUME NEW s, DOMAIN s = {}
  PROVE  FoldAll(s) = NoState
<1>1. DOMAIN s = 1..0 /\ 1..0 = {}
  OBVIOUS
<1>2. FoldsUpto(s, 0, Folds(s))
  BY <1>1, FoldsEquation
<1> QED BY <1>1, <1>2 DEF FoldsUpto, FoldAll

\* Enumerations in order of time

Sorted(s, T) ==
  /\ s \in [1..Cardinality(T) -> T]
  /\ \A j, k \in DOMAIN s : j < k => Earlier(s[j], s[k])

LEMMA EarlierIsStrict ==
  ASSUME NEW x \in Transaction, NEW y \in Transaction, Earlier(x, y)
  PROVE  ~Earlier(y, x) /\ x # y
BY DEF Earlier, NotBefore, Transaction

LEMMA SortedOnto ==
  ASSUME NEW T \in SUBSET Transaction, IsFiniteSet(T), NEW s, Sorted(s, T)
  PROVE  /\ \A x \in T : \E k \in 1..Cardinality(T) : s[k] = x
         /\ \A j, k \in 1..Cardinality(T) : s[j] = s[k] => j = k
<1> DEFINE n == Cardinality(T)
<1>1. n \in Nat
  BY FS_CardinalityType
<1>2. s \in [1..n -> T] /\ \A j, k \in 1..n : j < k => Earlier(s[j], s[k])
  BY DEF Sorted
<1>3. IsFiniteSet(1..n) /\ Cardinality(1..n) = n
  BY <1>1, FS_Interval
<1> HIDE DEF n
<1>4. \A j, k \in 1..n : s[j] = s[k] => j = k
  <2> SUFFICES ASSUME NEW j \in 1..n, NEW k \in 1..n, s[j] = s[k], j < k PROVE FALSE
    BY <1>1
  <2>1. Earlier(s[j], s[k]) /\ s[j] \in Transaction /\ s[k] \in Transaction
    BY <1>2
  <2> QED BY <2>1, EarlierIsStrict
<1>5. s \in Injection(1..n, T)
  BY <1>2, <1>4 DEF Injection, IsInjective
<1>6. s \in Surjection(1..n, T)
  <2>1. Cardinality(1..n) = Cardinality(T)
    BY <1>3 DEF n
  <2> QED BY <1>5, <2>1, FS_Injection
<1>7. \A x \in T : \E k \in 1..n : s[k] = x
  BY <1>6 DEF Surjection
<1> QED BY <1>4, <1>7 DEF n

LEMMA SortedUnique ==
  ASSUME NEW T \in SUBSET Transaction, IsFiniteSet(T), NEW s, NEW t, Sorted(s, T), Sorted(t, T)
  PROVE  s = t
<1> DEFINE n == Cardinality(T)
<1>1. n \in Nat
  BY FS_CardinalityType
<1>2. /\ s \in [1..n -> T] /\ \A j, k \in 1..n : j < k => Earlier(s[j], s[k])
      /\ t \in [1..n -> T] /\ \A j, k \in 1..n : j < k => Earlier(t[j], t[k])
  BY DEF Sorted
<1>3. /\ \A x \in T : \E k \in 1..n : s[k] = x
      /\ \A x \in T : \E k \in 1..n : t[k] = x
      /\ \A j, k \in 1..n : s[j] = s[k] => j = k
      /\ \A j, k \in 1..n : t[j] = t[k] => j = k
  BY SortedOnto
<1> HIDE DEF n
<1> DEFINE N == {k \in 1..n : s[k] # t[k]}
<1>4. ASSUME N # {} PROVE FALSE
  <2>1. PICK k \in N : \A m \in N : k <= m
    <3>1. N \in SUBSET Nat
      OBVIOUS
    <3> QED BY <1>4, <3>1, LeastOf
  <2>2. k \in 1..n /\ s[k] # t[k] /\ s[k] \in T /\ t[k] \in T /\ s[k] \in Transaction /\ t[k] \in Transaction
    BY <1>2, <2>1
  <2>3. \A j \in 1..n : j < k => s[j] = t[j]
    BY <1>1, <2>1
  <2>4. PICK i \in 1..n : s[i] = t[k]
    BY <1>3, <2>2
  <2>5. PICK j \in 1..n : t[j] = s[k]
    BY <1>3, <2>2
  <2>6. k < i
    <3>1. i # k
      BY <2>2, <2>4
    <3>2. ASSUME i < k PROVE FALSE
      <4>1. t[i] = t[k]
        BY <2>3, <2>4, <3>2
      <4> QED BY <1>3, <2>2, <3>2, <4>1
    <3> QED BY <1>1, <2>2, <3>1, <3>2
  <2>7. k < j
    <3>1. j # k
      BY <2>2, <2>5
    <3>2. ASSUME j < k PROVE FALSE
      <4>1. s[j] = s[k]
        BY <2>3, <2>5, <3>2
      <4> QED BY <1>3, <2>2, <3>2, <4>1
    <3> QED BY <1>1, <2>2, <3>1, <3>2
  <2>8. Earlier(s[k], t[k]) /\ Earlier(t[k], s[k])
    BY <1>2, <2>2, <2>4, <2>5, <2>6, <2>7
  <2> QED BY <2>2, <2>8, EarlierIsStrict
<1>5. \A k \in 1..n : s[k] = t[k]
  BY <1>4
<1> HIDE DEF N
<1>6. s = [k \in 1..n |-> s[k]] /\ t = [k \in 1..n |-> t[k]]
  BY <1>2
<1> QED BY <1>5, <1>6

LEMMA SortedSnoc ==
  ASSUME NEW T \in SUBSET Transaction, IsFiniteSet(T), NEW m \in Transaction,
         \A x \in T : Earlier(x, m), NEW s, Sorted(s, T)
  PROVE  LET n == Cardinality(T) IN
         Sorted([k \in 1..(n + 1) |-> IF k = n + 1 THEN m ELSE s[k]], T \cup {m})
<1> DEFINE n == Cardinality(T)
           t == [k \in 1..(n + 1) |-> IF k = n + 1 THEN m ELSE s[k]]
<1>1. n \in Nat
  BY FS_CardinalityType
<1>2. m \notin T
  BY EarlierIsStrict
<1>3. Cardinality(T \cup {m}) = n + 1
  BY <1>2, FS_AddElement
<1>4. s \in [1..n -> T] /\ \A j, k \in 1..n : j < k => Earlier(s[j], s[k])
  BY DEF Sorted
<1> HIDE DEF n
<1>5. t \in [1..(n + 1) -> T \cup {m}]
  BY <1>1, <1>4
<1>6. ASSUME NEW j \in 1..(n + 1), NEW k \in 1..(n + 1), j < k PROVE Earlier(t[j], t[k])
  <2>1. j \in 1..n /\ t[j] = s[j] /\ s[j] \in T
    BY <1>1, <1>4, <1>6
  <2>2. CASE k = n + 1
    BY <2>1, <2>2
  <2>3. CASE k # n + 1
    BY <1>1, <1>4, <1>6, <2>1, <2>3
  <2> QED BY <2>2, <2>3
<1> HIDE DEF t
<1>7. Sorted(t, T \cup {m})
  BY <1>3, <1>5, <1>6 DEF Sorted
<1> QED BY <1>7 DEF t, n

LEMMA OrderIsSorted ==
  ASSUME NEW T, NEW s, Sorted(s, T)
  PROVE  Sorted(InTimeOrder(T), T)
BY Zenon DEF InTimeOrder, Sorted, Earlier

\* The rows of the account before row i

Silver(f, j) == EventOf(f, Len(f), j)
RowsBefore(f, i) == {j \in 1..Len(f) : f[j].account = f[i].account /\ j < i}
EventsBefore(f, i) == {Silver(f, j) : j \in RowsBefore(f, i)}

LEMMA SilverRows ==
  ASSUME NEW f \in Files
  PROVE  /\ Len(f) \in Nat /\ DOMAIN f = 1..Len(f)
         /\ \A j \in 1..Len(f) : /\ Silver(f, j) \in Txns /\ Silver(f, j) \in Transaction
                                 /\ Silver(f, j).id = j /\ Silver(f, j).account = f[j].account
<1>1. f \in Seq([account : Accounts, step : Nat \ {0}, amount : Nat])
  BY FilesAssumption
<1>2. Len(f) \in Nat /\ DOMAIN f = 1..Len(f)
  BY <1>1
<1>3. \A n \in DOMAIN f : \A i \in 1..n : EventOf(f, n, i) \in Txns
  BY FilesAssumption
<1>4. \A n, i : EventOf(f, n, i).id = i /\ EventOf(f, n, i).account = f[i].account
  BY EventFields
<1>5. \A j \in 1..Len(f) : Silver(f, j) \in Txns
  <2> SUFFICES ASSUME NEW j \in 1..Len(f) PROVE Silver(f, j) \in Txns
    OBVIOUS
  <2>1. Len(f) \in DOMAIN f
    BY <1>2
  <2> QED BY <1>3, <2>1 DEF Silver
<1> QED BY <1>2, <1>4, <1>5, TxnsAssumption DEF Silver

LEMMA EarlierRows ==
  ASSUME NEW f \in Files, NEW i \in 1..Len(f)
  PROVE  {y \in {EventOf(f, Len(f), j) : j \in DOMAIN f} :
            y.account = EventOf(f, Len(f), i).account
              /\ ~NotBefore(y, EventOf(f, Len(f), i))} = EventsBefore(f, i)
<1>1. /\ Len(f) \in Nat /\ DOMAIN f = 1..Len(f)
      /\ \A j \in 1..Len(f) : Silver(f, j) \in Transaction /\ Silver(f, j).account = f[j].account
  BY SilverRows
<1>2. \A j \in 1..Len(f) : j < i => Earlier(Silver(f, j), Silver(f, i))
  BY <1>1, RowOrder DEF Silver
<1>3. \A j \in 1..Len(f) : ~(j < i) => ~Earlier(Silver(f, j), Silver(f, i))
  <2> SUFFICES ASSUME NEW j \in 1..Len(f), ~(j < i) PROVE ~Earlier(Silver(f, j), Silver(f, i))
    OBVIOUS
  <2>1. CASE i < j
    <3>1. Earlier(Silver(f, i), Silver(f, j))
      BY <1>1, <2>1, RowOrder DEF Silver
    <3> QED BY <1>1, <3>1, EarlierIsStrict
  <2>2. CASE i = j
    BY <1>1, <2>2, EarlierIsStrict
  <2> QED BY <1>1, <2>1, <2>2
<1> QED BY <1>1, <1>2, <1>3 DEF EventsBefore, RowsBefore, Silver, Earlier

LEMMA EventsBeforeFinite ==
  ASSUME NEW f \in Files, NEW i \in 1..Len(f)
  PROVE  /\ EventsBefore(f, i) \in SUBSET Transaction /\ IsFiniteSet(EventsBefore(f, i))
         /\ RowsBefore(f, i) \in SUBSET (1..Len(f))
<1>1. /\ Len(f) \in Nat /\ \A j \in 1..Len(f) : Silver(f, j) \in Transaction
  BY SilverRows
<1>2. IsFiniteSet(RowsBefore(f, i)) /\ RowsBefore(f, i) \in SUBSET (1..Len(f))
  <2>1. IsFiniteSet(1..Len(f))
    BY <1>1, FS_Interval
  <2> QED BY <2>1, FS_Subset DEF RowsBefore
<1>3. IsFiniteSet({Silver(f, j) : j \in RowsBefore(f, i)})
  <2> DEFINE R == RowsBefore(f, i)
             g == [j \in R |-> Silver(f, j)]
             E == {Silver(f, j) : j \in R}
  <2>1. g \in Surjection(R, E)
    BY DEF Surjection
  <2> QED BY <1>2, <2>1, FS_Surjection
<1> QED BY <1>1, <1>2, <1>3 DEF EventsBefore

\* m is the account's last row before i
IsLatest(f, i, m) == m \in RowsBefore(f, i) /\ \A k \in RowsBefore(f, i) : k <= m

LEMMA LatestExists ==
  ASSUME NEW f \in Files, NEW i \in 1..Len(f), RowsBefore(f, i) # {}
  PROVE  \E m \in 1..Len(f) : m < i /\ IsLatest(f, i, m)
<1>1. PICK m \in RowsBefore(f, i) : \A k \in RowsBefore(f, i) : k <= m
  BY EventsBeforeFinite, SilverRows, HighestOf
<1>2. m \in 1..Len(f) /\ m < i
  BY <1>1 DEF RowsBefore
<1> QED BY <1>1, <1>2 DEF IsLatest

LEMMA EventsGrow ==
  ASSUME NEW f \in Files, NEW i \in 1..Len(f), NEW m \in 1..Len(f), IsLatest(f, i, m)
  PROVE  /\ EventsBefore(f, i) = EventsBefore(f, m) \cup {Silver(f, m)}
         /\ \A x \in EventsBefore(f, m) : Earlier(x, Silver(f, m))
         /\ Silver(f, m) \in Transaction /\ Silver(f, m).account = f[i].account
<1>0. Len(f) \in Nat
  BY SilverRows
<1>1. f[m].account = f[i].account /\ m < i
  BY DEF IsLatest, RowsBefore
<1>2. RowsBefore(f, i) = RowsBefore(f, m) \cup {m}
  BY <1>0, <1>1 DEF IsLatest, RowsBefore
<1>3. \A j \in RowsBefore(f, m) : j \in 1..Len(f) /\ j < m
  BY DEF RowsBefore
<1>4. \A j \in RowsBefore(f, m) : Earlier(Silver(f, j), Silver(f, m))
  BY <1>0, <1>3, RowOrder DEF Silver
<1> QED BY <1>1, <1>2, <1>4, SilverRows DEF EventsBefore

LEMMA OrdersExist ==
  ASSUME NEW f \in Files
  PROVE  \A i \in 1..Len(f) : \E s : Sorted(s, EventsBefore(f, i))
<1> DEFINE N == {i \in 1..Len(f) : ~ \E s : Sorted(s, EventsBefore(f, i))}
<1>1. ASSUME N # {} PROVE FALSE
  <2>1. PICK i \in N : \A k \in N : i <= k
    <3>1. N \in SUBSET Nat
      BY SilverRows
    <3> QED BY <1>1, <3>1, LeastOf
  <2>2. i \in 1..Len(f) /\ i \in Nat /\ Len(f) \in Nat
    BY <2>1, SilverRows
  <2>3. CASE RowsBefore(f, i) = {}
    <3>1. EventsBefore(f, i) = {}
      BY <2>3 DEF EventsBefore
    <3>2. Cardinality({}) = 0 /\ 1..0 = {}
      BY FS_EmptySet
    <3>3. Sorted([k \in {} |-> k], {})
      BY <3>2 DEF Sorted
    <3> QED BY <2>1, <3>1, <3>3
  <2>4. CASE RowsBefore(f, i) # {}
    <3>1. PICK m \in 1..Len(f) : m < i /\ IsLatest(f, i, m)
      BY <2>2, <2>4, LatestExists
    <3>2. m \notin N
      BY <2>1, <2>2, <3>1
    <3>3. PICK s : Sorted(s, EventsBefore(f, m))
      BY <3>1, <3>2
    <3> DEFINE n == Cardinality(EventsBefore(f, m))
               t == [k \in 1..(n + 1) |-> IF k = n + 1 THEN Silver(f, m) ELSE s[k]]
    <3>4. Sorted(t, EventsBefore(f, m) \cup {Silver(f, m)})
      BY <2>2, <3>1, <3>3, EventsGrow, EventsBeforeFinite, SortedSnoc
    <3>5. \E u : Sorted(u, EventsBefore(f, m) \cup {Silver(f, m)})
      <4> HIDE DEF t
      <4> QED BY <3>4
    <3>6. EventsBefore(f, i) = EventsBefore(f, m) \cup {Silver(f, m)}
      BY <2>2, <3>1, EventsGrow
    <3> QED BY <2>1, <3>5, <3>6
  <2> QED BY <2>3, <2>4
<1> QED BY <1>1

LEMMA GoldIsFold ==
  ASSUME NEW f \in Files, NEW i \in 1..Len(f)
  PROVE  GoldPrior(f, i) = FoldAll(InTimeOrder(EventsBefore(f, i)))
<1>1. ASSUME NEW s
      PROVE  FoldLeft(LAMBDA p, y : Advance(y, p, NoScore), NoState, s) = FoldAll(s)
  BY Zenon DEF FoldLeft, MapThenFoldSet, FoldAll, Folds, FoldsOf, Absorb
<1>2. GoldPrior(f, i) =
        FoldLeft(LAMBDA p, y : Advance(y, p, NoScore), NoState, InTimeOrder(EventsBefore(f, i)))
  BY EarlierRows, Zenon DEF GoldPrior
<1> QED BY <1>1, <1>2

(***************************************************************************)
(* What the batch path knows before a row is what it knew before the       *)
(* account's previous row, and that row: nothing, for the first.           *)
(***************************************************************************)
GoldAfter(f, i) == Advance(Silver(f, i), GoldPrior(f, i), NoScore)

LEMMA GoldFirst ==
  ASSUME NEW f \in Files, NEW i \in 1..Len(f), RowsBefore(f, i) = {}
  PROVE  GoldPrior(f, i) = NoState
<1>1. EventsBefore(f, i) = {}
  BY DEF EventsBefore
<1>2. PICK s : Sorted(s, EventsBefore(f, i))
  BY OrdersExist
<1>3. Sorted(InTimeOrder({}), {})
  BY <1>1, <1>2, OrderIsSorted
<1>4. DOMAIN InTimeOrder({}) = {}
  <2>1. Cardinality({}) = 0 /\ 1..0 = {}
    BY FS_EmptySet
  <2> QED BY <1>3, <2>1 DEF Sorted
<1> QED BY <1>1, <1>4, GoldIsFold, FoldNone

LEMMA GoldNext ==
  ASSUME NEW f \in Files, NEW i \in 1..Len(f), NEW m \in 1..Len(f), IsLatest(f, i, m)
  PROVE  GoldPrior(f, i) = GoldAfter(f, m)
<1> DEFINE T == EventsBefore(f, m)
           n == Cardinality(T)
           s == InTimeOrder(T)
           t == InTimeOrder(T \cup {Silver(f, m)})
           u == [k \in 1..(n + 1) |-> IF k = n + 1 THEN Silver(f, m) ELSE s[k]]
<1>1. /\ EventsBefore(f, i) = T \cup {Silver(f, m)} /\ Silver(f, m) \in Transaction
      /\ \A x \in T : Earlier(x, Silver(f, m))
  BY EventsGrow
<1>2. /\ T \in SUBSET Transaction /\ IsFiniteSet(T)
      /\ T \cup {Silver(f, m)} \in SUBSET Transaction /\ IsFiniteSet(T \cup {Silver(f, m)})
  BY <1>1, EventsBeforeFinite
<1>3. Sorted(s, T) /\ Sorted(t, T \cup {Silver(f, m)})
  BY <1>1, OrdersExist, OrderIsSorted
<1>4. Sorted(u, T \cup {Silver(f, m)})
  <2> HIDE DEF T, s
  <2> QED BY <1>1, <1>2, <1>3, SortedSnoc
<1>5. t = u
  <2> HIDE DEF T, t, u
  <2> QED BY <1>2, <1>3, <1>4, SortedUnique
<1>6. n \in Nat /\ DOMAIN s = 1..n
  BY <1>2, <1>3, FS_CardinalityType DEF Sorted
<1>7. FoldAll(u) = Absorb(u[n + 1], FoldAll(s))
  <2>1. DOMAIN u = 1..(n + 1) /\ \A k \in 1..n : u[k] = s[k]
    <3> HIDE DEF n, s
    <3> QED BY <1>6
  <2> HIDE DEF n, s, u
  <2> QED BY <1>6, <2>1, FoldSnoc
<1>8. u[n + 1] = Silver(f, m)
  <2> HIDE DEF n, s
  <2> QED BY <1>6
<1>9. GoldPrior(f, i) = FoldAll(t) /\ GoldPrior(f, m) = FoldAll(s)
  BY <1>1, GoldIsFold
<1> HIDE DEF T, n, s, t, u
<1> QED BY <1>5, <1>7, <1>8, <1>9 DEF GoldAfter, Absorb

\* gold's fold of a row is a coherent state of its account, without a score
GoldOf(a, s) == s \in MaybeState /\ DocumentOf(a, s) /\ (s # NoState => s.score = NoScore)

LEMMA AbsorbGold ==
  ASSUME NEW x \in Transaction, NEW s, GoldOf(x.account, s)
  PROVE  /\ GoldOf(x.account, Advance(x, s, NoScore))
         /\ Advance(x, s, NoScore) # NoState
<1>1. NoScore \in ScoreOf
  BY DEF ScoreOf
<1>2. s # NoState => Coherent(s) /\ s.account = x.account
  BY DEF GoldOf, DocumentOf
<1>3. s \in MaybeState
  BY DEF GoldOf
<1> DEFINE new == Advance(x, s, NoScore)
<1>4. new \in AccountState /\ Coherent(new) /\ new.account = x.account
  BY <1>1, <1>2, <1>3, AdvanceFold
<1>5. new.score = NoScore
  <2>1. CASE s = NoState
    BY <2>1 DEF Advance, Singleton
  <2>2. CASE s # NoState
    <3>1. s.score = NoScore
      BY <2>2 DEF GoldOf
    <3> QED BY <2>2, <3>1 DEF Advance
  <2> QED BY <2>1, <2>2
<1> HIDE DEF new
<1>6. new # NoState
  BY <1>4, NoStateAssumption
<1> QED BY <1>4, <1>5, <1>6 DEF GoldOf, MaybeState, DocumentOf, new

LEMMA GoldTyped ==
  ASSUME NEW f \in Files
  PROVE  \A i \in 1..Len(f) : /\ GoldOf(f[i].account, GoldPrior(f, i))
                              /\ GoldOf(f[i].account, GoldAfter(f, i))
                              /\ GoldAfter(f, i) # NoState
<1> DEFINE N == {i \in 1..Len(f) : ~GoldOf(f[i].account, GoldPrior(f, i))}
<1>0. \A i \in 1..Len(f) : Silver(f, i) \in Transaction /\ Silver(f, i).account = f[i].account
  BY SilverRows
<1>1. ASSUME N # {} PROVE FALSE
  <2>1. PICK i \in N : \A k \in N : i <= k
    <3>1. N \in SUBSET Nat
      BY SilverRows
    <3> QED BY <1>1, <3>1, LeastOf
  <2>2. i \in 1..Len(f) /\ i \in Nat /\ Len(f) \in Nat
    BY <2>1, SilverRows
  <2>3. CASE RowsBefore(f, i) = {}
    <3>1. GoldPrior(f, i) = NoState
      BY <2>2, <2>3, GoldFirst
    <3>2. GoldOf(f[i].account, NoState)
      BY DEF GoldOf, MaybeState, DocumentOf
    <3> QED BY <2>1, <3>1, <3>2
  <2>4. CASE RowsBefore(f, i) # {}
    <3>1. PICK m \in 1..Len(f) : m < i /\ IsLatest(f, i, m)
      BY <2>2, <2>4, LatestExists
    <3>2. m \notin N
      BY <2>1, <2>2, <3>1
    <3>3. GoldOf(f[m].account, GoldPrior(f, m))
      BY <3>1, <3>2
    <3>4. GoldOf(f[m].account, GoldAfter(f, m))
      BY <1>0, <3>3, AbsorbGold DEF GoldAfter
    <3>5. GoldPrior(f, i) = GoldAfter(f, m)
      BY <2>2, <3>1, GoldNext
    <3>6. f[m].account = f[i].account
      BY <3>1 DEF IsLatest, RowsBefore
    <3> QED BY <2>1, <3>4, <3>5, <3>6
  <2> QED BY <2>3, <2>4
<1>2. \A i \in 1..Len(f) : GoldOf(f[i].account, GoldPrior(f, i))
  BY <1>1
<1>3. ASSUME NEW i \in 1..Len(f)
      PROVE  GoldOf(f[i].account, GoldAfter(f, i)) /\ GoldAfter(f, i) # NoState
  BY <1>0, <1>2, AbsorbGold DEF GoldAfter
<1> QED BY <1>2, <1>3

\* Comparing the state a thread has with gold's

\* the features of row i are compared: StepComplete, and SameBatch in a dry run
Compared(f, n, d, i) ==
  /\ \A j \in DOMAIN f : f[j].step = f[i].step => j <= n
  /\ d => \A j \in 1..i :
       f[j].account = f[i].account => (j - 1) \div BatchSize = (i - 1) \div BatchSize

SameButScore(s, g) ==
  /\ s # NoState /\ g # NoState
  /\ s.account = g.account /\ s.anchor = g.anchor /\ s.first = g.first
  /\ s.count = g.count /\ s.sum = g.sum /\ s.max = g.max /\ s.updated = g.updated

\* s is the fold of the rows S, as far as they are compared
Covers(f, n, d, s, S) ==
  IF S = {} THEN s = NoState
  ELSE Compared(f, n, d, Max(S)) => SameButScore(s, GoldAfter(f, Max(S)))

Matches(s, g) == (s = NoState /\ g = NoState) \/ SameButScore(s, g)

LEMMA ComparedDown ==
  ASSUME NEW f \in Files, NEW n \in Nat, n <= Len(f), NEW d, NEW i \in 1..n,
         Compared(f, n, d, i), NEW m \in RowsBefore(f, i)
  PROVE  Compared(f, n, d, m)
<1>1. f \in Seq([account : Accounts, step : Nat \ {0}, amount : Nat])
  BY FilesAssumption
<1>2. Len(f) \in Nat /\ DOMAIN f = 1..Len(f) /\ m \in DOMAIN f /\ m < i /\ i \in DOMAIN f
      /\ f[m].account = f[i].account
  BY <1>1 DEF RowsBefore
<1>3. \A j \in DOMAIN f : f[j].step \in Nat
  <2> DEFINE R == [account : Accounts, step : Nat \ {0}, amount : Nat]
  <2>1. \A r \in R : r.step \in Nat
    OBVIOUS
  <2>2. f \in Seq(R)
    BY <1>1
  <2> HIDE DEF R
  <2>3. \A j \in DOMAIN f : f[j] \in R
    BY <2>2
  <2> QED BY <2>1, <2>3
<1>4. ASSUME NEW j \in DOMAIN f, f[j].step = f[m].step PROVE j <= n
  <2>0. \A p, q \in DOMAIN f : p <= q => f[p].step <= f[q].step
    BY FilesAssumption
  <2>1. f[m].step <= f[i].step
    BY <1>2, <2>0
  <2>2. CASE f[m].step = f[i].step
    BY <1>4, <2>2 DEF Compared
  <2>3. CASE f[m].step # f[i].step
    <3>1. ASSUME i <= j PROVE FALSE
      <4>1. f[i].step <= f[j].step
        BY <1>2, <3>1, FilesAssumption
      <4> QED BY <1>2, <1>3, <1>4, <2>1, <2>3, <4>1
    <3> QED BY <1>2, <3>1
  <2> QED BY <2>2, <2>3
<1>5. ASSUME d, NEW j \in 1..m, f[j].account = f[m].account
      PROVE  (j - 1) \div BatchSize = (m - 1) \div BatchSize
  <2>1. j \in 1..i /\ m \in 1..i
    BY <1>2
  <2> QED BY <1>2, <1>5, <2>1 DEF Compared
<1> QED BY <1>4, <1>5 DEF Compared

LEMMA EventIsSilver ==
  ASSUME NEW f \in Files, NEW n \in Nat, n <= Len(f), NEW d, NEW i \in 1..n,
         Compared(f, n, d, i)
  PROVE  EventOf(f, n, i) = Silver(f, i)
<1>1. Len(f) \in Nat /\ DOMAIN f = 1..Len(f)
  BY SilverRows
<1>2. {j \in 1..n : f[j].step = f[i].step} = {j \in 1..Len(f) : f[j].step = f[i].step}
  BY <1>1 DEF Compared
<1> QED BY <1>2 DEF EventOf, Silver

LEMMA PriorMatches ==
  ASSUME NEW f \in Files, NEW n \in Nat, n <= Len(f), NEW d, NEW i \in 1..n,
         Compared(f, n, d, i), NEW s, Covers(f, n, d, s, RowsBefore(f, i))
  PROVE  Matches(s, GoldPrior(f, i))
<1>1. i \in 1..Len(f) /\ Len(f) \in Nat
  BY SilverRows
<1>2. CASE RowsBefore(f, i) = {}
  BY <1>1, <1>2, GoldFirst DEF Covers, Matches
<1>3. CASE RowsBefore(f, i) # {}
  <2> DEFINE m == Max(RowsBefore(f, i))
  <2>1. m \in RowsBefore(f, i) /\ \A k \in RowsBefore(f, i) : k <= m
    BY <1>1, <1>3, EventsBeforeFinite, MaxOf
  <2> HIDE DEF m
  <2>2. m \in 1..Len(f) /\ IsLatest(f, i, m)
    BY <2>1 DEF IsLatest, RowsBefore
  <2>3. Compared(f, n, d, m)
    BY <2>1, ComparedDown
  <2>4. SameButScore(s, GoldAfter(f, m))
    BY <1>3, <2>3 DEF Covers, m
  <2> QED BY <1>1, <2>2, <2>4, GoldNext DEF Matches
<1> QED BY <1>2, <1>3

LEMMA LastScoreOnly ==
  ASSUME NEW x, NEW isFirst, NEW a, NEW b, NEW c, NEW u, NEW m, NEW g, NEW score, NEW other
  PROVE  [[txn |-> x, first |-> isFirst, sinceLast |-> a, amountDelta |-> b, count |-> c,
           sum |-> u, max |-> m, age |-> g, lastScore |-> score] EXCEPT !.lastScore = other]
         = [txn |-> x, first |-> isFirst, sinceLast |-> a, amountDelta |-> b, count |-> c,
            sum |-> u, max |-> m, age |-> g, lastScore |-> other]
OBVIOUS

LEMMA FeaturesMatch ==
  ASSUME NEW x, NEW s, NEW g, Matches(s, g), g # NoState => g.score = NoScore
  PROVE  Unscored(ComputeFeatures(x, s)) = ComputeFeatures(x, g)
<1>1. CASE s = NoState /\ g = NoState
  BY <1>1 DEF ComputeFeatures, Unscored
<1>2. CASE SameButScore(s, g)
  <2>1. s # NoState /\ g # NoState /\ g.score = NoScore
    BY <1>2 DEF SameButScore
  <2> DEFINE no == FALSE
  <2> DEFINE fs == [txn |-> x, first |-> no,
                    sinceLast |-> x.ts - s.anchor.ts,
                    amountDelta |-> x.amount - s.anchor.amount,
                    count |-> s.count, sum |-> s.sum, max |-> s.max,
                    age |-> x.ts - s.first, lastScore |-> s.score]
             fg == [txn |-> x, first |-> no,
                    sinceLast |-> x.ts - g.anchor.ts,
                    amountDelta |-> x.amount - g.anchor.amount,
                    count |-> g.count, sum |-> g.sum, max |-> g.max,
                    age |-> x.ts - g.first, lastScore |-> g.score]
  <2>2. ComputeFeatures(x, s) = fs /\ ComputeFeatures(x, g) = fg
    BY <2>1 DEF ComputeFeatures
  <2>3. fs.first = FALSE
    OBVIOUS
  <2>4. Unscored(fs) = [fs EXCEPT !.lastScore = NoScore]
    BY <2>3 DEF Unscored
  <2> HIDE DEF no
  <2>5. [fs EXCEPT !.lastScore = NoScore] =
          [txn |-> x, first |-> no,
           sinceLast |-> x.ts - s.anchor.ts,
           amountDelta |-> x.amount - s.anchor.amount,
           count |-> s.count, sum |-> s.sum, max |-> s.max,
           age |-> x.ts - s.first, lastScore |-> NoScore]
    BY LastScoreOnly
  <2>6. [fs EXCEPT !.lastScore = NoScore] = fg
    <3> HIDE DEF fs
    <3> QED BY <1>2, <2>1, <2>5 DEF SameButScore
  <2> HIDE DEF fs, fg
  <2> QED BY <2>2, <2>4, <2>6
<1> QED BY <1>1, <1>2 DEF Matches

LEMMA AdvanceMatches ==
  ASSUME NEW x \in Txns, NEW s \in MaybeState, NEW g, Matches(s, g),
         DocumentOf(x.account, s), GoldOf(x.account, g)
  PROVE  SameButScore(Scored(x, s), Advance(x, g, NoScore))
<1>0. x \in Transaction /\ NoScore \in ScoreOf /\ x.id \in ScoreOf
  BY TxnsAssumption DEF Transaction, ScoreOf
<1>1. Advance(x, s, NoScore) \in AccountState
  BY <1>0, AdvanceFold DEF DocumentOf
<1>2. Advance(x, g, NoScore) # NoState
  BY <1>0, AbsorbGold
<1>3. Scored(x, s) \in AccountState /\ Scored(x, s) # NoState
  BY ScoredFold, NoStateAssumption
<1> DEFINE a == Advance(x, s, NoScore)
           b == Advance(x, g, NoScore)
<1>4. /\ a.account = b.account /\ a.anchor = b.anchor /\ a.first = b.first /\ a.count = b.count
      /\ a.sum = b.sum /\ a.max = b.max /\ a.updated = b.updated
  <2>1. CASE s = NoState /\ g = NoState
    BY <2>1
  <2>2. CASE SameButScore(s, g)
    BY <2>2 DEF SameButScore, Advance
  <2> QED BY <2>1, <2>2 DEF Matches
<1>5. Scored(x, s) = [a EXCEPT !.score = x.id]
  BY DEF Scored, WithScore
<1> HIDE DEF a, b
<1>6. /\ Scored(x, s).account = a.account /\ Scored(x, s).anchor = a.anchor
      /\ Scored(x, s).first = a.first /\ Scored(x, s).count = a.count
      /\ Scored(x, s).sum = a.sum /\ Scored(x, s).max = a.max /\ Scored(x, s).updated = a.updated
  BY <1>1, <1>5 DEF AccountState, a
<1> QED BY <1>2, <1>3, <1>4, <1>6 DEF SameButScore, b

\* one more row, in order
LEMMA CoversNext ==
  ASSUME NEW f \in Files, NEW n \in Nat, n <= Len(f), NEW d, NEW k \in 1..n,
         NEW S \in SUBSET (1..n), \A j \in S : j < k,
         Compared(f, n, d, k) => S = RowsBefore(f, k),
         NEW s \in MaybeState, DocumentOf(f[k].account, s), Covers(f, n, d, s, S)
  PROVE  LET x == EventOf(f, n, k) IN
         /\ Covers(f, n, d, Scored(x, s), S \cup {k})
         /\ Compared(f, n, d, k) =>
              Unscored(ComputeFeatures(x, s)) = ComputeFeatures(Silver(f, k), GoldPrior(f, k))
<1> DEFINE x == EventOf(f, n, k)
<1>1. k \in 1..Len(f) /\ Len(f) \in Nat
  BY SilverRows
<1>2. Max(S \cup {k}) = k
  <2>1. S \cup {k} \in SUBSET (1..n) /\ \A j \in S \cup {k} : j <= k
    OBVIOUS
  <2> QED BY <2>1, MaxIs
<1>3. CASE ~Compared(f, n, d, k)
  BY <1>2, <1>3 DEF Covers
<1>4. CASE Compared(f, n, d, k)
  <2>1. x = Silver(f, k)
    BY <1>4, EventIsSilver
  <2>2. Matches(s, GoldPrior(f, k))
    BY <1>4, PriorMatches
  <2>3. GoldOf(f[k].account, GoldPrior(f, k))
    BY <1>1, GoldTyped
  <2>4. Silver(f, k) \in Txns /\ Silver(f, k).account = f[k].account
    BY <1>1, SilverRows
  <2>5. SameButScore(Scored(x, s), GoldAfter(f, k))
    BY <2>1, <2>2, <2>3, <2>4, AdvanceMatches DEF GoldAfter
  <2>6. Covers(f, n, d, Scored(x, s), S \cup {k})
    BY <1>2, <2>5 DEF Covers
  <2>7. Unscored(ComputeFeatures(x, s)) = ComputeFeatures(x, GoldPrior(f, k))
    BY <2>2, <2>3, FeaturesMatch DEF GoldOf
  <2> QED BY <2>1, <2>6, <2>7
<1> QED BY <1>3, <1>4

\* the batch of a row is the one that begins before it
LEMMA RowsOfBatch ==
  ASSUME NEW b \in Nat \ {0}, NEW q \in Nat, NEW k \in Nat, k > b * q, k <= b * q + b,
         NEW j \in 1..k, (j - 1) \div b = (k - 1) \div b
  PROVE  j > b * q
<1> DEFINE c == (k - 1) \div b
<1>0. b * q \in Nat /\ k - 1 \in Nat /\ j - 1 \in Nat
  OBVIOUS
<1>1. c \in Nat /\ b * c <= k - 1 /\ k - 1 < b * c + b
  BY <1>0, Quotient
<1>2. b * c <= j - 1
  BY <1>0, Quotient
<1>3. ASSUME c < q PROVE FALSE
  <2>1. b * (c + 1) <= b * q
    BY <1>1, <1>3, ProductGrows
  <2>2. b * (c + 1) = b * c + b
    BY <1>1
  <2> QED BY <1>0, <1>1, <2>1, <2>2
<1>4. b * q <= b * c
  BY <1>1, <1>3, ProductGrows
<1> QED BY <1>0, <1>1, <1>2, <1>4

\* row i of the batch in hand has been scored
InHand(i) == client = "waiting" /\ Event(i) \in TakenBy(server)

\* the rows of a whose effect the document of a, or the state in hand, has
DoneRows(a) == {i \in 1..limit :
  /\ csv[i].account = a
  /\ (i <= pos /\ ~dryRun) \/ (i > pos /\ InHand(i))}

CoversAccount(s, a) == Covers(csv, limit, dryRun, s, DoneRows(a))

IsGold(f) == Compared(csv, limit, dryRun, f.txn.id) => Unscored(f) = GoldFeatures(f.txn.id)

(***************************************************************************)
(* Batches begin at multiples of their size.  While a run is undisturbed,  *)
(* the rows of an account that were folded are its earliest, and its       *)
(* document is gold's fold of them (a dry run leaves none); so is the      *)
(* state its thread has in hand, which takes up the rows of one account    *)
(* after those of another.                                                 *)
(***************************************************************************)
AlignedInv == pos < limit => \E q \in Nat : pos = BatchSize * q

Undisturbed == clean /\ client \in {"posting", "waiting"}

InOrder(a) == \A i \in DoneRows(a), j \in 1..limit :
  j < i /\ csv[j].account = a /\ (dryRun => j > pos) => j \in DoneRows(a)

DocumentsInv == Undisturbed => \A a \in Accounts :
  /\ InOrder(a)
  /\ IF dryRun THEN redis[a] = NoState ELSE CoversAccount(redis[a], a)

HandInv == Undisturbed /\ client = "waiting" =>
  /\ pc[server] \in {"fold", "append"} =>
       /\ CoversAccount(prev[server], account[server])
       /\ ~dryRun => prev[server] = redis[account[server]]
  /\ \A i, j \in BatchRows :
       csv[i].account = csv[j].account
         /\ (pc[server] = "group" \/ csv[i].account # account[server])
         => (InHand(i) <=> InHand(j))
  /\ \A f \in results[server] : IsGold(f)

OutputIsGold == clean => \A f \in output : IsGold(f)

GoldInv == AlignedInv /\ DocumentsInv /\ HandInv /\ OutputIsGold

LEMMA EventsDiffer ==
  ASSUME BaseInv
  PROVE  /\ \A i, j \in 1..limit : Event(i) = Event(j) => i = j
         /\ \A i \in 1..limit : Event(i) \in Txns /\ Event(i).id = i
                                /\ Event(i).account = csv[i].account
         /\ limit \in Nat /\ pos \in Nat /\ pos <= limit
         /\ BatchRows = {i \in 1..limit : i > pos /\ i <= pos + BatchSize}
<1>1. \A i \in 1..limit : Event(i) \in Txns /\ Event(i).id = i
                                /\ Event(i).account = csv[i].account
  BY Events DEF BaseInv
<1>2. \A i, j \in 1..limit : Event(i) = Event(j) => i = j
  <2> HIDE DEF Event
  <2> QED BY <1>1
<1>3. limit \in Nat /\ pos \in Nat /\ pos <= limit
  BY DEF BaseInv, ArgumentsInv
<1>4. BatchRows = {i \in 1..limit : i > pos /\ i <= pos + BatchSize}
  BY <1>3, BatchAssumption DEF BatchRows, Lesser
<1> QED BY <1>1, <1>2, <1>3, <1>4

\* a request in progress in an undisturbed run is the one that is waited for
LEMMA OnlyServer ==
  ASSUME BaseInv, AloneInv, Undisturbed, NEW t \in Threads, Active(t)
  PROVE  /\ client = "waiting" /\ server = t /\ request[t] = Batch /\ dry[t] = dryRun
         /\ pos < limit
         /\ \A i \in 1..limit : InHand(i) <=> Event(i) \in TakenBy(t)
         /\ \A i \in 1..limit : InHand(i) => i \in BatchRows
<1>1. client = "waiting" /\ server = t /\ request[t] = Batch /\ dry[t] = dryRun /\ pos < limit
  BY DEF AloneInv, Undisturbed
<1>2. \A i \in 1..limit : InHand(i) <=> Event(i) \in TakenBy(t)
  BY <1>1 DEF InHand
<1>3. ASSUME NEW i \in 1..limit, InHand(i) PROVE i \in BatchRows
  <2>1. Event(i) \in Batch
    BY <1>1, <1>2, <1>3 DEF BaseInv, ResultsInv
  <2>2. PICK k \in BatchRows : Event(i) = Event(k)
    BY <2>1 DEF Batch
  <2> QED BY <2>2, EventsDiffer
<1> QED BY <1>1, <1>2, <1>3

\* what is in hand stays in hand
LEMMA HandKept ==
  ASSUME RunKept, UNCHANGED <<client, server, pos>>,
         client = "waiting" => TakenBy(server)' = TakenBy(server)
  PROVE  /\ \A i : InHand(i)' <=> InHand(i)
         /\ \A a : DoneRows(a)' = DoneRows(a)
         /\ \A a : InOrder(a)' <=> InOrder(a)
         /\ BatchRows' = BatchRows
<1>1. \A i : Event(i)' = Event(i)
  BY DEF Event, RunKept
<1>2. \A i : InHand(i)' <=> InHand(i)
  <2> HIDE DEF Event
  <2> QED BY <1>1 DEF InHand
<1>3. \A a : DoneRows(a)' = DoneRows(a)
  <2> HIDE DEF InHand
  <2> QED BY <1>2 DEF DoneRows, RunKept
<1>4. \A a : InOrder(a)' <=> InOrder(a)
  <2> HIDE DEF DoneRows
  <2> QED BY <1>3 DEF InOrder, RunKept
<1> QED BY <1>2, <1>3, <1>4 DEF BatchRows, RunKept

LEMMA GoldKept ==
  ASSUME RunKept
  PROVE  \A f : IsGold(f)' <=> IsGold(f)
BY DEF RunKept, IsGold, GoldFeatures

LEMMA AlignedFrame ==
  ASSUME AlignedInv, RunKept, pos' = pos
  PROVE  AlignedInv'
BY DEF AlignedInv, RunKept

LEMMA OutputFrame ==
  ASSUME OutputIsGold, RunKept, output' = output
  PROVE  OutputIsGold'
BY GoldKept DEF OutputIsGold, RunKept

LEMMA GoldPost ==
  ASSUME BaseInv, AloneInv, GoldInv, RunKept, NEW t \in Threads, Post(t)
  PROVE  GoldInv'
<1>1. client = "posting" /\ client' = "waiting" /\ server' = t /\ redis' = redis /\ pos' = pos
      /\ output' = output /\ results' = results
  BY DEF Post
<1>2. TakenBy(t)' = {} /\ pc'[t] = "group" /\ TakenBy(t) = {}
  BY OwnReceive
<1>3. \A i : ~InHand(i)' /\ ~InHand(i)
  BY <1>1, <1>2 DEF InHand
<1>4. \A a : DoneRows(a)' = DoneRows(a)
  <2> HIDE DEF InHand
  <2> QED BY <1>1, <1>3 DEF DoneRows, RunKept
<1>5. \A a : InOrder(a)' <=> InOrder(a)
  <2> HIDE DEF DoneRows
  <2> QED BY <1>1, <1>4 DEF InOrder, RunKept
<1>6. DocumentsInv'
  <2> SUFFICES ASSUME clean', NEW a \in Accounts
               PROVE  InOrder(a)' /\ IF dryRun' THEN redis'[a] = NoState
                                     ELSE CoversAccount(redis[a], a)'
    BY DEF DocumentsInv, Undisturbed
  <2>1. InOrder(a) /\ IF dryRun THEN redis[a] = NoState ELSE CoversAccount(redis[a], a)
    BY <1>1 DEF GoldInv, DocumentsInv, Undisturbed, RunKept
  <2> HIDE DEF InOrder, DoneRows
  <2> QED BY <1>1, <1>4, <1>5, <2>1 DEF CoversAccount, RunKept
<1>7. results[t] = {}
  BY <1>2 DEF BaseInv, ResultsInv
<1>8. HandInv'
  <2> HIDE DEF InHand
  <2> QED BY <1>1, <1>2, <1>3, <1>7 DEF HandInv
<1> QED BY <1>1, <1>6, <1>8, AlignedFrame, OutputFrame DEF GoldInv

\* a step of the thread that leaves the store alone and scores nothing
LEMMA GoldHandFrame ==
  ASSUME BaseInv, GoldInv, RunKept, UNCHANGED <<client, server, pos, redis, output>>,
         client = "waiting" => TakenBy(server)' = TakenBy(server),
         HandInv'
  PROVE  GoldInv'
<1>1. DocumentsInv'
  <2> SUFFICES ASSUME Undisturbed', NEW a \in Accounts
               PROVE  InOrder(a)' /\ IF dryRun' THEN redis'[a] = NoState
                                     ELSE CoversAccount(redis[a], a)'
    BY DEF DocumentsInv
  <2>1. InOrder(a) /\ IF dryRun THEN redis[a] = NoState ELSE CoversAccount(redis[a], a)
    BY DEF GoldInv, DocumentsInv, Undisturbed, RunKept
  <2>2. DoneRows(a)' = DoneRows(a) /\ (InOrder(a)' <=> InOrder(a))
    BY HandKept
  <2> HIDE DEF InOrder, DoneRows
  <2> QED BY <2>1, <2>2 DEF CoversAccount, RunKept
<1> QED BY <1>1, AlignedFrame, OutputFrame DEF GoldInv

LEMMA GoldRead ==
  ASSUME BaseInv, AloneInv, GoldInv, RunKept, NEW t \in Threads, NEW a \in Accounts,
         ReadAccount(t, a)
  PROVE  GoldInv'
<1>1. ReadState(t, a) /\ UNCHANGED <<client, server, pos, results, output, clean>>
  BY DEF ReadAccount, replayVars
<1>2. /\ pc[t] = "group" /\ pc'[t] = "fold" /\ TakenBy(t)' = TakenBy(t)
      /\ account'[t] = a /\ prev'[t] = redis[a] /\ redis' = redis
      /\ \E x \in request[t] : x.account = a /\ x \notin TakenBy(t)
  BY <1>1, OwnRead
<1>3. client = "waiting" => TakenBy(server)' = TakenBy(server)
  <2>1. CASE server = t
    BY <1>1, <1>2, <2>1
  <2>2. CASE server # t
    BY <1>1, <2>2, OthersKept DEF BaseInv, ServerInv, ThreadStep
  <2> QED BY <2>1, <2>2
<1>4. HandInv'
  <2> SUFFICES ASSUME Undisturbed PROVE HandInv'
    BY <1>1 DEF HandInv, Undisturbed
  <2>1. Active(t)
    BY <1>2 DEF Active
  <2>2. /\ client = "waiting" /\ server = t /\ request[t] = Batch
        /\ \A i \in 1..limit : InHand(i) <=> Event(i) \in TakenBy(t)
        /\ \A i \in 1..limit : InHand(i) => i \in BatchRows
    BY <2>1, OnlyServer
  <2>3. \A i, j \in BatchRows : csv[i].account = csv[j].account => (InHand(i) <=> InHand(j))
    BY <1>2, <2>2 DEF GoldInv, HandInv
  <2>4. CoversAccount(redis[a], a)
    <3>1. CASE ~dryRun
      BY <3>1 DEF GoldInv, DocumentsInv
    <3>2. CASE dryRun
      <4>1. PICK k \in BatchRows : Event(k).account = a /\ Event(k) \notin TakenBy(t)
        BY <1>2, <2>2 DEF Batch
      <4>2. k \in 1..limit /\ csv[k].account = a /\ ~InHand(k)
        BY <2>2, <4>1, EventsDiffer
      <4>3. \A i \in 1..limit : csv[i].account = a => ~InHand(i)
        BY <2>2, <2>3, <4>1, <4>2
      <4>4. DoneRows(a) = {}
        BY <3>2, <4>3 DEF DoneRows
      <4>5. redis[a] = NoState
        BY <3>2 DEF GoldInv, DocumentsInv
      <4> QED BY <4>4, <4>5 DEF CoversAccount, Covers
    <3> QED BY <3>1, <3>2
  <2>5. /\ \A i : InHand(i)' <=> InHand(i)
        /\ DoneRows(a)' = DoneRows(a) /\ BatchRows' = BatchRows
    BY <1>1, <1>3, HandKept
  <2>6. CoversAccount(prev[t], a)'
    <3> HIDE DEF DoneRows
    <3> QED BY <1>2, <2>4, <2>5 DEF CoversAccount, RunKept
  <2>7. \A f \in results[t] : IsGold(f)
    BY <2>2 DEF GoldInv, HandInv
  <2>8. \A f \in results'[t] : IsGold(f)'
    BY <1>1, <2>7, GoldKept
  <2> HIDE DEF InHand, IsGold
  <2>9. \A i, j \in BatchRows' : csv'[i].account = csv'[j].account => (InHand(i)' <=> InHand(j)')
    BY <2>3, <2>5 DEF RunKept
  <2>10. server' = t /\ CoversAccount(prev[server], account[server])'
    BY <1>1, <1>2, <2>2, <2>6 DEF CoversAccount
  <2> HIDE DEF CoversAccount
  <2> QED BY <1>1, <1>2, <2>8, <2>9, <2>10 DEF HandInv
<1> QED BY <1>1, <1>2, <1>3, <1>4, GoldHandFrame

LEMMA GoldLog ==
  ASSUME BaseInv, AloneInv, GoldInv, RunKept, NEW t \in Threads, LogEvent(t)
  PROVE  GoldInv'
<1>1. AppendEvent(t) /\ UNCHANGED <<client, server, pos, results, output, clean>>
  BY DEF LogEvent, replayVars
<1>2. /\ pc[t] = "append" /\ pc'[t] \in {"group", "fold"} /\ TakenBy(t)' = TakenBy(t)
      /\ account'[t] = account[t] /\ prev'[t] = prev[t] /\ redis' = redis
  BY <1>1, OwnAppend
<1>3. client = "waiting" => TakenBy(server)' = TakenBy(server)
  <2>1. CASE server = t
    BY <1>1, <1>2, <2>1
  <2>2. CASE server # t
    BY <1>1, <2>2, OthersKept DEF BaseInv, ServerInv, ThreadStep
  <2> QED BY <2>1, <2>2
<1>4. HandInv'
  <2> SUFFICES ASSUME Undisturbed PROVE HandInv'
    BY <1>1 DEF HandInv, Undisturbed
  <2>1. Active(t)
    BY <1>2 DEF Active
  <2>2. /\ client = "waiting" /\ server = t /\ request[t] = Batch
        /\ \A i \in 1..limit : InHand(i) <=> Event(i) \in TakenBy(t)
    BY <2>1, OnlyServer
  <2>3. /\ CoversAccount(prev[t], account[t])
        /\ ~dryRun => prev[t] = redis[account[t]]
        /\ \A i, j \in BatchRows :
             csv[i].account = csv[j].account /\ csv[i].account # account[t]
               => (InHand(i) <=> InHand(j))
        /\ \A f \in results[t] : IsGold(f)
    BY <1>2, <2>2 DEF GoldInv, HandInv
  <2>4. ASSUME pc'[t] = "group", NEW i \in BatchRows, csv[i].account = account[t]
        PROVE  InHand(i)
    <3>1. Mine(t) \ {current[t]} = {}
      BY <1>1, <1>2, <2>4 DEF AppendEvent, AfterResponse, BaseInv, ScorerTypes, ScorerTypeOK
    <3>2. i \in 1..limit /\ Event(i) \in request[t] /\ Event(i).account = account[t]
      BY <2>2, <2>4, EventsDiffer DEF Batch
    <3>3. Event(i) \in responses[t] \/ Event(i) = current[t]
      BY <3>1, <3>2 DEF Mine, Pending
    <3>4. Event(i) \in TakenBy(t)
      BY <1>2, <3>3 DEF TakenBy
    <3> QED BY <2>2, <3>2, <3>4
  <2>5. /\ \A i : InHand(i)' <=> InHand(i)
        /\ \A a : DoneRows(a)' = DoneRows(a)
        /\ BatchRows' = BatchRows
    BY <1>1, <1>3, HandKept
  <2>6. CoversAccount(prev[server], account[server])'
    <3> HIDE DEF DoneRows
    <3> QED BY <1>1, <1>2, <2>2, <2>3, <2>5 DEF CoversAccount, RunKept
  <2>7. \A f \in results'[t] : IsGold(f)'
    BY <1>1, <2>3, GoldKept
  <2> HIDE DEF InHand, IsGold, CoversAccount
  <2>8. \A i, j \in BatchRows' :
           csv'[i].account = csv'[j].account
             /\ (pc'[t] = "group" \/ csv'[i].account # account'[t])
             => (InHand(i)' <=> InHand(j)')
    BY <1>2, <2>3, <2>4, <2>5 DEF RunKept
  <2>9. server' = t /\ (~dryRun' => prev'[t] = redis'[account'[t]])
    BY <1>1, <1>2, <2>2, <2>3 DEF RunKept
  <2> QED BY <2>6, <2>7, <2>8, <2>9 DEF HandInv
<1> QED BY <1>1, <1>2, <1>3, <1>4, GoldHandFrame

\* the row that is scored follows those of its account that were folded
LEMMA ScoredInOrder ==
  ASSUME BaseInv, AloneInv, GoldInv, Undisturbed, NEW t \in Threads, NEW k \in BatchRows,
         Active(t), Event(k) \in request[t] \ TakenBy(t), pc[t] # "append",
         Earliest(t, Event(k)), csv[k].account = account[t]
  PROVE  LET S == DoneRows(account[t]) IN
         /\ S \in SUBSET (1..limit) /\ \A j \in S : j < k
         /\ \A j \in 1..limit :
              j < k /\ csv[j].account = account[t] /\ (dryRun => j > pos) => j \in S
         /\ Compared(csv, limit, dryRun, k) => S = RowsBefore(csv, k)
<1> DEFINE a == account[t]
           S == DoneRows(a)
<1>1. /\ \A i, j \in 1..limit : Event(i) = Event(j) => i = j
      /\ \A i \in 1..limit : Event(i) \in Txns /\ Event(i).account = csv[i].account
      /\ limit \in Nat /\ pos \in Nat /\ pos <= limit
      /\ BatchRows = {i \in 1..limit : i > pos /\ i <= pos + BatchSize}
  BY EventsDiffer
<1>2. /\ client = "waiting" /\ server = t /\ request[t] = Batch /\ pos < limit
      /\ \A i \in 1..limit : InHand(i) <=> Event(i) \in TakenBy(t)
  BY OnlyServer
<1>3. k \in 1..limit /\ k > pos /\ k <= pos + BatchSize /\ ~InHand(k)
  BY <1>1, <1>2
<1>4. InOrder(a) /\ a \in Accounts
  <2>1. Event(k).account \in Accounts
    BY <1>1, <1>3, TxnsAssumption DEF Transaction
  <2>2. a \in Accounts
    BY <1>1, <1>3, <2>1
  <2> QED BY <2>2 DEF GoldInv, DocumentsInv
<1>5. S \in SUBSET (1..limit) /\ k \notin S
  <2> HIDE DEF InHand
  <2> QED BY <1>1, <1>3 DEF DoneRows
<1>6. ASSUME NEW j \in S PROVE j < k
  <2>1. ASSUME k < j PROVE FALSE
    BY <1>3, <1>4, <1>5, <2>1 DEF InOrder
  <2> QED BY <1>1, <1>3, <1>5, <2>1
<1>7. ASSUME NEW j \in BatchRows, j < k, csv[j].account = a PROVE InHand(j)
  <2>1. j \in 1..limit /\ Event(j) \in request[t] /\ Event(j).account = a
    BY <1>1, <1>2, <1>7 DEF Batch
  <2>2. ASSUME Event(j) \notin TakenBy(t) PROVE FALSE
    <3>1. Event(j) \in Mine(t)
      BY <2>1, <2>2 DEF Mine, Pending, TakenBy
    <3>2. NotBefore(Event(j), Event(k))
      BY <3>1 DEF Earliest
    <3>3. Earlier(EventOf(csv, limit, j), EventOf(csv, limit, k))
      BY <1>1, <1>3, <1>7, <2>1, RowOrder DEF BaseInv, ArgumentsInv
    <3> QED BY <3>2, <3>3 DEF Earlier, Event
  <2> QED BY <1>2, <2>1, <2>2
<1>8. ASSUME NEW j \in 1..limit, j < k, csv[j].account = a, dryRun => j > pos PROVE j \in S
  <2>1. CASE j <= pos
    BY <1>1, <1>8, <2>1 DEF DoneRows
  <2>2. CASE j > pos
    <3>1. j \in BatchRows
      BY <1>1, <1>3, <1>8, <2>2, BatchAssumption
    <3> QED BY <1>7, <1>8, <2>2, <3>1 DEF DoneRows
  <2> QED BY <1>1, <2>1, <2>2
<1>9. ASSUME Compared(csv, limit, dryRun, k) PROVE S = RowsBefore(csv, k)
  <2>1. Len(csv) \in Nat /\ limit <= Len(csv)
    BY SilverRows DEF BaseInv, ArgumentsInv
  <2>2. ASSUME NEW j \in S PROVE j \in RowsBefore(csv, k)
    <3>1. j \in 1..limit /\ csv[j].account = a /\ j < k
      BY <1>6, <2>2 DEF DoneRows
    <3>2. j \in 1..Len(csv) /\ csv[j].account = csv[k].account
      BY <1>1, <2>1, <3>1
    <3> QED BY <3>1, <3>2 DEF RowsBefore
  <2>3. ASSUME NEW j \in RowsBefore(csv, k) PROVE j \in S
    <3>1. j \in 1..limit /\ j < k /\ csv[j].account = a
      BY <1>1, <1>3, <2>1, <2>3 DEF RowsBefore
    <3>2. ASSUME dryRun PROVE j > pos
      <4>1. PICK q \in Nat : pos = BatchSize * q
        BY <1>2 DEF GoldInv, AlignedInv
      <4>2. (j - 1) \div BatchSize = (k - 1) \div BatchSize
        <5>1. j \in 1..k
          BY <1>3, <3>1
        <5> QED BY <1>9, <3>1, <3>2, <5>1 DEF Compared
      <4>3. j \in 1..k /\ k \in Nat
        BY <1>3, <3>1
      <4> QED BY <1>3, <4>1, <4>2, <4>3, BatchAssumption, RowsOfBatch
    <3> QED BY <1>8, <3>1, <3>2
  <2> QED BY <2>2, <2>3
<1> QED BY <1>5, <1>6, <1>8, <1>9

LEMMA CasAccepts ==
  ASSUME NEW x \in Txns, NEW s \in MaybeState, DocumentOf(x.account, s)
  PROVE  MonotonicCas(s, Scored(x, s)) = Scored(x, s)
<1>1. Scored(x, s) \in AccountState /\ (s # NoState => Scored(x, s).updated >= s.updated)
  BY ScoredFold
<1>2. CASE s = NoState
  BY <1>2 DEF MonotonicCas
<1>3. CASE s # NoState
  <2>1. s.updated \in Nat /\ Scored(x, s).updated \in Nat
    BY <1>1, <1>3 DEF MaybeState, AccountState
  <2>2. ~(s.updated > Scored(x, s).updated)
    BY <1>1, <1>3, <2>1
  <2> QED BY <2>2 DEF MonotonicCas
<1> QED BY <1>2, <1>3

\* what scoring x, which is row k of the file and of account a, does to the rows
\* done and to the state in hand
ScoredAs(t, a, x, k) ==
  /\ x = Event(k) /\ csv[k].account = a /\ ~InHand(k)
  /\ \A i \in 1..limit : InHand(i)' <=> InHand(i) \/ i = k
  /\ DoneRows(a)' = DoneRows(a) \cup {k}
  /\ \A b : b # a => DoneRows(b)' = DoneRows(b)
  /\ InOrder(a)'
  /\ Covers(csv, limit, dryRun, Scored(x, prev[t]), DoneRows(a) \cup {k})
  /\ IsGold(ComputeFeatures(x, prev[t]))

LEMMA ScoredRow ==
  ASSUME BaseInv, AloneInv, GoldInv, RunKept, Undisturbed, NEW t \in Threads,
         NEW a, a = account[t], NEW x \in Txns, Score(t, x)
  PROVE  \E k \in BatchRows : ScoredAs(t, a, x, k)
<1>1. /\ ScoreDry(t, x) \/ ScoreLive(t, x)
      /\ UNCHANGED <<client, server, pos, output>>
  BY DEF Score
<1>2. /\ pc[t] = "fold" /\ TakenBy(t)' = TakenBy(t) \cup {x}
      /\ x \in request[t] \ TakenBy(t) /\ x.account = a /\ Earliest(t, x)
  BY <1>1, OwnScore
<1>3. Active(t)
  BY <1>2 DEF Active
<1>4. /\ client = "waiting" /\ server = t /\ request[t] = Batch
      /\ \A i \in 1..limit : InHand(i) <=> Event(i) \in TakenBy(t)
  BY <1>3, OnlyServer
<1>5. PICK k \in BatchRows : x = Event(k)
  BY <1>2, <1>4 DEF Batch
<1>6. /\ \A i, j \in 1..limit : Event(i) = Event(j) => i = j
      /\ \A i \in 1..limit : Event(i) \in Txns /\ Event(i).id = i /\ Event(i).account = csv[i].account
      /\ limit \in Nat /\ pos \in Nat
      /\ k \in 1..limit /\ k > pos
  BY EventsDiffer
<1>7. csv[k].account = a /\ ~InHand(k)
  BY <1>2, <1>4, <1>5, <1>6
<1>8. /\ DoneRows(a) \in SUBSET (1..limit) /\ \A j \in DoneRows(a) : j < k
      /\ \A j \in 1..limit :
           j < k /\ csv[j].account = a /\ (dryRun => j > pos) => j \in DoneRows(a)
      /\ Compared(csv, limit, dryRun, k) => DoneRows(a) = RowsBefore(csv, k)
  BY <1>2, <1>3, <1>5, <1>7, ScoredInOrder
<1>9. \A i : Event(i)' = Event(i)
  BY DEF Event, RunKept
<1>10. \A i \in 1..limit : InHand(i)' <=> InHand(i) \/ i = k
  <2>1. \A i \in 1..limit : InHand(i)' <=> Event(i)' \in TakenBy(t)'
    BY <1>1, <1>4 DEF InHand
  <2> HIDE DEF Event, InHand
  <2> QED BY <1>2, <1>4, <1>5, <1>6, <1>9, <2>1
<1>11. UNCHANGED <<csv, limit, dryRun, pos>>
  BY <1>1 DEF RunKept
<1> HIDE DEF InHand, Event
<1>12. DoneRows(a)' = DoneRows(a) \cup {k}
  <2>1. DoneRows(a)' = {i \in 1..limit : csv[i].account = a /\
           ((i <= pos /\ ~dryRun) \/ (i > pos /\ InHand(i)'))}
    BY <1>11 DEF DoneRows
  <2> QED BY <1>6, <1>7, <1>10, <2>1 DEF DoneRows
<1>13. ASSUME NEW b, b # a PROVE DoneRows(b)' = DoneRows(b)
  BY <1>7, <1>10, <1>11, <1>13 DEF DoneRows
<1>14. a \in Accounts
  <2>1. x.account \in Accounts
    BY TxnsAssumption DEF Transaction
  <2> QED BY <1>2, <2>1
<1>15. InOrder(a)
  BY <1>14 DEF GoldInv, DocumentsInv
<1>16. InOrder(a)'
  <2> SUFFICES ASSUME NEW i \in DoneRows(a) \cup {k}, NEW j \in 1..limit,
                      j < i, csv[j].account = a, dryRun => j > pos
               PROVE  j \in DoneRows(a) \cup {k}
    <3> HIDE DEF DoneRows
    <3> QED BY <1>11, <1>12 DEF InOrder
  <2> HIDE DEF DoneRows
  <2> QED BY <1>8, <1>15 DEF InOrder
<1> DEFINE s == prev[t]
           n == limit
<1>17. /\ CoversAccount(s, a)
       /\ s \in MaybeState /\ DocumentOf(a, s)
  <2>1. CoversAccount(s, a)
    BY <1>2, <1>4 DEF GoldInv, HandInv
  <2>2. s \in MaybeState /\ DocumentOf(a, s)
    BY <1>2 DEF BaseInv, ScorerTypes, ScorerTypeOK, WellFormed
  <2> QED BY <2>1, <2>2
<1>18. csv \in Files /\ n \in Nat /\ n <= Len(csv) /\ Silver(csv, k).id = k
  <2>1. csv \in Files /\ n \in Nat /\ n <= Len(csv)
    BY DEF BaseInv, ArgumentsInv
  <2>2. k \in 1..Len(csv)
    BY <1>6, <2>1, SilverRows
  <2> QED BY <2>1, <2>2, SilverRows
<1>19. /\ Covers(csv, n, dryRun, Scored(x, s), DoneRows(a) \cup {k})
       /\ Compared(csv, n, dryRun, k) =>
            Unscored(ComputeFeatures(x, s)) = ComputeFeatures(Silver(csv, k), GoldPrior(csv, k))
  <2>1. Covers(csv, n, dryRun, s, DoneRows(a)) /\ DocumentOf(csv[k].account, s)
    BY <1>7, <1>17 DEF CoversAccount
  <2>2. x = EventOf(csv, n, k)
    BY <1>5 DEF Event
  <2> HIDE DEF DoneRows, s
  <2> QED BY <1>6, <1>8, <1>17, <1>18, <2>1, <2>2, CoversNext
<1>21. IsGold(ComputeFeatures(x, s))
  <2>1. ComputeFeatures(x, s).txn = x /\ x.id = k
    BY <1>5, <1>6, FeaturesOf
  <2>2. GoldFeatures(k) = ComputeFeatures(Silver(csv, k), GoldPrior(csv, k))
    BY DEF GoldFeatures, Silver
  <2> QED BY <1>19, <2>1, <2>2 DEF IsGold
<1>22. ScoredAs(t, a, x, k)
  BY <1>5, <1>7, <1>10, <1>12, <1>13, <1>16, <1>19, <1>21 DEF ScoredAs
<1> QED BY <1>22

LEMMA GoldScore ==
  ASSUME BaseInv, AloneInv, GoldInv, RunKept, Undisturbed, NEW t \in Threads,
         NEW a, a = account[t], NEW x \in Txns, Score(t, x)
  PROVE  GoldInv'
<1>1. /\ ScoreDry(t, x) \/ ScoreLive(t, x)
      /\ UNCHANGED <<client, server, pos, output>>
      /\ results' = [results EXCEPT ![t] = @ \cup {ComputeFeatures(x, prev[t])}]
  BY DEF Score
<1>2. /\ pc[t] = "fold" /\ pc'[t] \in {"group", "fold", "append"}
      /\ TakenBy(t)' = TakenBy(t) \cup {x} /\ x \in request[t] \ TakenBy(t)
      /\ x.account = a /\ account'[t] = a
  BY <1>1, OwnScore
<1>3. Active(t)
  BY <1>2 DEF Active
<1>4. /\ client = "waiting" /\ server = t /\ request[t] = Batch /\ dry[t] = dryRun
      /\ \A i \in 1..limit : InHand(i) <=> Event(i) \in TakenBy(t)
  BY <1>3, OnlyServer
<1>5. PICK k \in BatchRows :
        /\ x = Event(k) /\ csv[k].account = a /\ ~InHand(k)
        /\ \A i \in 1..limit : InHand(i)' <=> InHand(i) \/ i = k
        /\ DoneRows(a)' = DoneRows(a) \cup {k}
        /\ \A b : b # a => DoneRows(b)' = DoneRows(b)
        /\ InOrder(a)'
        /\ Covers(csv, limit, dryRun, Scored(x, prev[t]), DoneRows(a) \cup {k})
        /\ IsGold(ComputeFeatures(x, prev[t]))
  <2>1. PICK k \in BatchRows : ScoredAs(t, a, x, k)
    BY ScoredRow
  <2> QED BY <2>1 DEF ScoredAs
<1>6. UNCHANGED <<csv, limit, dryRun, pos>> /\ BatchRows' = BatchRows
  BY <1>1 DEF RunKept, BatchRows
<1>7. BatchRows \subseteq 1..limit /\ a \in Accounts
  BY <1>2, EventsDiffer, TxnsAssumption DEF Transaction
<1>8. prev'[t] = Scored(x, prev[t])
  <2>1. prev \in [Threads -> MaybeState]
    BY DEF BaseInv, ScorerTypes, ScorerTypeOK
  <2> QED BY <1>1, <2>1 DEF ScoreDry, ScoreLive
<1>9. /\ dryRun => redis' = redis
      /\ ~dryRun => redis'[a] = Scored(x, prev[t])
      /\ \A b \in Accounts : b # a => redis'[b] = redis[b]
  <2>0. redis \in [Accounts -> MaybeState]
    BY DEF BaseInv, ScorerTypes, StoreTypeOK
  <2>1. CASE dryRun
    BY <1>1, <1>4, <2>1 DEF ScoreDry, ScoreLive
  <2>2. CASE ~dryRun
    <3>1. CommitState(a, Scored(x, prev[t]))
      BY <1>1, <1>2, <1>4, <2>2 DEF ScoreDry, ScoreLive
    <3>2. redis' = [redis EXCEPT ![a] = MonotonicCas(@, Scored(x, prev[t]))]
      BY <3>1 DEF CommitState
    <3>3. redis[a] = prev[t]
      BY <1>2, <1>4, <2>2 DEF GoldInv, HandInv
    <3>4. prev[t] \in MaybeState /\ DocumentOf(x.account, prev[t])
      BY <1>2 DEF BaseInv, ScorerTypes, ScorerTypeOK, WellFormed
    <3>5. MonotonicCas(prev[t], Scored(x, prev[t])) = Scored(x, prev[t])
      BY <3>4, CasAccepts
    <3> QED BY <1>7, <2>0, <2>2, <3>2, <3>3, <3>5
  <2> QED BY <2>1, <2>2
<1>10. \A b : b # a => (InOrder(b)' <=> InOrder(b))
  <2> HIDE DEF DoneRows
  <2> QED BY <1>5, <1>6 DEF InOrder
<1>11. DocumentsInv'
  <2> SUFFICES ASSUME NEW b \in Accounts
               PROVE  InOrder(b)' /\ IF dryRun' THEN redis'[b] = NoState
                                     ELSE CoversAccount(redis[b], b)'
    BY DEF DocumentsInv
  <2>1. InOrder(b) /\ IF dryRun THEN redis[b] = NoState ELSE CoversAccount(redis[b], b)
    BY DEF GoldInv, DocumentsInv
  <2> HIDE DEF InOrder, DoneRows
  <2>2. CASE b = a
    BY <1>5, <1>6, <1>9, <2>1, <2>2 DEF CoversAccount
  <2>3. CASE b # a
    BY <1>5, <1>6, <1>9, <1>10, <2>1, <2>3 DEF CoversAccount
  <2> QED BY <2>2, <2>3
<1>12. CoversAccount(prev[server], account[server])'
  <2> HIDE DEF DoneRows
  <2> QED BY <1>1, <1>2, <1>4, <1>5, <1>6, <1>8 DEF CoversAccount
<1>13. ~dryRun' => prev'[server'] = redis'[account'[server']]
  BY <1>1, <1>2, <1>4, <1>6, <1>8, <1>9
<1>14. ASSUME pc'[t] = "group", NEW i \in BatchRows, csv[i].account = a
      PROVE  InHand(i)'
  <2>1. Mine(t) \ {x} = {}
    <3>1. pc \in [Threads -> {"idle", "group", "fold", "append"}]
      BY DEF BaseInv, ScorerTypes, ScorerTypeOK
    <3> QED BY <1>1, <1>14, <3>1 DEF ScoreDry, ScoreLive, AfterResponse
  <2>2. i \in 1..limit /\ Event(i) \in request[t] /\ Event(i).account = account[t]
    BY <1>4, <1>14, EventsDiffer DEF Batch
  <2>3. Event(i) \in responses[t] \/ Event(i) = x
    BY <2>1, <2>2 DEF Mine, Pending
  <2>4. Event(i) \in TakenBy(t) \/ Event(i) = Event(k)
    BY <1>5, <2>3 DEF TakenBy
  <2>5. k \in 1..limit /\ (Event(i) = Event(k) => i = k)
    BY <1>7, <2>2, EventsDiffer
  <2> HIDE DEF InHand, Event
  <2> QED BY <1>4, <1>5, <2>2, <2>4, <2>5
<1>15. ASSUME NEW i \in BatchRows, NEW j \in BatchRows, csv[i].account = csv[j].account,
              pc'[t] = "group" \/ csv[i].account # a
       PROVE  InHand(i)' <=> InHand(j)'
  <2>1. CASE csv[i].account = a
    BY <1>14, <1>15, <2>1
  <2>2. CASE csv[i].account # a
    <3>1. InHand(i) <=> InHand(j)
      BY <1>4, <1>15, <2>2 DEF GoldInv, HandInv
    <3>2. i # k /\ j # k /\ i \in 1..limit /\ j \in 1..limit
      BY <1>5, <1>7, <1>15, <2>2
    <3> HIDE DEF InHand
    <3> QED BY <1>5, <3>1, <3>2
  <2> QED BY <2>1, <2>2
<1>16. \A f \in results'[t] : IsGold(f)'
  <2>1. results'[t] = results[t] \cup {ComputeFeatures(x, prev[t])}
    BY <1>1 DEF BaseInv, ResultsInv
  <2>2. \A f \in results[t] : IsGold(f)
    BY <1>4 DEF GoldInv, HandInv
  <2> QED BY <1>5, <2>1, <2>2, GoldKept
<1>17. HandInv'
  <2> HIDE DEF InHand, IsGold, CoversAccount
  <2>1. server' = t
    BY <1>1, <1>4
  <2> QED BY <1>2, <1>6, <1>12, <1>13, <1>15, <1>16, <2>1 DEF HandInv
<1> QED BY <1>1, <1>11, <1>17, AlignedFrame, OutputFrame DEF GoldInv

LEMMA GoldTaken ==
  ASSUME BaseInv, AloneInv, GoldInv, RunKept, NEW t \in Threads, Answer(t), server = t
  PROVE  GoldInv'
<1>1. /\ Respond(t) /\ output' = output \cup results[t]
      /\ pos' = Lesser(pos + BatchSize, limit) /\ client' = "posting"
  BY DEF Answer
<1>2. client = "waiting" /\ request[t] = Batch /\ pos < limit
  BY ThreadsAssumption DEF BaseInv, ServerInv
<1>3. TakenBy(t) = Batch /\ pc[t] # "idle" /\ redis' = redis
  BY <1>1, <1>2, OwnRespond, OwnFinish
<1>4. UNCHANGED <<csv, limit, dryRun>> /\ (clean' => clean)
  BY DEF RunKept
<1>5. limit \in Nat /\ pos \in Nat /\ BatchSize \in Nat \ {0}
  BY BatchAssumption DEF BaseInv, ArgumentsInv
<1>6. AlignedInv'
  <2> SUFFICES ASSUME pos' < limit PROVE \E q \in Nat : pos' = BatchSize * q
    BY <1>4 DEF AlignedInv
  <2>1. PICK q \in Nat : pos = BatchSize * q
    BY <1>2 DEF GoldInv, AlignedInv
  <2>2. pos' = pos + BatchSize
    <3>1. pos + BatchSize <= limit \/ pos' = limit
      BY <1>1 DEF Lesser
    <3>2. pos' # limit
      BY <1>5
    <3> QED BY <1>1, <3>1, <3>2 DEF Lesser
  <2>3. BatchSize * (q + 1) = BatchSize * q + BatchSize
    BY <1>5
  <2> QED BY <2>1, <2>2, <2>3
<1>7. \A i : ~InHand(i)'
  BY <1>1 DEF InHand
<1>8. DocumentsInv'
  <2> SUFFICES ASSUME clean, NEW a \in Accounts
               PROVE  InOrder(a)' /\ IF dryRun' THEN redis'[a] = NoState
                                     ELSE CoversAccount(redis[a], a)'
    BY <1>4 DEF DocumentsInv, Undisturbed
  <2>1. Undisturbed /\ Active(t)
    BY <1>2, <1>3 DEF Undisturbed, Active
  <2>2. InOrder(a) /\ IF dryRun THEN redis[a] = NoState ELSE CoversAccount(redis[a], a)
    BY <2>1 DEF GoldInv, DocumentsInv
  <2>3. \A i \in 1..limit : InHand(i) <=> i \in BatchRows
    <3>1. \A i \in 1..limit : InHand(i) <=> Event(i) \in TakenBy(t)
      BY <2>1, OnlyServer
    <3>2. \A i \in 1..limit : InHand(i) => i \in BatchRows
      BY <2>1, OnlyServer
    <3>3. \A i \in BatchRows : Event(i) \in TakenBy(t)
      BY <1>3 DEF Batch
    <3> HIDE DEF InHand, Event
    <3> QED BY <3>1, <3>2, <3>3
  <2>4. CASE dryRun
    <3>1. DoneRows(a)' = {}
      <4> HIDE DEF InHand
      <4> QED BY <1>4, <1>7, <2>4 DEF DoneRows
    <3>2. InOrder(a)'
      <4> HIDE DEF DoneRows
      <4> QED BY <3>1 DEF InOrder
    <3> QED BY <1>3, <1>4, <2>2, <2>4, <3>2
  <2>5. CASE ~dryRun
    <3>1. \A i \in 1..limit : i <= pos' <=> i <= pos \/ i \in BatchRows
      BY <1>1, <1>5 DEF Lesser, BatchRows
    <3>2. \A i \in BatchRows : i > pos
      BY <1>5 DEF BatchRows, Lesser
    <3>3. DoneRows(a)' = DoneRows(a)
      <4>1. DoneRows(a)' = {i \in 1..limit : csv[i].account = a /\ i <= pos'}
        <5> HIDE DEF InHand
        <5> QED BY <1>4, <1>7, <2>5 DEF DoneRows
      <4>2. DoneRows(a) = {i \in 1..limit : csv[i].account = a /\ (i <= pos \/ i \in BatchRows)}
        <5> HIDE DEF InHand
        <5> QED BY <2>3, <2>5, <3>2 DEF DoneRows
      <4> QED BY <3>1, <4>1, <4>2
    <3>4. InOrder(a)'
      <4> HIDE DEF DoneRows
      <4> QED BY <1>4, <2>2, <2>5, <3>3 DEF InOrder
    <3> HIDE DEF DoneRows
    <3> QED BY <1>3, <1>4, <2>2, <2>5, <3>3, <3>4 DEF CoversAccount
  <2> QED BY <2>4, <2>5
<1>9. HandInv'
  BY <1>1 DEF HandInv
<1>10. OutputIsGold'
  <2> SUFFICES ASSUME clean, NEW f \in output' PROVE IsGold(f)'
    BY <1>4 DEF OutputIsGold
  <2>1. CASE f \in output
    BY <2>1, GoldKept DEF GoldInv, OutputIsGold
  <2>2. CASE f \in results[t]
    <3>1. IsGold(f)
      BY <1>2, <2>2 DEF GoldInv, HandInv, Undisturbed
    <3> QED BY <3>1, GoldKept
  <2> QED BY <1>1, <2>1, <2>2
<1> QED BY <1>6, <1>8, <1>9, <1>10 DEF GoldInv

\* a step that ends the run, or that a disturbed run takes
LEMMA GoldDisturbed ==
  ASSUME GoldInv, RunKept, pos' = pos, output' = output, ~Undisturbed'
  PROVE  GoldInv'
BY AlignedFrame, OutputFrame DEF GoldInv, DocumentsInv, HandInv

\* no thread but the one that is waited for takes a step in an undisturbed run
LEMMA OthersDisturbed ==
  ASSUME BaseInv, AloneInv, RunKept, NEW t \in Threads, Active(t), server # t,
         UNCHANGED client
  PROVE  ~Undisturbed'
<1>1. ASSUME Undisturbed PROVE FALSE
  BY <1>1, OnlyServer
<1> QED BY <1>1 DEF Undisturbed, RunKept

LEMMA GoldStart ==
  ASSUME BaseInv, StartRun
  PROVE  GoldInv'
<1>1. /\ client' = "posting" /\ pos' = 0 /\ output' = {} /\ redis' = redis
      /\ clean' => \A a \in Accounts : redis[a] = NoState
      /\ csv' \in Files /\ limit' \in Limits /\ dryRun' \in BOOLEAN
  BY DEF StartRun
<1>2. AlignedInv'
  <2>1. 0 = BatchSize * 0
    BY BatchAssumption
  <2> QED BY <1>1, <2>1 DEF AlignedInv
<1>3. \A a : DoneRows(a)' = {}
  <2>1. \A i : ~InHand(i)'
    BY <1>1 DEF InHand
  <2>2. \A i \in 1..limit' : ~(i <= pos')
    BY <1>1
  <2> HIDE DEF InHand
  <2> QED BY <2>1, <2>2 DEF DoneRows
<1>4. \A a : InOrder(a)'
  <2> HIDE DEF DoneRows
  <2> QED BY <1>3 DEF InOrder
<1>5. DocumentsInv'
  <2> SUFFICES ASSUME clean', NEW a \in Accounts
               PROVE  InOrder(a)' /\ IF dryRun' THEN redis'[a] = NoState
                                     ELSE CoversAccount(redis[a], a)'
    BY DEF DocumentsInv, Undisturbed
  <2> HIDE DEF DoneRows, InOrder
  <2> QED BY <1>1, <1>3, <1>4 DEF CoversAccount, Covers
<1>6. HandInv' /\ OutputIsGold'
  BY <1>1 DEF HandInv, OutputIsGold
<1> QED BY <1>2, <1>5, <1>6 DEF GoldInv

LEMMA GoldStep ==
  ASSUME BaseInv, AloneInv, GoldInv, [ReplayNext]_allVars
  PROVE  GoldInv'
<1>1. CASE StartRun
  BY <1>1, GoldStart
<1>2. SUFFICES ASSUME RunKept PROVE GoldInv'
  BY <1>1, RunsKept
<1>3. ASSUME NEW t \in Threads, Post(t) PROVE GoldInv'
  BY <1>2, <1>3, GoldPost
<1>4. CASE GiveUp \/ EndRun
  <2>1. pos' = pos /\ output' = output /\ client' \in {"ended", "failed"}
    BY <1>4 DEF GiveUp, EndRun
  <2> QED BY <1>2, <2>1, GoldDisturbed DEF Undisturbed
<1>5. ASSUME NEW t \in Threads, LogEvent(t) PROVE GoldInv'
  BY <1>2, <1>5, GoldLog
<1>6. ASSUME NEW t \in Threads, NEW a \in Accounts, ReadAccount(t, a) PROVE GoldInv'
  BY <1>2, <1>6, GoldRead
<1>7. ASSUME NEW t \in Threads, NEW x \in Txns, Score(t, x) PROVE GoldInv'
  <2>1. CASE Undisturbed
    BY <1>2, <1>7, <2>1, GoldScore
  <2>2. CASE ~Undisturbed
    <3>1. pos' = pos /\ output' = output /\ client' = client
      BY <1>7 DEF Score
    <3>2. ~Undisturbed'
      BY <1>2, <2>2, <3>1 DEF Undisturbed, RunKept
    <3> QED BY <1>2, <3>1, <3>2, GoldDisturbed
  <2> QED BY <2>1, <2>2
<1>8. ASSUME NEW t \in Threads, Answer(t) PROVE GoldInv'
  <2>1. CASE server = t
    BY <1>2, <1>8, <2>1, GoldTaken
  <2>2. CASE server # t
    <3>1. pos' = pos /\ output' = output /\ client' = client /\ Respond(t)
      BY <1>8, <2>2 DEF Answer
    <3>2. Active(t)
      BY <3>1, OwnFinish DEF Active
    <3> QED BY <1>2, <2>2, <3>1, <3>2, OthersDisturbed, GoldDisturbed
  <2> QED BY <2>1, <2>2
<1>9. ASSUME NEW t \in Threads, ServerFails(t) PROVE GoldInv'
  <2>1. pos' = pos /\ output' = output /\ (AppendFails(t) \/ Abort(t))
    BY <1>9 DEF ServerFails
  <2>2. CASE server = t
    <3>1. client' = "failed"
      BY <1>9, <2>2 DEF ServerFails
    <3> QED BY <1>2, <2>1, <3>1, GoldDisturbed DEF Undisturbed
  <2>3. CASE server # t
    <3>1. Active(t) /\ client' = client
      BY <1>9, <2>1, <2>3, OwnFinish DEF Active, ServerFails
    <3> QED BY <1>2, <2>1, <2>3, <3>1, OthersDisturbed, GoldDisturbed
  <2> QED BY <2>2, <2>3
<1>10. ASSUME NEW a \in Accounts, ForgetAccount(a) PROVE GoldInv'
  BY <1>2, <1>10, GoldDisturbed DEF ForgetAccount, Undisturbed
<1>11. CASE UNCHANGED allVars
  <2>1. UNCHANGED <<client, server, pos, redis, output, results, clean, pc, account, prev,
                    responses, current>>
    BY <1>11 DEF allVars, scorerVars, replayVars
  <2>2. client = "waiting" => TakenBy(server)' = TakenBy(server)
    BY <2>1 DEF TakenBy
  <2>3. /\ \A i : InHand(i)' <=> InHand(i)
        /\ \A a : DoneRows(a)' = DoneRows(a)
        /\ BatchRows' = BatchRows
    BY <1>2, <2>1, <2>2, HandKept
  <2>4. HandInv'
    <3> HIDE DEF InHand, DoneRows, IsGold, BatchRows
    <3> QED BY <1>2, <2>1, <2>3, GoldKept DEF GoldInv, HandInv, Undisturbed, CoversAccount, RunKept
  <2> QED BY <1>2, <2>1, <2>2, <2>4, GoldHandFrame
<1> QED BY <1>1, <1>3, <1>4, <1>5, <1>6, <1>7, <1>8, <1>9, <1>10, <1>11
        DEF ReplayNext, ClientStep

(***************************************************************************)
(* Online and batch features agree for every file, batch size, limit and   *)
(* number of threads: what a live replay onto an empty store writes out    *)
(* for a row whose step it covers, and a dry run for one whose account's   *)
(* earlier rows are in its batch, are the features of silver_to_gold.      *)
(***************************************************************************)
THEOREM ReplayIsGold == ReplaySpec => []ReplayMatchesGold
<1>1. ReplayInit => AloneInv /\ GoldInv
  <2> SUFFICES ASSUME ReplayInit PROVE AloneInv /\ GoldInv
    OBVIOUS
  <2>1. client = "ended" /\ output = {} /\ pos = 0 /\ limit = 0
        /\ \A t \in Threads : pc[t] = "idle"
    BY DEF ReplayInit, ScorerInit
  <2>2. AloneInv
    BY <2>1 DEF AloneInv, Active
  <2>3. GoldInv
    BY <2>1 DEF GoldInv, AlignedInv, DocumentsInv, HandInv, OutputIsGold, Undisturbed
  <2> QED BY <2>2, <2>3
<1>2. BaseInv /\ AloneInv /\ GoldInv /\ [ReplayNext]_allVars => AloneInv' /\ GoldInv'
  BY AloneStep, GoldStep
<1>3. GoldInv => ReplayMatchesGold
  <2> SUFFICES ASSUME GoldInv, clean, NEW f \in output,
                      StepComplete(f.txn.id), dryRun => SameBatch(f.txn.id)
               PROVE  Unscored(f) = GoldFeatures(f.txn.id)
    BY DEF ReplayMatchesGold
  <2>1. Compared(csv, limit, dryRun, f.txn.id)
    BY DEF Compared, StepComplete, SameBatch
  <2> QED BY <2>1 DEF GoldInv, OutputIsGold, IsGold
<1> QED BY <1>1, <1>2, <1>3, ReplayInvariant, PTL DEF ReplaySpec
==============================================================================
