--------------------------- MODULE Notebooks_proofs ---------------------------
(***************************************************************************)
(* Theorems about the notebooks, for any accounts, amounts, windows,       *)
(* folds, models and any number of rows and restarts: the feature tables   *)
(* look only where FeaturesSettle says, because rows come by step; for any *)
(* scored rows, betas and resolution of the scores, what                   *)
(* fb_select_threshold and the EV policies choose; what the books decide   *)
(* with is blind to the labels kept for the end; and what they publish     *)
(* together was made together.                                             *)
(***************************************************************************)
EXTENDS Notebooks, FiniteSetTheorems, WellFoundedInduction, TLAPS

\* Feature tables

LedgerTypeOK == ledger \in Seq(Rows)

Sorted ==
  \A i, j \in DOMAIN ledger : i <= j => ledger[i].step <= ledger[j].step

LedgerInv == LedgerTypeOK /\ Sorted

(***************************************************************************)
(* What ReadRow does, seen from the rows that were there: they stay what   *)
(* they are, and the new one is behind them all and no earlier.            *)
(***************************************************************************)
Grown(L, M) ==
  /\ M[Len(M)] \in Rows
  /\ Len(M) = Len(L) + 1
  /\ DOMAIN L = 1..Len(L) /\ DOMAIN M = 1..Len(M)
  /\ \A j \in 1..Len(L) : M[j] = L[j] /\ L[j].step <= M[Len(M)].step

LEMMA ReadRowGrows ==
  ASSUME LedgerInv, ReadRow
  PROVE  Grown(ledger, ledger') /\ LedgerInv'
<1> DEFINE n == Len(ledger)
<1>1. PICK row \in Rows : /\ ledger # <<>> => row.step >= ledger[n].step
                          /\ ledger' = Append(ledger, row)
  BY DEF ReadRow
<1>2. /\ n \in Nat /\ DOMAIN ledger = 1..n
      /\ \A j \in 1..n : ledger[j] \in Rows
  BY DEF LedgerInv, LedgerTypeOK
<1>3. /\ ledger' \in Seq(Rows)
      /\ Len(ledger') = n + 1 /\ DOMAIN ledger' = 1..(n + 1)
      /\ ledger'[n + 1] = row
      /\ \A j \in 1..n : ledger'[j] = ledger[j]
  BY <1>1, <1>2 DEF LedgerInv, LedgerTypeOK
<1>4. row.step \in Nat /\ \A j \in 1..n : ledger[j].step \in Nat
  BY <1>1, <1>2 DEF Rows
<1>5. \A j \in 1..n : ledger[j].step <= row.step
  <2> TAKE j \in 1..n
  <2>1. ledger[j].step <= ledger[n].step
    BY <1>2 DEF LedgerInv, Sorted
  <2>2. ledger # <<>> /\ n \in 1..n
    BY <1>2
  <2>3. QED
    BY <1>1, <1>4, <2>1, <2>2
<1>6. Grown(ledger, ledger')
  BY <1>2, <1>3, <1>5 DEF Grown
<1>7. Sorted'
  <2> SUFFICES ASSUME NEW i \in 1..(n + 1), NEW j \in 1..(n + 1), i <= j
               PROVE  ledger'[i].step <= ledger'[j].step
    BY <1>3 DEF Sorted
  <2>1. CASE j \in 1..n
    BY <2>1, <1>2, <1>3 DEF LedgerInv, Sorted
  <2>2. CASE j = n + 1
    <3>1. i \in 1..n \/ i = n + 1
      BY <1>2
    <3>2. QED
      BY <2>2, <3>1, <1>3, <1>4, <1>5
  <2>3. QED
    BY <1>2, <2>1, <2>2
<1>8. QED
  BY <1>3, <1>6, <1>7 DEF LedgerInv, LedgerTypeOK

LEMMA LeastOf ==
  ASSUME NEW S \in SUBSET Nat, S # {}
  PROVE  \E j \in S : \A k \in S : j <= k
<1>1. PICK j \in S : \A k \in S : ~(<<k, j>> \in OpToRel(<, Nat))
  BY NatLessThanWellFounded, WFMin, Zenon
<1>2. \A k \in S : ~(k < j)
  BY <1>1, Zenon DEF OpToRel
<1>3. QED
  BY <1>2

(***************************************************************************)
(* The first inflow is the least one, and there is one.                    *)
(***************************************************************************)
LEMMA FirstInflowIsLeast ==
  ASSUME NEW L, NEW i, DOMAIN L = 1..Len(L), Len(L) \in Nat, Inflows(L, i) # {}
  PROVE  /\ FirstInflow(L, i) \in Inflows(L, i)
         /\ \A k \in Inflows(L, i) : FirstInflow(L, i) <= k
<1>1. Inflows(L, i) \in SUBSET Nat
  BY DEF Inflows
<1>2. \E j \in Inflows(L, i) : \A k \in Inflows(L, i) : j <= k
  BY <1>1, LeastOf
<1>3. QED
  BY <1>2, Zenon DEF FirstInflow

(***************************************************************************)
(* Amounts are added up over rows, so the same rows add up to the same.    *)
(***************************************************************************)
LEMMA TotalsAgree ==
  ASSUME NEW L, NEW M, NEW S, \A j \in S : M[j] = L[j]
  PROVE  Total(M, S) = Total(L, S)
<1>1. [j \in S |-> M[j].amount] = [j \in S |-> L[j].amount]
  OBVIOUS
<1>2. QED
  BY <1>1, Zenon DEF Total
------------------------------------------------------------------------------
\* One more row: what it changes of the features of row i, and what not

LEMMA HistorySettled ==
  ASSUME NEW L, NEW M, Grown(L, M), Len(L) \in Nat, NEW i \in 1..Len(L)
  PROVE  History(M, i) = History(L, i)
<1>1. /\ Before(L, i) \subseteq 1..Len(L) /\ M[i] = L[i]
      /\ \A j \in Before(L, i) : M[j] = L[j]
  BY DEF Before, Grown
<1>2. DestBefore(M, i) = DestBefore(L, i) /\ OrigBefore(M, i) = OrigBefore(L, i)
  BY <1>1 DEF DestBefore, OrigBefore, Before
<1>3. /\ \A j \in DestBefore(L, i) : M[j] = L[j]
      /\ \A j \in OrigBefore(L, i) : M[j] = L[j]
  BY <1>1 DEF DestBefore, OrigBefore
<1>4. /\ Total(M, DestBefore(L, i)) = Total(L, DestBefore(L, i))
      /\ Total(M, OrigBefore(L, i)) = Total(L, OrigBefore(L, i))
  BY <1>3, TotalsAgree
<1>5. QED
  BY <1>2, <1>4, Zenon DEF History

\* a transfer that comes later is no inflow before the cash-out, and not the
\* first one
LEMMA MuleSettled ==
  ASSUME NEW L, NEW M, Grown(L, M), Len(L) \in Nat, NEW i \in 1..Len(L),
         \A j \in 1..Len(L) : L[j] \in Rows
  PROVE  Mule(M, i) = Mule(L, i)
<1> DEFINE n == Len(L)
<1>1. /\ M[i] = L[i] /\ L[i].step <= M[n + 1].step
      /\ L[i].step \in Nat /\ M[n + 1].step \in Nat
      /\ DOMAIN L = 1..n /\ DOMAIN M = 1..(n + 1) /\ Len(M) = n + 1
      /\ \A j \in 1..n : M[j] = L[j]
  BY DEF Grown, Rows
<1>2. /\ Inflows(M, i) \subseteq Inflows(L, i) \cup {n + 1}
      /\ Inflows(L, i) \subseteq Inflows(M, i)
      /\ Inflows(L, i) \subseteq 1..n
  BY <1>1 DEF Inflows
<1>3. is_mule(M, i) <=> is_mule(L, i)
  <2>1. \A j \in Inflows(L, i) : M[j] = L[j]
    BY <1>1, <1>2
  <2>2. ~(M[n + 1].step < M[i].step)
    BY <1>1
  <2>3. QED
    BY <1>1, <1>2, <2>1, <2>2 DEF is_mule
<1>4. CASE ~is_mule(L, i)
  BY <1>3, <1>4 DEF Mule
<1>5. CASE is_mule(L, i)
  <2>1. Inflows(L, i) # {}
    BY <1>5 DEF is_mule
  <2>2. /\ FirstInflow(L, i) \in Inflows(L, i)
        /\ \A k \in Inflows(L, i) : FirstInflow(L, i) <= k
    BY <1>1, <2>1, FirstInflowIsLeast
  <2>3. /\ FirstInflow(M, i) \in Inflows(M, i)
        /\ \A k \in Inflows(M, i) : FirstInflow(M, i) <= k
    <3>1. Inflows(M, i) # {} /\ DOMAIN M = 1..Len(M) /\ Len(M) \in Nat
      BY <1>1, <1>2, <2>1
    <3>2. QED
      BY <3>1, FirstInflowIsLeast
  <2>4. FirstInflow(M, i) <= FirstInflow(L, i)
    BY <1>2, <2>2, <2>3
  <2>5. FirstInflow(M, i) # n + 1
    BY <1>2, <2>2, <2>4
  <2>6. FirstInflow(M, i) \in Inflows(L, i)
    BY <1>2, <2>3, <2>5
  <2>7. FirstInflow(M, i) = FirstInflow(L, i)
    BY <1>2, <2>2, <2>4, <2>6
  <2>8. M[FirstInflow(L, i)] = L[FirstInflow(L, i)]
    BY <1>1, <1>2, <2>2
  <2>9. QED
    BY <1>1, <1>3, <1>5, <2>7, <2>8 DEF Mule
<1>6. QED
  BY <1>4, <1>5

LEMMA RecipientSettled ==
  ASSUME NEW L, NEW M, Grown(L, M), Len(L) \in Nat, NEW i \in 1..Len(L),
         \A j \in 1..Len(L) : L[j] \in Rows
  PROVE  Recipient(M, i) = Recipient(L, i)
<1> DEFINE n == Len(L)
<1>1. /\ M[i] = L[i] /\ L[i].step <= M[n + 1].step
      /\ L[i].step \in Nat /\ M[n + 1].step \in Nat
      /\ DOMAIN L = 1..n /\ DOMAIN M = 1..(n + 1)
      /\ \A j \in 1..n : M[j] = L[j]
  BY DEF Grown, Rows
<1>2. ASSUME NEW w \in Windows
      PROVE  /\ Window(M, i, w) = Window(L, i, w)
             /\ \A j \in Window(L, i, w) : M[j] = L[j]
  <2>1. n + 1 \notin Window(M, i, w)
    BY <1>1 DEF Window
  <2>2. QED
    BY <1>1, <2>1 DEF Window
<1>3. ASSUME NEW w \in Windows
      PROVE  Total(M, Window(L, i, w)) = Total(L, Window(L, i, w))
  BY <1>2, TotalsAgree
<1>4. ASSUME NEW w \in Windows
      PROVE  /\ {M[j].nameOrig : j \in Window(L, i, w)} = {L[j].nameOrig : j \in Window(L, i, w)}
             /\ {M[j].step : j \in Window(L, i, w)} = {L[j].step : j \in Window(L, i, w)}
  BY <1>2
<1> HIDE DEF n
<1>5. QED
  BY <1>1, <1>2, <1>3, <1>4, Zenon DEF Recipient

LEMMA VelocitySettled ==
  ASSUME NEW L, NEW M, Grown(L, M), Len(L) \in Nat, NEW i \in 1..Len(L),
         Velocity(M, i) # Velocity(L, i)
  PROVE  SameDayAndAccount(L[i], M[Len(M)])
<1> DEFINE n == Len(L)
           new == M[Len(M)]
<1>1. /\ M[i] = L[i] /\ new = M[n + 1]
      /\ DOMAIN L = 1..n /\ DOMAIN M = 1..n \cup {n + 1}
      /\ \A j \in 1..n : M[j] = L[j]
  BY DEF Grown
<1>2. SUFFICES ASSUME \/ Day(new) # Day(L[i])
                      \/ new.nameDest # L[i].nameDest /\ new.nameOrig # L[i].nameOrig
               PROVE  Velocity(M, i) = Velocity(L, i)
  BY DEF SameDayAndAccount
<1> DEFINE dest(K) == {j \in Peers(K, i) : K[j].nameDest = K[i].nameDest}
           orig(K) == {j \in Peers(K, i) : K[j].nameOrig = K[i].nameOrig}
<1>3. dest(M) = dest(L) /\ orig(M) = orig(L)
  BY <1>1, <1>2 DEF Peers
<1>4. /\ {j \in dest(L) : M[j].step = M[i].step} = {j \in dest(L) : L[j].step = L[i].step}
      /\ {j \in orig(L) : M[j].step = M[i].step} = {j \in orig(L) : L[j].step = L[i].step}
  BY <1>1 DEF Peers
<1>5. QED
  BY <1>3, <1>4, Zenon DEF Velocity

LEMMA FittedSettled ==
  ASSUME NEW L, NEW M, Grown(L, M), Len(L) \in Nat, NEW i \in 1..Len(L),
         \A j \in 1..Len(L) : L[j] \in Rows,
         \E j \in 1..Len(L) : L[j].step > TrainEnd
  PROVE  Fitted(M, i) = Fitted(L, i)
<1> DEFINE n == Len(L)
<1>1. /\ M[i] = L[i]
      /\ DOMAIN L = 1..n /\ DOMAIN M = 1..n \cup {n + 1}
      /\ \A j \in 1..n : M[j] = L[j]
  BY DEF Grown
<1>2. M[n + 1].step > TrainEnd
  BY PointInTimeAssumption DEF Grown, Rows
<1>3. /\ TrainRows(M) = TrainRows(L)
      /\ \A j \in TrainRows(L) : M[j] = L[j]
  <2>1. M[n + 1].step \in Nat
    BY DEF Grown, Rows
  <2>2. QED
    BY <1>1, <1>2, <2>1, PointInTimeAssumption DEF TrainRows
<1>4. Channel(M, i) = Channel(L, i)
  BY <1>1, <1>3 DEF Channel
<1>5. EncodingRows(M, i) = EncodingRows(L, i)
  BY <1>1, <1>3 DEF EncodingRows
<1> DEFINE seen(K) == {j \in EncodingRows(K, i) : K[j].nameDest = K[i].nameDest}
<1>6. /\ seen(M) = seen(L)
      /\ {j \in seen(L) : M[j].isFraud = 1} = {j \in seen(L) : L[j].isFraud = 1}
  BY <1>1, <1>3, <1>5 DEF EncodingRows
<1>7. dest_stats(M, i) = dest_stats(L, i)
  BY <1>6, Zenon DEF dest_stats
<1>8. {j \in TrainRows(L) : M[j].isFraud = 1} = {j \in TrainRows(L) : L[j].isFraud = 1}
  BY <1>3
<1>9. global_train_prior(M) = global_train_prior(L)
  BY <1>3, <1>8, Zenon DEF global_train_prior
<1>10. QED
  BY <1>4, <1>7, <1>9, Zenon DEF Fitted

\* the row is in its own fold, and a row that is in none of the folds left out
\* is not among the training rows
LEMMA EncodedWithoutItself ==
  ASSUME LedgerInv
  PROVE  OwnLabelUnseen
<1> SUFFICES ASSUME NEW i \in DOMAIN ledger
             PROVE  dest_stats(Relabelled(i), i) = dest_stats(ledger, i)
  BY DEF OwnLabelUnseen
<1> DEFINE R == Relabelled(i)
<1>1. /\ DOMAIN ledger = 1..Len(ledger)
      /\ \A j \in DOMAIN ledger : ledger[j] \in Rows
  BY DEF LedgerInv, LedgerTypeOK
<1>2. /\ DOMAIN R = DOMAIN ledger
      /\ \A j \in DOMAIN ledger : j # i => R[j] = ledger[j]
      /\ R[i] = [ledger[i] EXCEPT !.isFraud = 1 - ledger[i].isFraud]
  BY DEF Relabelled
<1>3. \A j \in DOMAIN ledger :
        /\ R[j].step = ledger[j].step /\ R[j].fold = ledger[j].fold
        /\ R[j].nameDest = ledger[j].nameDest
  BY <1>1, <1>2 DEF Rows
<1> HIDE DEF R
<1>4. TrainRows(R) = TrainRows(ledger)
  BY <1>2, <1>3 DEF TrainRows
<1>5. EncodingRows(R, i) = EncodingRows(ledger, i)
  BY <1>2, <1>3, <1>4 DEF EncodingRows, TrainRows
<1>6. i \notin EncodingRows(ledger, i)
  BY DEF EncodingRows, TrainRows
<1> DEFINE seen(K) == {j \in EncodingRows(K, i) : K[j].nameDest = K[i].nameDest}
<1>7. /\ seen(R) = seen(ledger)
      /\ {j \in seen(ledger) : R[j].isFraud = 1} = {j \in seen(ledger) : ledger[j].isFraud = 1}
  BY <1>2, <1>3, <1>5, <1>6 DEF EncodingRows, TrainRows
<1>8. dest_stats(R, i) = dest_stats(ledger, i)
  BY <1>7, Zenon DEF dest_stats
<1>9. QED
  BY <1>8 DEF R
------------------------------------------------------------------------------

(***************************************************************************)
(* The ledger is a sequence of rows in the order of their steps.           *)
(***************************************************************************)
THEOREM LedgerInvariant == PointInTimeSpec => []LedgerInv
<1>1. PointInTimeInit => LedgerInv
  BY DEF PointInTimeInit, LedgerInv, LedgerTypeOK, Sorted
<1>2. LedgerInv /\ [ReadRow]_ledger => LedgerInv'
  <2>1. ASSUME LedgerInv, UNCHANGED ledger PROVE LedgerInv'
    BY <2>1 DEF LedgerInv, LedgerTypeOK, Sorted
  <2>2. QED
    BY <2>1, ReadRowGrows
<1>3. QED
  BY <1>1, <1>2, PTL DEF PointInTimeSpec

(***************************************************************************)
(* The feature tables of the notebooks (04.BuildOptimalModel, colab_02)    *)
(* leak no more than they say, whatever the rows: histories, chains and    *)
(* windows never change once a row is there, velocities look ahead within  *)
(* their day only, what is fitted is fitted to training rows, and no row   *)
(* is encoded with its own label.                                          *)
(***************************************************************************)
THEOREM FeaturesDoSettle == PointInTimeSpec => FeaturesSettle
<1>1. ASSUME LedgerInv, ReadRow PROVE PastStays /\ OnlyWithinTheDay /\ FitStays
  <2>1. /\ Grown(ledger, ledger') /\ Len(ledger) \in Nat
        /\ DOMAIN ledger = 1..Len(ledger)
        /\ \A j \in 1..Len(ledger) : ledger[j] \in Rows
    BY <1>1, ReadRowGrows DEF LedgerInv, LedgerTypeOK
  <2>2. PastStays
    BY <2>1, HistorySettled, MuleSettled, RecipientSettled DEF PastStays, Settled
  <2>3. OnlyWithinTheDay
    BY <2>1, VelocitySettled DEF OnlyWithinTheDay
  <2>4. FitStays
    BY <2>1, FittedSettled DEF FitStays
  <2>5. QED
    BY <2>2, <2>3, <2>4
<1>2. LedgerInv /\ [ReadRow]_ledger =>
        [PastStays]_ledger /\ [OnlyWithinTheDay]_ledger /\ [FitStays]_ledger
  BY <1>1
<1>3. LedgerInv => OwnLabelUnseen
  BY EncodedWithoutItself
<1>4. QED
  BY <1>2, <1>3, LedgerInvariant, PTL
     DEF PointInTimeSpec, FeaturesSettle, PastIsSettled, LookaheadIsOneDay,
         FittedOnTrainOnly
------------------------------------------------------------------------------

\* Alert policies

PolicyTypeOK == scored \in Seq(ScoredRows)

LEMMA HighestOf ==
  ASSUME NEW S, NEW n \in Nat, S \subseteq 0..n, S # {}
  PROVE  Max(S) \in S /\ \A k \in S : k <= Max(S)
<1> DEFINE T == {n - s : s \in S}
<1>1. T \in SUBSET Nat /\ T # {}
  <2>1. \A s \in S : n - s \in Nat
    OBVIOUS
  <2>2. QED
    BY <2>1
<1>2. PICK j \in T : \A k \in T : j <= k
  BY <1>1, LeastOf
<1>3. PICK s \in S : j = n - s
  BY <1>2
<1>4. ASSUME NEW k \in S PROVE s >= k
  BY <1>2, <1>3
<1>5. \E x \in S : \A y \in S : x >= y
  BY <1>4
<1>6. Max(S) \in S /\ \A k \in S : Max(S) >= k
  BY <1>5, Zenon DEF Max
<1>7. QED
  BY <1>6
------------------------------------------------------------------------------
\* Fractions

LEMMA Product ==
  ASSUME NEW x \in Nat, NEW y \in Nat
  PROVE  x * y \in Nat
BY SMT

LEMMA LargerFactor ==
  ASSUME NEW x \in Nat, NEW y \in Nat, NEW z \in Nat, x <= y
  PROVE  z * x <= z * y
BY SMT

LEMMA CancelFactor ==
  ASSUME NEW x \in Nat, NEW y \in Nat, NEW z \in Nat \ {0}, z * x <= z * y
  PROVE  x <= y
BY SMT

Fraction(x) == x.num \in Nat /\ x.den \in Nat \ {0}

LEMMA AtLeastTransitive ==
  ASSUME NEW x, NEW y, NEW z, Fraction(x), Fraction(y), Fraction(z),
         AtLeast(x, y), AtLeast(y, z)
  PROVE  AtLeast(x, z)
<1> DEFINE xn == x.num  xd == x.den
           yn == y.num  yd == y.den
           zn == z.num  zd == z.den
<1>1. /\ xn \in Nat /\ yn \in Nat /\ zn \in Nat
      /\ xd \in Nat \ {0} /\ yd \in Nat \ {0} /\ zd \in Nat \ {0}
      /\ yn * xd <= xn * yd /\ zn * yd <= yn * zd
  BY DEF Fraction, AtLeast
<1> HIDE DEF xn, xd, yn, yd, zn, zd
<1>2. zd * (yn * xd) <= zd * (xn * yd) /\ xd * (zn * yd) <= xd * (yn * zd)
  BY <1>1, LargerFactor, Product
<1>3. yd * (zn * xd) <= yd * (xn * zd)
  BY <1>1, <1>2
<1>4. zn * xd <= xn * zd
  BY <1>1, <1>3, CancelFactor, Product
<1>5. QED
  BY <1>4 DEF AtLeast, xn, xd, zn, zd

LEMMA AtLeastTotal ==
  ASSUME NEW x, NEW y, Fraction(x), Fraction(y)
  PROVE  AtLeast(x, y) \/ AtLeast(y, x)
<1>1. x.num * y.den \in Nat /\ y.num * x.den \in Nat
  BY Product DEF Fraction
<1>2. QED
  BY <1>1 DEF AtLeast
------------------------------------------------------------------------------
\* The counts a score is made of

Rated(rows) == rows \in Seq(ScoredRows)

LEMMA AlertsAreFinite ==
  ASSUME NEW rows, Rated(rows)
  PROVE  /\ DOMAIN rows = 1..Len(rows) /\ Len(rows) \in Nat
         /\ IsFiniteSet(DOMAIN rows)
         /\ \A S \in SUBSET DOMAIN rows : IsFiniteSet(S) /\ Cardinality(S) \in Nat
<1>1. DOMAIN rows = 1..Len(rows) /\ Len(rows) \in Nat
  BY DEF Rated
<1>2. IsFiniteSet(DOMAIN rows)
  BY <1>1, FS_Interval
<1>3. QED
  BY <1>1, <1>2, FS_Subset, FS_CardinalityType

LEMMA Counts ==
  ASSUME NEW rows, Rated(rows), NEW t
  PROVE  /\ Cardinality(Alerts(rows, t)) \in Nat
         /\ Positives(rows, t) \in Nat
         /\ Cardinality(Fraud(rows)) \in Nat
<1>1. /\ Alerts(rows, t) \in SUBSET DOMAIN rows
      /\ Alerts(rows, t) \cap Fraud(rows) \in SUBSET DOMAIN rows
      /\ Fraud(rows) \in SUBSET DOMAIN rows
  BY DEF Alerts, Fraud
<1>2. QED
  BY <1>1, AlertsAreFinite DEF Positives

LEMMA RowsAreScored ==
  ASSUME NEW rows, Rated(rows), NEW i \in DOMAIN rows
  PROVE  /\ rows[i] \in ScoredRows
         /\ rows[i].score \in 0..Unit /\ rows[i].score \in Nat
<1>1. rows[i] \in ScoredRows
  BY DEF Rated
<1>2. rows[i].score \in 0..Unit
  BY <1>1 DEF ScoredRows
<1>3. QED
  BY <1>1, <1>2, AlertPolicyAssumption

LEMMA LowerAlertsMore ==
  ASSUME NEW rows, Rated(rows), NEW t \in Nat, NEW u \in Nat, t <= u
  PROVE  /\ Cardinality(Alerts(rows, u)) <= Cardinality(Alerts(rows, t))
         /\ Positives(rows, u) <= Positives(rows, t)
<1>1. \A i \in DOMAIN rows : rows[i].score \in Nat
  BY RowsAreScored
<1>2. /\ Alerts(rows, u) \subseteq Alerts(rows, t)
      /\ Alerts(rows, u) \cap Fraud(rows) \subseteq Alerts(rows, t) \cap Fraud(rows)
  BY <1>1 DEF Alerts
<1>3. /\ IsFiniteSet(Alerts(rows, t))
      /\ IsFiniteSet(Alerts(rows, t) \cap Fraud(rows))
  BY AlertsAreFinite DEF Alerts
<1>4. QED
  BY <1>2, <1>3, FS_Subset DEF Positives

LEMMA ThresholdsAreScores ==
  ASSUME NEW rows, Rated(rows)
  PROVE  /\ Thresholds(rows) \subseteq 0..Unit
         /\ IsFiniteSet(Thresholds(rows))
         /\ rows # <<>> => Thresholds(rows) # {}
<1>1. Thresholds(rows) \subseteq 0..Unit
  BY RowsAreScored DEF Thresholds
<1>2. IsFiniteSet(Thresholds(rows))
  <2>1. 0 \in Int /\ Unit \in Int
    BY AlertPolicyAssumption
  <2>2. QED
    BY <1>1, <2>1, FS_Interval, FS_Subset
<1>3. ASSUME rows # <<>> PROVE Thresholds(rows) # {}
  <2>1. 1 \in DOMAIN rows
    BY <1>3 DEF Rated
  <2>2. QED
    BY <2>1 DEF Thresholds
<1>4. QED
  BY <1>1, <1>2, <1>3

LEMMA ScoresAreFractions ==
  ASSUME NEW rows, Rated(rows), NEW b \in Betas, NEW t \in Thresholds(rows)
  PROVE  Fraction(Score(rows, b, t))
<1>1. PICK i \in DOMAIN rows : t = rows[i].score
  BY DEF Thresholds
<1>2. i \in Alerts(rows, t)
  BY <1>1, RowsAreScored DEF Alerts
<1>3. IsFiniteSet(Alerts(rows, t))
  BY AlertsAreFinite DEF Alerts
<1>4. Cardinality(Alerts(rows, t)) # 0
  BY <1>2, <1>3, FS_EmptySet
<1>5. b \in Nat /\ b * b \in Nat
  BY AlertPolicyAssumption, Product
<1>6. b * b * Cardinality(Fraud(rows)) \in Nat
  BY <1>5, Counts, Product
<1>7. QED
  BY <1>4, <1>6, Counts DEF Fraction, Score

(***************************************************************************)
(* A set of thresholds has a best one: if some set had none, a smallest    *)
(* such set would, without one of its elements, have one.                  *)
(***************************************************************************)
LEMMA BestExists ==
  ASSUME NEW rows, Rated(rows), NEW b \in Betas,
         NEW T \in SUBSET Thresholds(rows), T # {}
  PROVE  \E t \in T : \A u \in T : AtLeast(Score(rows, b, t), Score(rows, b, u))
<1> DEFINE HasBest(S) == \E t \in S : \A u \in S : AtLeast(Score(rows, b, t), Score(rows, b, u))
           Without == {S \in SUBSET Thresholds(rows) : S # {} /\ ~HasBest(S)}
           Sizes == {Cardinality(S) : S \in Without}
<1>1. SUFFICES ASSUME T \in Without PROVE FALSE
  OBVIOUS
<1> HIDE DEF HasBest
<1>2. \A S \in SUBSET Thresholds(rows) : IsFiniteSet(S) /\ Cardinality(S) \in Nat
  BY ThresholdsAreScores, FS_Subset, FS_CardinalityType
<1>3. Sizes \in SUBSET Nat /\ Sizes # {}
  BY <1>1, <1>2
<1>4. PICK n \in Sizes : \A k \in Sizes : n <= k
  BY <1>3, LeastOf
<1>5. PICK S \in Without : n = Cardinality(S)
  BY <1>4
<1>6. PICK t \in S : TRUE
  BY <1>5
<1> DEFINE R == S \ {t}
<1>7. Cardinality(R) = n - 1 /\ R \in SUBSET Thresholds(rows)
  BY <1>2, <1>5, <1>6, FS_RemoveElement
<1>8. n \in Nat
  BY <1>3, <1>4
<1>9. R \notin Without
  BY <1>4, <1>7, <1>8
<1>10. AtLeast(Score(rows, b, t), Score(rows, b, t))
  BY ScoresAreFractions, AtLeastTotal, <1>5, <1>6
<1>11. CASE R = {}
  <2>1. S = {t}
    BY <1>6, <1>11
  <2>2. HasBest(S)
    BY <1>10, <2>1, Zenon DEF HasBest
  <2>3. QED
    BY <1>5, <2>2
<1>12. CASE R # {}
  <2>1. PICK r \in R : \A u \in R : AtLeast(Score(rows, b, r), Score(rows, b, u))
    BY <1>7, <1>9, <1>12 DEF HasBest
  <2>2. /\ \A u \in S : Fraction(Score(rows, b, u))
        /\ \A u \in S : u = t \/ u \in R
        /\ r \in S
    BY <1>5, ScoresAreFractions
  <2>3. CASE AtLeast(Score(rows, b, r), Score(rows, b, t))
    <3>1. \A u \in S : AtLeast(Score(rows, b, r), Score(rows, b, u))
      BY <2>1, <2>2, <2>3
    <3>2. QED
      BY <1>5, <2>2, <3>1, Zenon DEF HasBest
  <2>4. CASE AtLeast(Score(rows, b, t), Score(rows, b, r))
    <3>1. \A u \in S : AtLeast(Score(rows, b, t), Score(rows, b, u))
      BY <1>6, <1>10, <2>1, <2>2, <2>4, AtLeastTransitive
    <3>2. QED
      BY <1>5, <1>6, <3>1, Zenon DEF HasBest
  <2>5. QED
    BY <1>6, <2>2, <2>3, <2>4, AtLeastTotal
<1>13. QED
  BY <1>11, <1>12

(***************************************************************************)
(* What fb_select_threshold returns: a best threshold, and none above it   *)
(* is as good.                                                             *)
(***************************************************************************)
LEMMA Selected ==
  ASSUME NEW rows, Rated(rows), rows # <<>>, NEW b \in Betas
  PROVE  LET t == fb_select_threshold(rows, b)
         IN /\ t \in Thresholds(rows)
            /\ \A u \in Thresholds(rows) : AtLeast(Score(rows, b, t), Score(rows, b, u))
            /\ \A u \in Tied(rows, b) : u <= t
<1>1. Tied(rows, b) # {}
  BY BestExists, ThresholdsAreScores, Zenon DEF Tied
<1>2. Tied(rows, b) \subseteq 0..Unit
  BY ThresholdsAreScores DEF Tied
<1>3. /\ Max(Tied(rows, b)) \in Tied(rows, b)
      /\ \A u \in Tied(rows, b) : u <= Max(Tied(rows, b))
  BY <1>1, <1>2, HighestOf, AlertPolicyAssumption
<1>4. QED
  BY <1>3, Zenon DEF fb_select_threshold, Tied
------------------------------------------------------------------------------
\* Betas

(***************************************************************************)
(* The arithmetic of the rule: p frauds of a alerts against q of c, of f   *)
(* frauds, with squares of beta x <= y.  If the second is better under x,  *)
(* it is not worse under y.                                                *)
(***************************************************************************)
LEMMA LargerBetaPrefersRecall ==
  ASSUME NEW p \in Nat, NEW q \in Nat, NEW a \in Nat, NEW c \in Nat, NEW f \in Nat,
         NEW x \in Nat, NEW y \in Nat, x <= y, p <= q,
         p * (x * f + 16 * c) < q * (x * f + 16 * a)
  PROVE  p * (y * f + 16 * c) < q * (y * f + 16 * a)
<1> DEFINE xf == x * f
           yf == y * f
           d == yf - xf
<1>1. /\ xf \in Nat /\ yf \in Nat /\ xf <= yf
  BY LargerFactor, Product
<1>2. p * (xf + 16 * c) < q * (xf + 16 * a)
  OBVIOUS
<1> HIDE DEF xf, yf
<1>3. d \in Nat /\ yf = xf + d
  BY <1>1
<1> HIDE DEF d
<1>4. p * d <= q * d /\ p * d \in Nat /\ q * d \in Nat
  <2>1. d * p <= d * q
    BY <1>3, LargerFactor
  <2>2. QED
    BY <1>3, <2>1, Product
<1>5. /\ p * (xf + d + 16 * c) = p * (xf + 16 * c) + p * d
      /\ q * (xf + d + 16 * a) = q * (xf + 16 * a) + q * d
  BY <1>1, <1>3
<1>6. p * (xf + 16 * c) \in Nat /\ q * (xf + 16 * a) \in Nat
  BY <1>1, Product
<1>7. p * (xf + d + 16 * c) < q * (xf + d + 16 * a)
  BY <1>2, <1>4, <1>5, <1>6
<1>8. QED
  BY <1>3, <1>7 DEF yf

LEMMA LargerBetaIsLower ==
  ASSUME NEW rows, Rated(rows), rows # <<>>,
         NEW b \in Betas, NEW c \in Betas, b <= c
  PROVE  fb_select_threshold(rows, c) <= fb_select_threshold(rows, b)
<1> DEFINE t == fb_select_threshold(rows, b)
           u == fb_select_threshold(rows, c)
           s(k, v) == Score(rows, k, v)
           F == Cardinality(Fraud(rows))
<1>1. /\ t \in Thresholds(rows) /\ u \in Thresholds(rows)
      /\ t \in Nat /\ u \in Nat
  BY Selected, ThresholdsAreScores, AlertPolicyAssumption
<1>2. SUFFICES ASSUME t < u PROVE FALSE
  BY <1>1
<1>3. AtLeast(s(c, u), s(c, t))
  BY <1>1, Selected
<1>4. ~AtLeast(s(b, u), s(b, t))
  <2>1. SUFFICES ASSUME AtLeast(s(b, u), s(b, t)) PROVE FALSE
    OBVIOUS
  <2>2. \A v \in Thresholds(rows) : AtLeast(s(b, u), s(b, v))
    <3> TAKE v \in Thresholds(rows)
    <3>1. AtLeast(s(b, t), s(b, v))
      BY Selected
    <3>2. QED
      BY <1>1, <2>1, <3>1, ScoresAreFractions, AtLeastTransitive
  <2>3. u \in Tied(rows, b)
    BY <1>1, <2>2 DEF Tied
  <2>4. QED
    BY <1>1, <1>2, <2>3, Selected
<1>5. Positives(rows, u) <= Positives(rows, t)
  BY <1>1, <1>2, LowerAlertsMore
<1> HIDE DEF t, u
<1> DEFINE p == Positives(rows, u)
           q == Positives(rows, t)
           a == Cardinality(Alerts(rows, u))
           d == Cardinality(Alerts(rows, t))
<1>6. /\ p \in Nat /\ q \in Nat /\ a \in Nat /\ d \in Nat /\ F \in Nat
      /\ b * b \in Nat /\ c * c \in Nat /\ b * b <= c * c
  <2>1. b \in Nat /\ c \in Nat
    BY AlertPolicyAssumption
  <2>2. b * b <= b * c /\ c * b <= c * c
    BY <2>1, LargerFactor
  <2>3. b * c = c * b /\ b * b \in Nat /\ c * c \in Nat /\ b * c \in Nat
    BY <2>1, Product
  <2>4. b * b <= c * c
    BY <2>2, <2>3
  <2>5. QED
    BY <2>3, <2>4, Counts
<1>7. ~(p * (b * b * F + 16 * d) >= q * (b * b * F + 16 * a))
  BY <1>4 DEF AtLeast, Score
<1>8. p * (c * c * F + 16 * d) >= q * (c * c * F + 16 * a)
  BY <1>3 DEF AtLeast, Score
<1> DEFINE x == b * b
           y == c * c
<1> HIDE DEF p, q, a, d, F, x, y
<1>9. x \in Nat /\ y \in Nat /\ x <= y /\ p <= q
  BY <1>5, <1>6 DEF x, y, p, q
<1>10. /\ ~(p * (x * F + 16 * d) >= q * (x * F + 16 * a))
       /\ p * (y * F + 16 * d) >= q * (y * F + 16 * a)
  BY <1>7, <1>8 DEF x, y
<1>11. /\ p * (x * F + 16 * d) \in Nat /\ q * (x * F + 16 * a) \in Nat
       /\ p * (y * F + 16 * d) \in Nat /\ q * (y * F + 16 * a) \in Nat
  <2>1. /\ x * F + 16 * d \in Nat /\ x * F + 16 * a \in Nat
        /\ y * F + 16 * d \in Nat /\ y * F + 16 * a \in Nat
    BY <1>6, <1>9, Product
  <2>2. QED
    BY <1>6, <2>1, Product
<1>12. p * (x * F + 16 * d) < q * (x * F + 16 * a)
  BY <1>10, <1>11
<1>13. p * (y * F + 16 * d) < q * (y * F + 16 * a)
  BY <1>6, <1>9, <1>12, LargerBetaPrefersRecall
<1>14. QED
  BY <1>10, <1>11, <1>13
------------------------------------------------------------------------------
\* Values

(***************************************************************************)
(* Sums over one row and over none, from the definition of the fold.       *)
(***************************************************************************)
LEMMA SumOfOne ==
  ASSUME NEW v \in Int, NEW f, f = [i \in {1} |-> v]
  PROVE  SumFunction(f) = v
<1> DEFINE g == [s \in {{}, {1}} |-> IF s = {} THEN 0 ELSE v]
           It(h) == h = [s \in SUBSET {1} |->
                          IF s = {} THEN 0
                          ELSE f[CHOOSE x \in s : TRUE] + h[s \ {CHOOSE x \in s : TRUE}]]
<1>1. SUBSET {1} = {{}, {1}} /\ DOMAIN f = {1} /\ f[1] = v
  OBVIOUS
<1>2. (CHOOSE x \in {1} : TRUE) = 1
  OBVIOUS
<1>3. It(g)
  BY <1>1, <1>2
<1>4. It(CHOOSE h : It(h))
  BY <1>3, Zenon
<1>5. SumFunction(f) = (CHOOSE h : It(h))[{1}]
  BY <1>1, Zenon DEF SumFunction, SumFunctionOnSet, FoldFunctionOnSet, MapThenFoldSet
<1> DEFINE h0 == CHOOSE h : It(h)
<1>6. It(h0)
  BY <1>4
<1> HIDE DEF g, h0
<1>7. h0[{}] = 0
  BY <1>1, <1>6
<1>8. h0[{1}] = f[1] + h0[{}]
  <2>1. {1} # {} /\ {1} \ {1} = {} /\ {1} \in SUBSET {1}
    OBVIOUS
  <2>2. h0[{1}] = f[CHOOSE x \in {1} : TRUE] + h0[{1} \ {CHOOSE x \in {1} : TRUE}]
    BY <1>6, <2>1
  <2>3. QED
    BY <1>2, <2>1, <2>2
<1>9. QED
  BY <1>1, <1>5, <1>7, <1>8 DEF h0

LEMMA SumOfNone ==
  ASSUME NEW f, DOMAIN f = {}
  PROVE  SumFunction(f) = 0
<1> DEFINE g == [s \in {{}} |-> 0]
           It(h) == h = [s \in SUBSET {} |->
                          IF s = {} THEN 0
                          ELSE f[CHOOSE x \in s : TRUE] + h[s \ {CHOOSE x \in s : TRUE}]]
<1>1. SUBSET {} = {{}}
  OBVIOUS
<1>2. It(g)
  BY <1>1
<1>3. It(CHOOSE h : It(h))
  BY <1>2, Zenon
<1>4. SumFunction(f) = (CHOOSE h : It(h))[{}]
  BY Zenon DEF SumFunction, SumFunctionOnSet, FoldFunctionOnSet, MapThenFoldSet
<1> DEFINE h0 == CHOOSE h : It(h)
<1>5. It(h0)
  BY <1>3
<1> HIDE DEF g, h0
<1>6. h0[{}] = 0
  BY <1>1, <1>5
<1>7. QED
  BY <1>4, <1>6 DEF h0

LEMMA OneRow ==
  ASSUME NEW row \in ScoredRows
  PROVE  row.amount \in Nat /\ row.score \in Nat /\ Unit \in Nat
<1>1. row.amount \in Sums /\ row.score \in 0..Unit
  BY DEF ScoredRows
<1>2. Unit \in Nat /\ Sums \subseteq Nat
  BY AlertPolicyAssumption
<1>3. row.score \in Nat
  BY <1>1, <1>2
<1>4. QED
  BY <1>1, <1>2, <1>3

(***************************************************************************)
(* What an alert on one row is worth, by its label.                        *)
(***************************************************************************)
LEMMA ValueOfOne ==
  ASSUME NEW row \in ScoredRows
  PROVE  /\ NetValue(Labelled(row, 1), {1}) = 5 * row.amount - 25
         /\ NetValue(Labelled(row, 0), {1}) = - row.amount - 25
<1>1. row.amount \in Nat /\ 5 * row.amount \in Int
  <2>1. row.amount \in Nat
    BY OneRow
  <2>2. QED
    BY <2>1
<1>2. Cardinality({1}) = 1
  BY FS_Singleton
<1>3. ASSUME NEW y \in {0, 1}
      PROVE  /\ DOMAIN Labelled(row, y) = {1}
             /\ Labelled(row, y)[1].isFraud = y
             /\ Labelled(row, y)[1].amount = row.amount
  <2>1. Len(Labelled(row, y)) = 1 /\ Labelled(row, y)[1] = [row EXCEPT !.isFraud = y]
    BY DEF Labelled
  <2>2. DOMAIN Labelled(row, y) = 1..1
    BY <2>1 DEF Labelled
  <2>3. QED
    BY <2>1, <2>2 DEF ScoredRows
<1>4. ASSUME NEW y \in {0, 1}
      PROVE  /\ Sum5(Labelled(row, y), {1}) = 5 * row.amount
             /\ Sum5(Labelled(row, y), {}) = 0
  <2>1. [i \in {1} |-> 5 * Labelled(row, y)[i].amount] = [i \in {1} |-> 5 * row.amount]
    BY <1>3
  <2>2. QED
    BY <1>1, <2>1, SumOfOne, SumOfNone DEF Sum5
<1>5. NetValue(Labelled(row, 1), {1}) = 5 * row.amount - 25
  <2>1. Fraud(Labelled(row, 1)) = {1} /\ Legit(Labelled(row, 1)) = {}
    BY <1>3 DEF Fraud, Legit
  <2>2. {1} \cap {1} = {1} /\ {1} \cap {} = {}
    OBVIOUS
  <2>3. NetValue(Labelled(row, 1), {1}) = 5 * row.amount - 0 \div 5 - 25 * 1
    BY <1>2, <1>4, <2>1, <2>2 DEF NetValue
  <2>4. QED
    BY <1>1, <2>3
<1>6. NetValue(Labelled(row, 0), {1}) = - row.amount - 25
  <2>1. Fraud(Labelled(row, 0)) = {} /\ Legit(Labelled(row, 0)) = {1}
    BY <1>3 DEF Fraud, Legit
  <2>2. {1} \cap {1} = {1} /\ {1} \cap {} = {}
    OBVIOUS
  <2>3. NetValue(Labelled(row, 0), {1}) = 0 - (5 * row.amount) \div 5 - 25 * 1
    BY <1>2, <1>4, <2>1, <2>2 DEF NetValue
  <2>4. (5 * row.amount) \div 5 = row.amount
    BY <1>1
  <2>5. QED
    BY <1>1, <2>3, <2>4
<1>7. QED
  BY <1>5, <1>6

LEMMA ExpectedValueOfOne ==
  ASSUME NEW row \in ScoredRows
  PROVE  expected_alert_value(row) =
           row.score * NetValue(Labelled(row, 1), {1})
           + (Unit - row.score) * NetValue(Labelled(row, 0), {1})
<1> DEFINE p == row.score
           a == row.amount
<1>1. p \in Nat /\ a \in Nat /\ Unit \in Nat
  BY OneRow
<1> HIDE DEF p, a
<1>2. 6 * p * a - Unit * a - 25 * Unit = p * (5 * a - 25) + (Unit - p) * (- a - 25)
  BY <1>1
<1>3. QED
  BY <1>2, ValueOfOne DEF expected_alert_value, p, a
------------------------------------------------------------------------------
\* The frontier

(***************************************************************************)
(* The rows cumulated up to a boundary are those alerted on at its score:  *)
(* all rows of the score are cumulated.                                    *)
(***************************************************************************)
LEMMA CumulatedIsAlerted ==
  ASSUME NEW rows, Rated(rows), NEW i \in Boundary(rows)
  PROVE  UpTo(rows, i) = Alerts(rows, rows[i].score)
<1>1. /\ i \in DOMAIN rows /\ DOMAIN rows \subseteq Nat
      /\ \A j \in DOMAIN rows : rows[j].score \in Nat
      /\ \A j \in DOMAIN rows : rows[j].score = rows[i].score => ~(j > i)
  BY RowsAreScored, AlertsAreFinite DEF Boundary
<1>2. \A j \in DOMAIN rows : j > i \/ j <= i
  BY <1>1
<1>3. \A j \in DOMAIN rows :
        rows[j].score >= rows[i].score
          <=> rows[j].score > rows[i].score \/ (rows[j].score = rows[i].score /\ j <= i)
  BY <1>1, <1>2
<1>4. QED
  BY <1>3 DEF UpTo, Alerts

LEMMA EveryThresholdHasABoundary ==
  ASSUME NEW rows, Rated(rows), NEW t \in Thresholds(rows)
  PROVE  \E i \in Boundary(rows) : rows[i].score = t
<1> DEFINE S == {i \in DOMAIN rows : rows[i].score = t}
<1>1. S # {} /\ S \subseteq 0..Len(rows) /\ Len(rows) \in Nat
  BY AlertsAreFinite DEF Thresholds
<1>2. Max(S) \in S /\ \A k \in S : k <= Max(S)
  BY <1>1, HighestOf
<1>3. \A k \in S : ~(k > Max(S))
  <2>1. \A k \in S : k \in Nat
    BY <1>1
  <2>2. QED
    BY <1>2, <2>1
<1>4. QED
  BY <1>2, <1>3 DEF Boundary

LEMMA FrontierIsExact ==
  ASSUME PolicyTypeOK
  PROVE  FrontierIsEvaluation
<1>1. Rated(scored)
  BY DEF PolicyTypeOK, Rated
<1> DEFINE Point(i) ==
             [threshold |-> scored[i].score,
              tp |-> Cardinality(UpTo(scored, i) \cap Fraud(scored)),
              fp |-> Cardinality(UpTo(scored, i) \cap Legit(scored)),
              captured |-> Sum5(scored, UpTo(scored, i) \cap Fraud(scored)),
              legit_alerted |-> Sum5(scored, UpTo(scored, i) \cap Legit(scored))]
<1>2. {f.threshold : f \in exact_threshold_frontier(scored)} = Thresholds(scored)
  <2>1. ASSUME NEW f \in exact_threshold_frontier(scored)
        PROVE  f.threshold \in Thresholds(scored)
    <3>1. PICK i \in Boundary(scored) : f = Point(i)
      BY Zenon DEF exact_threshold_frontier
    <3>2. QED
      BY <3>1 DEF Boundary, Thresholds
  <2>2. ASSUME NEW t \in Thresholds(scored)
        PROVE  \E f \in exact_threshold_frontier(scored) : f.threshold = t
    <3>1. PICK i \in Boundary(scored) : scored[i].score = t
      BY <1>1, EveryThresholdHasABoundary
    <3>2. Point(i) \in exact_threshold_frontier(scored)
      BY Zenon DEF exact_threshold_frontier
    <3>3. Point(i).threshold = t
      BY <3>1
    <3> HIDE DEF Point
    <3>4. QED
      BY <3>2, <3>3
  <2>3. QED
    BY <2>1, <2>2
<1>3. ASSUME NEW f \in exact_threshold_frontier(scored)
      PROVE  /\ f.tp = Cardinality(Alerts(scored, f.threshold) \cap Fraud(scored))
             /\ f.fp = Cardinality(Alerts(scored, f.threshold) \cap Legit(scored))
             /\ f.captured = Sum5(scored, Alerts(scored, f.threshold) \cap Fraud(scored))
             /\ f.legit_alerted = Sum5(scored, Alerts(scored, f.threshold) \cap Legit(scored))
  <2>1. PICK i \in Boundary(scored) : f = Point(i)
    BY Zenon DEF exact_threshold_frontier
  <2>2. UpTo(scored, i) = Alerts(scored, f.threshold)
    BY <1>1, <2>1, CumulatedIsAlerted
  <2>3. QED
    BY <2>1, <2>2
<1>4. QED
  BY <1>2, <1>3 DEF FrontierIsEvaluation
------------------------------------------------------------------------------

\* what is chosen on is a sequence of scored rows
LEMMA PolicyTyping == PolicySpec => []PolicyTypeOK
<1>1. PolicyInit => PolicyTypeOK
  BY DEF PolicyInit, PolicyTypeOK
<1>2. PolicyTypeOK /\ [ScoreRow]_scored => PolicyTypeOK'
  BY DEF PolicyTypeOK, ScoreRow
<1>3. QED
  BY <1>1, <1>2, PTL DEF PolicySpec

(***************************************************************************)
(* fb_select_threshold (03 and 04) is recall-oriented: however the scores  *)
(* tie, a larger beta never raises the threshold.                          *)
(***************************************************************************)
THEOREM LargerBetaAlertsMore == PolicySpec => []BetaMonotone
<1>1. PolicyTypeOK => BetaMonotone
  BY LargerBetaIsLower DEF PolicyTypeOK, Rated, BetaMonotone, Chosen
<1>2. QED
  BY <1>1, PolicyTyping, PTL

(***************************************************************************)
(* expected_alert_value (04, Master) is the expectation of the net value   *)
(* that evaluate_policy pays, for every row, score and resolution.         *)
(***************************************************************************)
THEOREM ExpectedValueIsNetValue == PolicySpec => []EvIsExpectedNbv
<1>1. PolicyTypeOK => EvIsExpectedNbv
  BY ExpectedValueOfOne, RowsAreScored DEF PolicyTypeOK, Rated, EvIsExpectedNbv
<1>2. QED
  BY <1>1, PolicyTyping, PTL

(***************************************************************************)
(* exact_threshold_frontier (Master) has every threshold there is, and     *)
(* cumulates at each what an evaluation at that threshold counts, ties     *)
(* included.                                                               *)
(***************************************************************************)
THEOREM FrontierCumulatesEvaluations == PolicySpec => []FrontierIsEvaluation
<1>1. PolicyTypeOK => FrontierIsEvaluation
  BY FrontierIsExact
<1>2. QED
  BY <1>1, PolicyTyping, PTL
------------------------------------------------------------------------------
\* The best F-beta

LEMMA LowestOf ==
  ASSUME NEW S, S \subseteq Nat, S # {}
  PROVE  Min(S) \in S /\ \A k \in S : Min(S) <= k
<1>1. PICK j \in S : \A k \in S : j <= k
  BY LeastOf
<1>2. \E x \in S : \A y \in S : x <= y
  BY <1>1
<1>3. QED
  BY <1>2, Zenon DEF Min

LEMMA LargerOf ==
  ASSUME NEW x \in Nat, NEW y \in Nat
  PROVE  Max({x, y}) = IF x <= y THEN y ELSE x
<1>1. {x, y} \subseteq 0..(x + y) /\ {x, y} # {} /\ x + y \in Nat
  OBVIOUS
<1>2. Max({x, y}) \in {x, y} /\ \A k \in {x, y} : k <= Max({x, y})
  BY <1>1, HighestOf
<1>3. QED
  BY <1>2

(***************************************************************************)
(* A cutoff that alerts on a row alerts on what the lowest score above it  *)
(* alerts on.                                                              *)
(***************************************************************************)
LEMMA CutoffIsThreshold ==
  ASSUME NEW rows, Rated(rows), NEW t \in Nat, Alerts(rows, t) # {}
  PROVE  \E u \in Thresholds(rows) : u >= t /\ Alerts(rows, u) = Alerts(rows, t)
<1> DEFINE S == {rows[i].score : i \in Alerts(rows, t)}
<1>1. \A i \in DOMAIN rows : rows[i].score \in Nat
  BY RowsAreScored
<1>2. S \in SUBSET Nat /\ S # {}
  BY <1>1 DEF Alerts
<1>3. PICK u \in S : \A s \in S : u <= s
  BY <1>2, LeastOf
<1>4. u \in Thresholds(rows) /\ u >= t /\ u \in Nat
  BY <1>1 DEF Alerts, Thresholds
<1>5. Alerts(rows, u) = Alerts(rows, t)
  <2>1. \A i \in DOMAIN rows : rows[i].score >= t => rows[i].score >= u
    BY <1>1, <1>2, <1>3, <1>4 DEF Alerts
  <2>2. \A i \in DOMAIN rows : rows[i].score >= u => rows[i].score >= t
    BY <1>1, <1>4
  <2>3. QED
    BY <2>1, <2>2 DEF Alerts
<1>6. QED
  BY <1>4, <1>5

(***************************************************************************)
(* The alerts are those on frauds and the false ones.                      *)
(***************************************************************************)
LEMMA AlertsSplit ==
  ASSUME NEW rows, Rated(rows), NEW A \in SUBSET DOMAIN rows
  PROVE  /\ Cardinality(A) \in Nat
         /\ Cardinality(A \cap Fraud(rows)) \in Nat
         /\ Cardinality(A \cap Legit(rows)) \in Nat
         /\ Cardinality(A) = Cardinality(A \cap Fraud(rows)) + Cardinality(A \cap Legit(rows))
         /\ Cardinality(A \cap Fraud(rows)) <= Cardinality(Fraud(rows))
         /\ Cardinality(Fraud(rows)) \in Nat
<1> DEFINE P == A \cap Fraud(rows)
           Q == A \cap Legit(rows)
<1>1. P \cup Q = A /\ P \cap Q = {} /\ Fraud(rows) \in SUBSET DOMAIN rows
  BY DEF Fraud, Legit
<1>2. /\ IsFiniteSet(A) /\ IsFiniteSet(P) /\ IsFiniteSet(Q) /\ IsFiniteSet(Fraud(rows))
      /\ Cardinality(A) \in Nat /\ Cardinality(P) \in Nat /\ Cardinality(Q) \in Nat
      /\ Cardinality(Fraud(rows)) \in Nat
  <2>1. P \in SUBSET DOMAIN rows /\ Q \in SUBSET DOMAIN rows
    OBVIOUS
  <2>2. QED
    BY <1>1, <2>1, AlertsAreFinite
<1>3. Cardinality(A) = Cardinality(P) + Cardinality(Q)
  <2>1. Cardinality(P \cup Q) = Cardinality(P) + Cardinality(Q) - Cardinality(P \cap Q)
    BY <1>2, FS_Union
  <2>2. Cardinality(P \cap Q) = 0
    BY <1>1, FS_EmptySet
  <2>3. Cardinality(P \cup Q) = Cardinality(A)
    BY <1>1
  <2> HIDE DEF P, Q
  <2>4. QED
    BY <1>2, <2>1, <2>2, <2>3
<1>4. Cardinality(P) <= Cardinality(Fraud(rows))
  BY <1>2, FS_Subset
<1>5. QED
  BY <1>2, <1>3, <1>4

(***************************************************************************)
(* fbeta_score, from the confusion matrix, is Score but for a factor.      *)
(***************************************************************************)
LEMMA FbetaIsScore ==
  ASSUME NEW rows, Rated(rows), NEW b \in Betas, NEW t
  PROVE  /\ b * b \in Nat
         /\ fbeta_score(rows, b, t).num = (16 + b * b) * Score(rows, b, t).num
         /\ Score(rows, b, t).num \in Nat /\ Score(rows, b, t).den \in Nat
         /\ fbeta_score(rows, b, t).den
              = IF Score(rows, b, t).den = 0 THEN 1 ELSE Score(rows, b, t).den
<1> DEFINE B == b * b
           p == Positives(rows, t)
           q == FalseAlerts(rows, t)
           a == Cardinality(Alerts(rows, t))
           F == Cardinality(Fraud(rows))
<1>1. B \in Nat
  BY AlertPolicyAssumption, Product
<1>2. p \in Nat /\ q \in Nat /\ a \in Nat /\ F \in Nat /\ a = p + q /\ p <= F
  BY AlertsSplit DEF Positives, FalseAlerts, Alerts
<1>3. /\ fbeta_score(rows, b, t) =
           [num |-> (16 + B) * p, den |-> Max({1, (16 + B) * p + B * (F - p) + 16 * q})]
      /\ Score(rows, b, t) = [num |-> p, den |-> B * F + 16 * a]
  BY DEF fbeta_score, Score
<1> HIDE DEF B, p, q, a, F
<1>4. (16 + B) * p + B * (F - p) + 16 * q = B * F + 16 * a
  BY <1>1, <1>2
<1>5. B * F \in Nat /\ B * F + 16 * a \in Nat
  BY <1>1, <1>2, Product
<1>6. Max({1, B * F + 16 * a}) = IF B * F + 16 * a = 0 THEN 1 ELSE B * F + 16 * a
  BY <1>5, LargerOf
<1>7. /\ fbeta_score(rows, b, t).num = (16 + B) * Score(rows, b, t).num
      /\ Score(rows, b, t).num \in Nat /\ Score(rows, b, t).den \in Nat
      /\ fbeta_score(rows, b, t).den
           = IF Score(rows, b, t).den = 0 THEN 1 ELSE Score(rows, b, t).den
  <2>1. /\ Score(rows, b, t).num = p /\ Score(rows, b, t).den = B * F + 16 * a
        /\ fbeta_score(rows, b, t).num = (16 + B) * p
        /\ fbeta_score(rows, b, t).den = Max({1, B * F + 16 * a})
    BY <1>3, <1>4
  <2>2. QED
    BY <1>2, <1>5, <1>6, <2>1
<1>8. QED
  BY <1>1, <1>7, Zenon DEF B

(***************************************************************************)
(* The best threshold is the best cutoff.                                  *)
(***************************************************************************)
LEMMA BestOverCutoffs ==
  ASSUME NEW rows, Rated(rows), NEW b \in Betas, NEW t \in Tied(rows, b), NEW c \in Nat
  PROVE  AtLeast(fbeta_score(rows, b, t), fbeta_score(rows, b, c))
<1> DEFINE K == 16 + b * b
           x == Score(rows, b, t)
           y == Score(rows, b, c)
           xn == x.num  xd == x.den
           yn == y.num  yd == y.den
<1>1. K \in Nat /\ xn \in Nat /\ xd \in Nat /\ yn \in Nat /\ yd \in Nat
  BY FbetaIsScore
<1>2. xd # 0
  BY ScoresAreFractions DEF Fraction, Tied
<1>3. fbeta_score(rows, b, t).num = K * xn /\ fbeta_score(rows, b, t).den = xd
  BY <1>2, FbetaIsScore
<1>4. /\ fbeta_score(rows, b, c).num = K * yn
      /\ fbeta_score(rows, b, c).den = IF yd = 0 THEN 1 ELSE yd
  BY FbetaIsScore
<1>5. CASE Alerts(rows, c) = {}
  <2>1. yn = 0
    BY <1>5, FS_EmptySet DEF Score, Positives
  <2> DEFINE d == IF yd = 0 THEN 1 ELSE yd
  <2>2. d \in Nat /\ K * xn \in Nat
    BY <1>1, Product
  <2>3. (K * xn) * d \in Nat
    BY <2>2, Product
  <2>4. (K * yn) * xd = 0
    BY <1>1, <2>1
  <2> HIDE DEF d, K, xn, xd, yn, yd
  <2>5. (K * xn) * d >= (K * yn) * xd
    BY <2>3, <2>4
  <2>6. QED
    BY <1>3, <1>4, <2>5 DEF AtLeast, d
<1>6. CASE Alerts(rows, c) # {}
  <2>1. PICK u \in Thresholds(rows) : Alerts(rows, u) = Alerts(rows, c)
    BY <1>6, CutoffIsThreshold
  <2>2. Score(rows, b, u) = y
    BY <2>1 DEF Score, Positives
  <2>3. yd # 0
    BY <2>2, ScoresAreFractions DEF Fraction
  <2>4. yn * xd <= xn * yd
    <3>1. AtLeast(x, y)
      BY <2>2 DEF Tied
    <3>2. xn * yd \in Nat /\ yn * xd \in Nat
      BY <1>1, Product
    <3> HIDE DEF x, y
    <3>3. QED
      BY <3>1, <3>2 DEF AtLeast
  <2> HIDE DEF K, x, y, xn, xd, yn, yd
  <2>5. K * (yn * xd) <= K * (xn * yd)
    BY <1>1, <2>4, LargerFactor, Product
  <2>6. K * (yn * xd) = (K * yn) * xd /\ K * (xn * yd) = (K * xn) * yd
    BY <1>1
  <2>7. (K * xn) * yd >= (K * yn) * xd
    BY <1>1, <2>5, <2>6, Product
  <2>8. QED
    BY <1>3, <1>4, <2>3, <2>7 DEF AtLeast
<1>7. QED
  BY <1>5, <1>6

LEMMA BestThresholds ==
  ASSUME PolicyTypeOK
  PROVE  ThresholdsAreBest
<1>1. SUFFICES ASSUME Chosen, NEW b \in Betas, NEW t \in Cutoffs
      PROVE  /\ AtLeast(fbeta_score(scored, b, fb_select_threshold(scored, b)),
                        fbeta_score(scored, b, t))
             /\ AtLeast(fbeta_score(scored, b, ChosenThreshold(scored, b)),
                        fbeta_score(scored, b, t))
  BY DEF ThresholdsAreBest
<1>2. Rated(scored) /\ scored # <<>> /\ t \in Nat
  BY <1>1, AlertPolicyAssumption DEF PolicyTypeOK, Rated, Chosen, Cutoffs
<1>3. fb_select_threshold(scored, b) \in Tied(scored, b)
  BY <1>2, Selected, Zenon DEF Tied
<1>4. ChosenThreshold(scored, b) \in Tied(scored, b)
  <2>1. Tied(scored, b) \subseteq Nat
    BY <1>2, ThresholdsAreScores DEF Tied
  <2>2. QED
    BY <1>3, <2>1, LowestOf DEF ChosenThreshold
<1>5. QED
  BY <1>2, <1>3, <1>4, BestOverCutoffs
------------------------------------------------------------------------------
\* SubSums of amounts

One(s) == CHOOSE x \in s : TRUE

\* g gives the sum of f over each subset of S, as SumFunction computes it
SubSumsOf(f, S, g) ==
  g = [s \in SUBSET S |-> IF s = {} THEN 0 ELSE f[One(s)] + g[s \ {One(s)}]]

SubSums(f, S) == CHOOSE g : SubSumsOf(f, S, g)
SumOver(f, S) == SubSums(f, S)[S]

LEMMA OneLess ==
  ASSUME NEW S, IsFiniteSet(S), NEW s \in SUBSET S, s # {}
  PROVE  /\ One(s) \in s /\ One(s) \in S /\ s \ {One(s)} \in SUBSET S
         /\ Cardinality(s) \in Nat \ {0}
         /\ Cardinality(s \ {One(s)}) = Cardinality(s) - 1
<1>1. One(s) \in s
  BY Zenon DEF One
<1>2. IsFiniteSet(s)
  BY FS_Subset
<1>3. /\ Cardinality(s) \in Nat /\ Cardinality(s) # 0
      /\ Cardinality(s \ {One(s)}) = Cardinality(s) - 1
  BY <1>1, <1>2, FS_CardinalityType, FS_EmptySet, FS_RemoveElement
<1> QED BY <1>1, <1>3

LEMMA SumsExist ==
  ASSUME NEW S, IsFiniteSet(S), NEW f, \A x \in S : f[x] \in Nat
  PROVE  \E g : SubSumsOf(f, S, g) /\ g \in [SUBSET S -> Nat]
<1> DEFINE Upto(k, g) ==
      /\ g \in [SUBSET S -> Nat]
      /\ \A s \in SUBSET S : Cardinality(s) <= k =>
           g[s] = IF s = {} THEN 0 ELSE f[One(s)] + g[s \ {One(s)}]
           N == {k \in Nat : ~ \E g : Upto(k, g)}
<1>1. \A s \in SUBSET S : /\ Cardinality(s) \in Nat /\ Cardinality(s) <= Cardinality(S)
                          /\ (Cardinality(s) = 0 <=> s = {})
  BY FS_Subset, FS_CardinalityType, FS_EmptySet
<1>2. ASSUME N # {} PROVE FALSE
  <2>1. PICK k \in N : \A m \in N : k <= m
    BY <1>2, LeastOf
  <2>2. CASE k = 0
    <3>1. Upto(0, [s \in SUBSET S |-> 0])
      BY <1>1
    <3> QED BY <2>1, <2>2, <3>1
  <2>3. CASE k # 0
    <3>1. k - 1 \in Nat /\ k - 1 \notin N
      <4> HIDE DEF Upto
      <4>1. k \in Nat
        BY <2>1
      <4>2. k - 1 \in Nat /\ ~(k <= k - 1)
        BY <2>3, <4>1
      <4> HIDE DEF N
      <4> QED BY <2>1, <4>2
    <3>2. PICK g : Upto(k - 1, g)
      BY <3>1
    <3> DEFINE h == [s \in SUBSET S |->
           IF Cardinality(s) = k /\ s # {} THEN f[One(s)] + g[s \ {One(s)}] ELSE g[s]]
    <3>3. ASSUME NEW s \in SUBSET S, s # {}
          PROVE  /\ s \ {One(s)} \in SUBSET S /\ f[One(s)] \in Nat
                 /\ Cardinality(s \ {One(s)}) = Cardinality(s) - 1
      BY <3>3, OneLess
    <3>4. h \in [SUBSET S -> Nat]
      BY <3>2, <3>3
    <3>5. ASSUME NEW s \in SUBSET S, Cardinality(s) <= k
          PROVE  h[s] = IF s = {} THEN 0 ELSE f[One(s)] + h[s \ {One(s)}]
      <4>1. CASE s = {}
        <5>1. h[s] = g[s] /\ Cardinality(s) <= k - 1
          BY <1>1, <2>3, <3>1, <4>1
        <5> QED BY <3>2, <4>1, <5>1
      <4>2. CASE s # {} /\ Cardinality(s) = k
        <5>1. h[s \ {One(s)}] = g[s \ {One(s)}]
          BY <3>3, <4>2, <2>1
        <5> HIDE DEF Upto
        <5> QED BY <4>2, <5>1
      <4>3. CASE s # {} /\ Cardinality(s) # k
        <5>1. Cardinality(s) <= k - 1 /\ Cardinality(s) \in Nat
          BY <1>1, <2>1, <3>5, <4>3
        <5>2. h[s] = g[s] /\ h[s \ {One(s)}] = g[s \ {One(s)}]
          BY <2>1, <3>3, <4>3, <5>1
        <5>3. g[s] = f[One(s)] + g[s \ {One(s)}]
          BY <3>2, <4>3, <5>1
        <5> QED BY <4>3, <5>2, <5>3
      <4> QED BY <4>1, <4>2, <4>3
    <3>6. Upto(k, h)
      BY <3>4, <3>5
    <3> QED BY <2>1, <3>6
  <2> QED BY <2>2, <2>3
<1>3. Cardinality(S) \in Nat
  BY <1>1
<1>4. PICK g : Upto(Cardinality(S), g)
  BY <1>2, <1>3
<1>5. g \in [SUBSET S -> Nat] /\ \A s \in SUBSET S :
        g[s] = IF s = {} THEN 0 ELSE f[One(s)] + g[s \ {One(s)}]
  BY <1>1, <1>4
<1>6. SubSumsOf(f, S, g)
  BY <1>5 DEF SubSumsOf
<1> QED BY <1>5, <1>6

\* the equation SumFunction satisfies, and its type
LEMMA SumsEquation ==
  ASSUME NEW S, IsFiniteSet(S), NEW f, \A x \in S : f[x] \in Nat
  PROVE  /\ SubSums(f, S) \in [SUBSET S -> Nat]
         /\ \A s \in SUBSET S :
              SubSums(f, S)[s] = IF s = {} THEN 0 ELSE f[One(s)] + SubSums(f, S)[s \ {One(s)}]
<1> DEFINE g == SubSums(f, S)
<1>1. SubSumsOf(f, S, g)
  <2>1. \E h : SubSumsOf(f, S, h)
    BY SumsExist
  <2> QED BY <2>1, Zenon DEF SubSums
<1> HIDE DEF g
<1>2. /\ g = [s \in SUBSET S |-> g[s]]
      /\ \A s \in SUBSET S :
           g[s] = IF s = {} THEN 0 ELSE f[One(s)] + g[s \ {One(s)}]
  BY <1>1, Zenon DEF SubSumsOf
<1> DEFINE N == {k \in Nat : \E s \in SUBSET S : Cardinality(s) = k /\ g[s] \notin Nat}
<1>3. ASSUME N # {} PROVE FALSE
  <2>1. PICK k \in N : \A m \in N : k <= m
    BY <1>3, LeastOf
  <2>2. PICK s \in SUBSET S : Cardinality(s) = k /\ g[s] \notin Nat
    BY <2>1
  <2>3. s # {}
    <3>1. g[{}] = 0 /\ 0 \in Nat
      BY <1>2
    <3> QED BY <2>2, <3>1
  <2>4. /\ One(s) \in S /\ s \ {One(s)} \in SUBSET S
        /\ k \in Nat \ {0} /\ Cardinality(s \ {One(s)}) = k - 1
    BY <2>2, <2>3, OneLess
  <2>5. k - 1 \in Nat /\ k - 1 \notin N
    BY <2>1, <2>4
  <2>6. g[s \ {One(s)}] \in Nat
    BY <2>4, <2>5
  <2>7. g[s] = f[One(s)] + g[s \ {One(s)}]
    BY <1>2, <2>3
  <2> QED BY <2>2, <2>4, <2>6, <2>7
<1>4. \A s \in SUBSET S : g[s] \in Nat
  <2>1. \A s \in SUBSET S : Cardinality(s) \in Nat
    BY FS_Subset, FS_CardinalityType
  <2> QED BY <1>3, <2>1
<1> QED BY <1>2, <1>4 DEF g

(***************************************************************************)
(* Sum5 of some rows is the entry of one function, the sums over all sets  *)
(* of rows: whatever the set, CHOOSE takes its elements in the same order. *)
(***************************************************************************)
Amounts5(rows) == [i \in DOMAIN rows |-> 5 * rows[i].amount]

LEMMA AmountsAreNat ==
  ASSUME NEW rows, Rated(rows)
  PROVE  \A i \in DOMAIN rows : /\ rows[i].amount \in Nat
                                /\ 5 * rows[i].amount \in Nat
                                /\ Amounts5(rows)[i] = 5 * rows[i].amount
<1>1. \A i \in DOMAIN rows : rows[i].amount \in Nat
  BY RowsAreScored, OneRow
<1>2. QED
  BY <1>1 DEF Amounts5

LEMMA SumsAgree ==
  ASSUME NEW S, IsFiniteSet(S), NEW f, \A x \in S : f[x] \in Nat,
         NEW T \in SUBSET S, NEW g, \A x \in T : g[x] = f[x]
  PROVE  SumOver(g, T) = SubSums(f, S)[T]
<1> DEFINE F == SubSums(f, S)
           G == SubSums(g, T)
<1>1. IsFiniteSet(T) /\ \A x \in T : g[x] \in Nat
  BY FS_Subset
<1>2. /\ F \in [SUBSET S -> Nat]
      /\ \A s \in SUBSET S : F[s] = IF s = {} THEN 0 ELSE f[One(s)] + F[s \ {One(s)}]
  BY SumsEquation
<1>3. /\ G \in [SUBSET T -> Nat]
      /\ \A s \in SUBSET T : G[s] = IF s = {} THEN 0 ELSE g[One(s)] + G[s \ {One(s)}]
  BY <1>1, SumsEquation
<1> HIDE DEF F, G
<1> DEFINE N == {k \in Nat : \E s \in SUBSET T : Cardinality(s) = k /\ G[s] # F[s]}
<1>4. ASSUME N # {} PROVE FALSE
  <2>1. PICK k \in N : \A m \in N : k <= m
    BY <1>4, LeastOf
  <2>2. PICK s \in SUBSET T : Cardinality(s) = k /\ G[s] # F[s]
    BY <2>1
  <2>3. s # {} /\ s \in SUBSET S
    BY <1>2, <1>3, <2>2
  <2> DEFINE x == One(s)
             r == s \ {x}
  <2>4. /\ x \in T /\ r \in SUBSET T
        /\ k \in Nat \ {0} /\ Cardinality(r) = k - 1
    BY <1>1, <2>2, <2>3, OneLess
  <2>5. k - 1 \in Nat /\ k - 1 \notin N
    BY <2>1, <2>4
  <2>6. G[r] = F[r]
    BY <2>4, <2>5
  <2>7. G[s] = g[x] + G[r] /\ F[s] = f[x] + F[r]
    BY <1>2, <1>3, <2>3
  <2> HIDE DEF x, r
  <2> QED BY <2>2, <2>4, <2>6, <2>7
<1>5. G[T] = F[T]
  <2>1. Cardinality(T) \in Nat
    BY <1>1, FS_CardinalityType
  <2> QED BY <1>4, <2>1
<1> QED BY <1>5 DEF SumOver, F, G

LEMMA SumFunctionIsSum ==
  ASSUME NEW S, NEW f, DOMAIN f = S
  PROVE  SumFunction(f) = SumOver(f, S)
<1>1. SumFunction(f) = SumFunctionOnSet(f, S)
  BY Zenon DEF SumFunction, SumFunctionOnSet
<1>2. QED
  BY <1>1, Zenon DEF SumFunctionOnSet, FoldFunctionOnSet, MapThenFoldSet, SumOver, SubSums, SubSumsOf, One

LEMMA Sum5Agrees ==
  ASSUME NEW rows, Rated(rows), NEW S \in SUBSET DOMAIN rows
  PROVE  Sum5(rows, S) = SubSums(Amounts5(rows), DOMAIN rows)[S]
<1> DEFINE g == [i \in S |-> 5 * rows[i].amount]
<1>1. Sum5(rows, S) = SumOver(g, S)
  BY SumFunctionIsSum DEF Sum5
<1>2. \A i \in DOMAIN rows : Amounts5(rows)[i] \in Nat
  BY AmountsAreNat
<1>3. \A i \in S : g[i] = Amounts5(rows)[i]
  BY AmountsAreNat
<1> HIDE DEF g
<1>4. QED
  BY <1>1, <1>2, <1>3, SumsAgree, AlertsAreFinite

(***************************************************************************)
(* A sum is that without any one of its rows, and the row's amount.        *)
(***************************************************************************)
LEMMA SumWithout ==
  ASSUME NEW S, IsFiniteSet(S), NEW f, \A x \in S : f[x] \in Nat,
         NEW T \in SUBSET S, NEW y \in T
  PROVE  SubSums(f, S)[T] = f[y] + SubSums(f, S)[T \ {y}]
<1> DEFINE F == SubSums(f, S)
<1>1. /\ F \in [SUBSET S -> Nat]
      /\ \A s \in SUBSET S : F[s] = IF s = {} THEN 0 ELSE f[One(s)] + F[s \ {One(s)}]
  BY SumsEquation
<1> HIDE DEF F
<1> DEFINE Splits(s) == \A z \in s : F[s] = f[z] + F[s \ {z}]
           N == {k \in Nat : \E s \in SUBSET S : Cardinality(s) = k /\ ~Splits(s)}
<1>2. ASSUME N # {} PROVE FALSE
  <2>1. PICK k \in N : \A m \in N : k <= m
    BY <1>2, LeastOf
  <2>2. PICK s \in SUBSET S : Cardinality(s) = k /\ ~Splits(s)
    BY <2>1
  <2>3. PICK z \in s : F[s] # f[z] + F[s \ {z}]
    BY <2>2
  <2> DEFINE x == One(s)
             r == s \ {x}
             q == s \ {z}
             w == r \ {z}
  <2>4. /\ x \in s /\ x \in S /\ r \in SUBSET S
        /\ k \in Nat \ {0} /\ Cardinality(r) = k - 1
    BY <2>2, <2>3, OneLess
  <2>5. q \in SUBSET S /\ Cardinality(q) = k - 1
    BY <2>2, <2>3, FS_Subset, FS_RemoveElement
  <2>6. k - 1 \in Nat /\ k - 1 \notin N
    BY <2>1, <2>4
  <2>7. Splits(r) /\ Splits(q)
    BY <2>4, <2>5, <2>6
  <2>8. F[s] = f[x] + F[r]
    BY <1>1, <2>3
  <2>9. z # x /\ z \in r /\ x \in q
    BY <2>3, <2>4, <2>8
  <2>10. q \ {x} = w /\ w \in SUBSET S
    BY <2>4
  <2>11. F[r] = f[z] + F[w] /\ F[q] = f[x] + F[w]
    BY <2>7, <2>9, <2>10
  <2>12. f[x] \in Nat /\ f[z] \in Nat /\ F[w] \in Nat
    BY <1>1, <2>2, <2>3, <2>4, <2>10
  <2> HIDE DEF x, r, q, w
  <2>13. F[s] = f[z] + F[q]
    BY <2>8, <2>11, <2>12
  <2> QED BY <2>3, <2>13 DEF q
<1>3. Splits(T)
  <2>1. Cardinality(T) \in Nat
    BY FS_Subset, FS_CardinalityType
  <2> QED BY <1>2, <2>1
<1> QED BY <1>3 DEF F

LEMMA Sum5Splits ==
  ASSUME NEW rows, Rated(rows), NEW S \in SUBSET DOMAIN rows
  PROVE  /\ Sum5(rows, S) \in Nat
         /\ S = {} => Sum5(rows, S) = 0
         /\ \A y \in S : Sum5(rows, S) = 5 * rows[y].amount + Sum5(rows, S \ {y})
<1> DEFINE D == DOMAIN rows
           f == Amounts5(rows)
<1>1. IsFiniteSet(D) /\ \A i \in D : f[i] \in Nat
  BY AlertsAreFinite, AmountsAreNat
<1>2. /\ SubSums(f, D) \in [SUBSET D -> Nat]
      /\ \A s \in SUBSET D : SubSums(f, D)[s] =
           IF s = {} THEN 0 ELSE f[One(s)] + SubSums(f, D)[s \ {One(s)}]
  BY <1>1, SumsEquation
<1>3. Sum5(rows, S) = SubSums(f, D)[S]
  BY Sum5Agrees
<1>4. ASSUME NEW y \in S
      PROVE  Sum5(rows, S) = 5 * rows[y].amount + Sum5(rows, S \ {y})
  <2>1. SubSums(f, D)[S] = f[y] + SubSums(f, D)[S \ {y}]
    <3> HIDE DEF D, f
    <3>1. S \in SUBSET D
      BY DEF D
    <3> QED BY <1>1, <3>1, SumWithout
  <2>2. S \ {y} \in SUBSET DOMAIN rows
    OBVIOUS
  <2>3. Sum5(rows, S \ {y}) = SubSums(f, D)[S \ {y}]
    BY <2>2, Sum5Agrees
  <2>4. f[y] = 5 * rows[y].amount
    BY AmountsAreNat
  <2> HIDE DEF D, f
  <2> QED BY <1>3, <2>1, <2>3, <2>4
<1>5. Sum5(rows, S) \in Nat /\ (S = {} => Sum5(rows, S) = 0)
  <2> HIDE DEF f
  <2> QED BY <1>2, <1>3
<1> QED BY <1>4, <1>5

(***************************************************************************)
(* More rows are worth more, if none is worth less than it costs.          *)
(***************************************************************************)
LEMMA MoreIsWorthMore ==
  ASSUME NEW rows, Rated(rows), NEW S \in SUBSET DOMAIN rows, NEW T \in SUBSET S,
         NEW c \in Nat, \A i \in S : c <= 5 * rows[i].amount
  PROVE  Sum5(rows, T) - c * Cardinality(T) <= Sum5(rows, S) - c * Cardinality(S)
<1> DEFINE Worth(s) == Sum5(rows, s) - c * Cardinality(s)
           N == {k \in Nat : \E s \in SUBSET S : Cardinality(S \ s) = k /\ ~(Worth(s) <= Worth(S))}
<1>1. \A s \in SUBSET S : /\ IsFiniteSet(s) /\ Cardinality(s) \in Nat
                          /\ IsFiniteSet(S \ s) /\ Cardinality(S \ s) \in Nat
                          /\ Sum5(rows, s) \in Nat
  BY AlertsAreFinite, Sum5Splits
<1>2. \A s \in SUBSET S : c * Cardinality(s) \in Nat
  BY <1>1, Product
<1>0. ASSUME NEW s \in SUBSET S PROVE Worth(s) \in Int
  <2>1. Sum5(rows, s) \in Nat /\ c * Cardinality(s) \in Nat
    BY <1>1, <1>2
  <2> QED BY <2>1
<1>3. ASSUME N # {} PROVE FALSE
  <2>1. PICK k \in N : \A m \in N : k <= m
    BY <1>3, LeastOf
  <2>2. PICK s \in SUBSET S : Cardinality(S \ s) = k /\ ~(Worth(s) <= Worth(S))
    BY <2>1
  <2>3. s # S
    <3>1. Worth(S) \in Int
      <4>1. S \in SUBSET S
        OBVIOUS
      <4> QED BY <1>0, <4>1
    <3> HIDE DEF Worth
    <3> QED BY <2>2, <3>1
  <2>4. PICK y \in S : y \notin s
    BY <2>3
  <2> DEFINE r == s \cup {y}
  <2>5. r \in SUBSET S /\ r \ {y} = s /\ y \in r /\ S \ r = (S \ s) \ {y}
    BY <2>4
  <2>6. Cardinality(S \ r) = k - 1 /\ k \in Nat /\ k # 0
    <3>1. Cardinality((S \ s) \ {y}) = Cardinality(S \ s) - 1 /\ y \in S \ s
      BY <1>1, <2>4, FS_RemoveElement
    <3>2. Cardinality(S \ s) # 0
      BY <1>1, <3>1, FS_EmptySet
    <3> QED BY <1>1, <2>2, <2>5, <3>1, <3>2
  <2>7. k - 1 \in Nat /\ k - 1 \notin N
    <3>1. k - 1 \in Nat /\ ~(k <= k - 1)
      BY <2>6
    <3> HIDE DEF N
    <3> QED BY <2>1, <3>1
  <2>8. Worth(r) <= Worth(S)
    BY <2>5, <2>6, <2>7
  <2>9. Cardinality(r) = Cardinality(s) + 1
    BY <1>1, <2>4, FS_AddElement
  <2>10. Sum5(rows, r) = 5 * rows[y].amount + Sum5(rows, s)
    BY <2>5, Sum5Splits
  <2>11. Worth(s) <= Worth(r)
    <3> DEFINE n == Cardinality(s)
               m == Cardinality(r)
               v == 5 * rows[y].amount
    <3>1. n \in Nat /\ m = n + 1 /\ v \in Nat /\ c <= v
      BY <1>1, <2>9, AmountsAreNat
    <3>2. Sum5(rows, s) \in Nat /\ Sum5(rows, r) = v + Sum5(rows, s)
      BY <1>1, <2>10
    <3> HIDE DEF n, m, v
    <3>3. c * m = c * n + c /\ c * n \in Nat
      BY <3>1
    <3>4. Sum5(rows, s) - c * n <= Sum5(rows, r) - c * m
      BY <3>1, <3>2, <3>3
    <3> QED BY <3>4 DEF n, m
  <2>12. Worth(s) \in Int /\ Worth(r) \in Int /\ Worth(S) \in Int
    <3>1. s \in SUBSET S /\ S \in SUBSET S
      BY <2>2
    <3> HIDE DEF Worth
    <3> QED BY <1>0, <2>5, <3>1
  <2> HIDE DEF Worth
  <2> QED BY <2>2, <2>8, <2>11, <2>12
<1>4. Worth(T) <= Worth(S)
  <2> HIDE DEF Worth
  <2> QED BY <1>1, <1>3
<1> QED BY <1>4

LEMMA MoreIsCaptured ==
  ASSUME NEW rows, Rated(rows), NEW S \in SUBSET DOMAIN rows, NEW T \in SUBSET S
  PROVE  Sum5(rows, T) <= Sum5(rows, S)
<1>1. \A i \in S : 0 <= 5 * rows[i].amount
  BY AmountsAreNat
<1>2. /\ Sum5(rows, T) \in Nat /\ Sum5(rows, S) \in Nat
      /\ Cardinality(T) \in Nat /\ Cardinality(S) \in Nat
  BY Sum5Splits, AlertsAreFinite
<1>3. Sum5(rows, T) - 0 * Cardinality(T) <= Sum5(rows, S) - 0 * Cardinality(S)
  BY <1>1, MoreIsWorthMore
<1> QED BY <1>2, <1>3

(***************************************************************************)
(* No alerts are worth more than those on all frauds.                      *)
(***************************************************************************)
LEMMA OracleBest ==
  ASSUME PolicyTypeOK
  PROVE  OracleIsBest
<1>1. SUFFICES ASSUME \A i \in Fraud(scored) : scored[i].amount >= 5, NEW t \in Cutoffs
               PROVE  NetValue(scored, Alerts(scored, t)) <= OracleValue(scored)
  BY DEF OracleIsBest
<1> DEFINE A == Alerts(scored, t)
           F == Fraud(scored)
           P == A \cap F
           Q == A \cap Legit(scored)
<1>2. Rated(scored)
  BY DEF PolicyTypeOK, Rated
<1>3. /\ A \in SUBSET DOMAIN scored /\ F \in SUBSET DOMAIN scored
      /\ P \in SUBSET DOMAIN scored /\ Q \in SUBSET DOMAIN scored
  BY DEF Alerts, Fraud
<1>4. /\ Cardinality(A) \in Nat /\ Cardinality(P) \in Nat /\ Cardinality(F) \in Nat
      /\ Cardinality(P) <= Cardinality(A)
  <2>1. /\ Cardinality(A) \in Nat /\ Cardinality(P) \in Nat /\ Cardinality(Q) \in Nat
        /\ Cardinality(A) = Cardinality(P) + Cardinality(Q)
        /\ Cardinality(F) \in Nat
    BY <1>2, <1>3, AlertsSplit
  <2> HIDE DEF A, P, Q, F
  <2> QED BY <2>1
<1>5. Sum5(scored, P) \in Nat /\ Sum5(scored, Q) \in Nat /\ Sum5(scored, F) \in Nat
  BY <1>2, <1>3, Sum5Splits
<1>6. \A i \in F : 25 <= 5 * scored[i].amount
  <2>1. \A i \in F : scored[i].amount \in Nat /\ scored[i].amount >= 5
    BY <1>1, <1>2, <1>3, AmountsAreNat
  <2> QED BY <2>1
<1>7. Sum5(scored, P) - 25 * Cardinality(P) <= Sum5(scored, F) - 25 * Cardinality(F)
  <2>1. P \in SUBSET F /\ 25 \in Nat
    OBVIOUS
  <2> HIDE DEF P, F
  <2> QED BY <1>2, <1>3, <1>6, <2>1, MoreIsWorthMore
<1>8. /\ NetValue(scored, A) = Sum5(scored, P) - Sum5(scored, Q) \div 5 - 25 * Cardinality(A)
      /\ OracleValue(scored) = Sum5(scored, F) - 25 * Cardinality(F)
  BY DEF NetValue, OracleValue
<1> HIDE DEF A, F, P, Q
<1>9. Sum5(scored, Q) \div 5 >= 0 /\ Sum5(scored, Q) \div 5 \in Int
  BY <1>5
<1>10. NetValue(scored, A) <= OracleValue(scored)
  BY <1>4, <1>5, <1>7, <1>8, <1>9
<1> QED BY <1>10 DEF A
------------------------------------------------------------------------------
\* The search for net value

(***************************************************************************)
(* Finitely many numbers have a largest one.                               *)
(***************************************************************************)
LEMMA LargestExists ==
  ASSUME NEW n \in Nat, NEW T \in SUBSET (0..n), T # {}, NEW f, \A t \in T : f[t] \in Int
  PROVE  \E t \in T : \A u \in T : f[u] <= f[t]
<1> DEFINE HasLargest(S) == \E t \in S : \A u \in S : f[u] <= f[t]
           N == {k \in Nat : \E S \in SUBSET T : S # {} /\ S \subseteq 0..k /\ ~HasLargest(S)}
<1>1. ASSUME N # {} PROVE FALSE
  <2>1. PICK k \in N : \A m \in N : k <= m
    BY <1>1, LeastOf
  <2>2. PICK S \in SUBSET T : S # {} /\ S \subseteq 0..k /\ ~HasLargest(S)
    BY <2>1
  <2>3. CASE S \ {k} = {}
    <3>1. S = {k} /\ f[k] \in Int
      BY <2>2, <2>3
    <3> QED BY <2>2, <3>1
  <2>4. CASE S \ {k} # {}
    <3> DEFINE R == S \ {k}
    <3>1. R \subseteq 0..(k - 1) /\ R # {} /\ R \in SUBSET T /\ k # 0
      <4>1. k \in Nat /\ R # {} /\ R \in SUBSET T
        BY <2>1, <2>2, <2>4
      <4>2. \A x \in R : x \in 0..k /\ x # k
        BY <2>2
      <4> HIDE DEF R, N
      <4>3. \A x \in R : x \in 0..(k - 1)
        BY <4>1, <4>2
      <4>4. PICK x \in R : x \in 0..(k - 1)
        BY <4>1, <4>3
      <4>5. k # 0
        BY <4>1, <4>4
      <4>6. R \subseteq 0..(k - 1)
        BY <4>3
      <4> QED BY <4>1, <4>5, <4>6
    <3>2. k - 1 \in Nat /\ ~(k <= k - 1)
      BY <2>1, <3>1
    <3>3. HasLargest(R)
      <4> HIDE DEF HasLargest, R
      <4> QED BY <2>1, <3>1, <3>2
    <3>4. PICK r \in R : \A u \in R : f[u] <= f[r]
      BY <3>3
    <3>5. \A u \in S : f[u] \in Int /\ (u \in R \/ u = k)
      BY <2>2
    <3>6. r \in S /\ f[r] \in Int
      BY <3>4, <3>5
    <3>7. CASE k \in S /\ f[r] <= f[k]
      <4>1. \A u \in S : f[u] <= f[k]
        BY <3>4, <3>5, <3>6, <3>7
      <4> QED BY <2>2, <3>7, <4>1
    <3>8. CASE ~(k \in S /\ f[r] <= f[k])
      <4>1. \A u \in S : f[u] <= f[r]
        BY <3>4, <3>5, <3>6, <3>8
      <4> QED BY <2>2, <3>6, <4>1
    <3> QED BY <3>7, <3>8
  <2> QED BY <2>3, <2>4
<1>2. HasLargest(T)
  <2> HIDE DEF HasLargest
  <2> QED BY <1>1
<1> QED BY <1>2

LEMMA NetValueIsInt ==
  ASSUME NEW rows, Rated(rows), NEW t
  PROVE  NetValue(rows, Alerts(rows, t)) \in Int
<1> DEFINE A == Alerts(rows, t)
           P == A \cap Fraud(rows)
           Q == A \cap Legit(rows)
<1>1. A \in SUBSET DOMAIN rows /\ P \in SUBSET DOMAIN rows /\ Q \in SUBSET DOMAIN rows
  BY DEF Alerts
<1>2. Sum5(rows, P) \in Nat /\ Sum5(rows, Q) \in Nat /\ Cardinality(A) \in Nat
  BY <1>1, Sum5Splits, AlertsAreFinite
<1>3. NetValue(rows, A) = Sum5(rows, P) - Sum5(rows, Q) \div 5 - 25 * Cardinality(A)
  BY DEF NetValue
<1> HIDE DEF A, P, Q
<1>4. Sum5(rows, Q) \div 5 \in Int
  BY <1>2
<1>5. NetValue(rows, A) \in Int
  BY <1>2, <1>3, <1>4
<1> QED BY <1>5 DEF A

(***************************************************************************)
(* With fewer than two strides' worth of thresholds all are tried.         *)
(***************************************************************************)
LEMMA AllAreTried ==
  ASSUME NEW rows, Rated(rows), Cardinality(Thresholds(rows)) < 2 * Points
  PROVE  Tried(rows) = Thresholds(rows)
<1> DEFINE n == Cardinality(Thresholds(rows))
<1>1. n \in Nat /\ Points \in Nat \ {0}
  BY ThresholdsAreScores, FS_CardinalityType, AlertPolicyAssumption
<1>2. n \div Points \in Nat /\ n \div Points <= 1
  <2> HIDE DEF n
  <2> DEFINE q == n \div Points
             r == n % Points
  <2>1. q \in Int /\ r \in 0..(Points - 1) /\ n = Points * q + r
    BY <1>1
  <2>2. Points * q <= n /\ n < Points * q + Points
    BY <1>1, <2>1
  <2> HIDE DEF q, r
  <2>3. q >= 0
    <3>1. SUFFICES ASSUME q <= -1 PROVE FALSE
      BY <2>1
    <3>2. Points * q <= Points * (-1)
      BY <1>1, <2>1, <3>1
    <3> QED BY <1>1, <2>1, <2>2, <3>2
  <2>4. q <= 1
    <3>1. SUFFICES ASSUME q >= 2 PROVE FALSE
      BY <2>1
    <3>2. Points * q >= Points * 2
      BY <1>1, <2>1, <3>1
    <3> QED BY <1>1, <2>1, <2>2, <3>2 DEF n
  <2> QED BY <2>1, <2>3, <2>4 DEF q
<1>3. Stride(rows) = 1
  <2>1. 1 \in Nat /\ n \div Points \in Nat
    BY <1>2
  <2>2. Max({1, n \div Points}) = 1
    BY <1>2, <2>1, LargerOf
  <2> QED BY <2>2 DEF Stride
<1>4. ASSUME NEW t PROVE Cardinality({u \in Thresholds(rows) : u > t}) % 1 = 0
  <2>1. Cardinality({u \in Thresholds(rows) : u > t}) \in Nat
    BY ThresholdsAreScores, FS_Subset, FS_CardinalityType
  <2> QED BY <2>1
<1> QED BY <1>3, <1>4 DEF Tried

LEMMA NetValueBest ==
  ASSUME PolicyTypeOK
  PROVE  NetValueRuleIsBest
<1> DEFINE Value(t) == NetValue(scored, Alerts(scored, t))
           Tops == {t \in Thresholds(scored) :
                      \A u \in Thresholds(scored) : Value(u) <= Value(t)}
<1>1. SUFFICES ASSUME Chosen, Cardinality(Thresholds(scored)) < 2 * Points,
                      NEW t \in Cutoffs, Alerts(scored, t) # {}
               PROVE  Value(t) <= Value(NetValueThreshold(scored))
  BY DEF NetValueRuleIsBest
<1>2. Rated(scored) /\ scored # <<>> /\ t \in Nat /\ Unit \in Nat
  BY <1>1, AlertPolicyAssumption DEF PolicyTypeOK, Rated, Chosen, Cutoffs
<1>3. Thresholds(scored) \subseteq 0..Unit /\ Thresholds(scored) # {}
  BY <1>2, ThresholdsAreScores
<1>4. NetValueThreshold(scored) = Max(Tops)
  <2>1. Tried(scored) = Thresholds(scored)
    BY <1>1, <1>2, AllAreTried
  <2> QED BY <2>1, Zenon DEF NetValueThreshold
<1>5. Tops # {}
  <2> DEFINE f == [u \in Thresholds(scored) |-> Value(u)]
  <2>1. \A u \in Thresholds(scored) : f[u] \in Int /\ f[u] = Value(u)
    BY <1>2, NetValueIsInt
  <2> HIDE DEF f, Value
  <2>2. \E v \in Thresholds(scored) : \A u \in Thresholds(scored) : f[u] <= f[v]
    BY <1>2, <1>3, <2>1, LargestExists
  <2> QED BY <2>1, <2>2
<1>6. Max(Tops) \in Tops
  <2>1. Tops \subseteq 0..Unit
    BY <1>3
  <2> HIDE DEF Tops
  <2> QED BY <1>2, <1>5, <2>1, HighestOf
<1>7. PICK u \in Thresholds(scored) : Alerts(scored, u) = Alerts(scored, t)
  BY <1>1, <1>2, CutoffIsThreshold
<1>8. Value(t) = Value(u)
  BY <1>7
<1> HIDE DEF Value
<1> QED BY <1>4, <1>6, <1>7, <1>8
------------------------------------------------------------------------------
\* The FPR budget

(***************************************************************************)
(* The grid's lowest threshold within the budget captures what the best    *)
(* point of the frontier does.  A budget of every legitimate row is none,  *)
(* hence a cutoff within the budget is not the score 0.                    *)
(***************************************************************************)
Captured(rows, t) == Sum5(rows, Alerts(rows, t) \cap Fraud(rows))

LEMMA LowerCapturesMore ==
  ASSUME NEW rows, Rated(rows), NEW t \in Nat, NEW u \in Nat, t <= u
  PROVE  Captured(rows, u) <= Captured(rows, t)
<1>1. \A i \in DOMAIN rows : rows[i].score \in Nat
  BY RowsAreScored
<1> DEFINE S == Alerts(rows, t) \cap Fraud(rows)
           T == Alerts(rows, u) \cap Fraud(rows)
<1>2. S \in SUBSET DOMAIN rows /\ T \in SUBSET S
  BY <1>1 DEF Alerts
<1> HIDE DEF S, T
<1>3. Sum5(rows, T) <= Sum5(rows, S)
  BY <1>2, MoreIsCaptured
<1> QED BY <1>3 DEF S, T, Captured

LEMMA WithinBudgetIsPositive ==
  ASSUME NEW rows, Rated(rows), Legit(rows) # {}, InBudget(rows, FalseAlerts(rows, 0))
  PROVE  FALSE
<1> DEFINE n == Cardinality(Legit(rows))
<1>1. Alerts(rows, 0) \cap Legit(rows) = Legit(rows)
  <2>1. \A i \in DOMAIN rows : rows[i].score \in Nat
    BY RowsAreScored
  <2> QED BY <2>1 DEF Alerts, Legit
<1>2. n \in Nat \ {0}
  <2>1. Legit(rows) \in SUBSET DOMAIN rows
    BY DEF Legit
  <2>2. IsFiniteSet(Legit(rows)) /\ n \in Nat
    BY <2>1, AlertsAreFinite
  <2> QED BY <2>2, FS_EmptySet
<1>3. Budget \in Nat /\ Budget >= 2
  BY AlertPolicyAssumption
<1>4. Max({n, 1}) = n
  BY <1>2, LargerOf
<1>5. Budget * n <= n
  BY <1>1, <1>4 DEF InBudget, FalseAlerts
<1> HIDE DEF n
<1>6. 2 * n <= Budget * n
  BY <1>2, <1>3
<1> QED BY <1>2, <1>3, <1>5, <1>6

LEMMA FprAgree ==
  ASSUME PolicyTypeOK
  PROVE  FprRulesAgree
<1> DEFINE m == Min(fpr1pct_candidates(scored))
           sub == BudgetPoints(scored)
<1>1. SUFFICES ASSUME fpr1pct_candidates(scored) # {}, sub # {}, Legit(scored) # {},
                      NEW t \in BudgetThresholds(scored)
               PROVE  Captured(scored, t) = Captured(scored, m)
  BY DEF FprRulesAgree, Captured
<1>2. Rated(scored) /\ Unit \in Nat
  BY AlertPolicyAssumption DEF PolicyTypeOK, Rated
<1>3. /\ m \in fpr1pct_candidates(scored) /\ m \in Nat
      /\ \A k \in fpr1pct_candidates(scored) : m <= k
  <2>1. fpr1pct_candidates(scored) \subseteq Nat
    BY <1>2 DEF fpr1pct_candidates, Grid
  <2> QED BY <1>1, <2>1, LowestOf
<1>4. ASSUME NEW f \in exact_threshold_frontier(scored)
      PROVE  /\ f.threshold \in Thresholds(scored) /\ f.threshold \in 0..Unit
             /\ f.fp = FalseAlerts(scored, f.threshold)
             /\ f.captured = Captured(scored, f.threshold)
  <2>1. f.threshold \in Thresholds(scored)
    BY FrontierIsExact DEF FrontierIsEvaluation
  <2>2. /\ f.fp = FalseAlerts(scored, f.threshold)
        /\ f.captured = Captured(scored, f.threshold)
    BY FrontierIsExact DEF FrontierIsEvaluation, FalseAlerts, Captured
  <2> QED BY <1>2, <2>1, <2>2, ThresholdsAreScores
<1>5. PICK g \in sub : t = g.threshold /\ \A h \in sub : h.captured <= g.captured
  <2>1. BudgetThresholds(scored)
          = {f.threshold : f \in {g \in sub : \A h \in sub : h.captured <= g.captured}}
    BY <1>1, Zenon DEF BudgetThresholds
  <2> QED BY <1>1, <2>1, Zenon
<1>6. /\ t \in 0..Unit /\ InBudget(scored, FalseAlerts(scored, t))
      /\ Captured(scored, t) = g.captured
  BY <1>4, <1>5 DEF BudgetPoints
<1>7. Captured(scored, t) \in Nat /\ Captured(scored, m) \in Nat
  <2>1. ASSUME NEW u PROVE Captured(scored, u) \in Nat
    <3>1. Alerts(scored, u) \cap Fraud(scored) \in SUBSET DOMAIN scored
      BY DEF Alerts
    <3> QED BY <1>2, <3>1, Sum5Splits DEF Captured
  <2> QED BY <2>1
<1>8. Captured(scored, m) <= Captured(scored, t)
  <2>1. CASE Alerts(scored, m) = {}
    <3>1. Captured(scored, m) = 0
      <4>1. {} \in SUBSET DOMAIN scored /\ Alerts(scored, m) \cap Fraud(scored) = {}
        BY <2>1
      <4> QED BY <1>2, <4>1, Sum5Splits DEF Captured
    <3> QED BY <1>7, <3>1
  <2>2. CASE Alerts(scored, m) # {}
    <3>1. PICK u \in Thresholds(scored) : Alerts(scored, u) = Alerts(scored, m)
      BY <1>2, <1>3, <2>2, CutoffIsThreshold
    <3>2. PICK f \in exact_threshold_frontier(scored) : f.threshold = u
      BY FrontierIsExact, Zenon DEF FrontierIsEvaluation
    <3>3. f.fp = FalseAlerts(scored, m) /\ f.captured = Captured(scored, m)
      BY <1>4, <3>1, <3>2 DEF FalseAlerts, Captured
    <3>4. InBudget(scored, FalseAlerts(scored, m))
      BY <1>3 DEF fpr1pct_candidates
    <3>5. f \in sub
      BY <3>3, <3>4 DEF BudgetPoints
    <3> QED BY <1>5, <1>6, <3>3, <3>5
  <2> QED BY <2>1, <2>2
<1>9. m <= t
  <2>1. t # 0
    BY <1>1, <1>2, <1>6, WithinBudgetIsPositive
  <2>2. CASE t \in Grid
    <3>1. t \in fpr1pct_candidates(scored)
      BY <1>6, <2>2 DEF fpr1pct_candidates
    <3> QED BY <1>3, <3>1
  <2>3. CASE t \notin Grid
    <3>1. m \in 1..(Unit - 1) /\ t = Unit
      BY <1>2, <1>3, <1>6, <2>1, <2>3 DEF fpr1pct_candidates, Grid
    <3> HIDE DEF m
    <3> QED BY <1>2, <3>1
  <2> QED BY <2>2, <2>3
<1>10. Captured(scored, t) <= Captured(scored, m)
  <2> HIDE DEF m
  <2> QED BY <1>2, <1>3, <1>6, <1>9, LowerCapturesMore
<1> HIDE DEF m
<1> QED BY <1>7, <1>8, <1>10
------------------------------------------------------------------------------
\* The capacity

Below(rows, t) == {i \in DOMAIN rows : rows[i].score < t}
UpToScore(rows, t) == {i \in DOMAIN rows : rows[i].score <= t}

\* t is the k-th value in ascending order
Ranked(rows, k, t) ==
  /\ t \in Thresholds(rows)
  /\ Cardinality(Below(rows, t)) < k /\ Cardinality(UpToScore(rows, t)) >= k

LEMMA Counted ==
  ASSUME NEW rows, Rated(rows), NEW t \in Nat
  PROVE  /\ Len(rows) \in Nat
         /\ Cardinality(Below(rows, t)) \in Nat
         /\ Cardinality(UpToScore(rows, t)) \in Nat
         /\ Cardinality(Alerts(rows, t)) \in Nat
         /\ Cardinality(Below(rows, t)) + Cardinality(Alerts(rows, t)) = Len(rows)
         /\ Cardinality(UpToScore(rows, t)) + Cardinality(Alerts(rows, t + 1)) = Len(rows)
<1>1. DOMAIN rows = 1..Len(rows) /\ Len(rows) \in Nat /\ Cardinality(DOMAIN rows) = Len(rows)
  <2>1. DOMAIN rows = 1..Len(rows) /\ Len(rows) \in Nat
    BY AlertsAreFinite
  <2>2. Cardinality(1..Len(rows)) = Len(rows)
    <3> DEFINE n == Len(rows)
    <3>1. n \in Int /\ 1 \in Int /\ ~(1 > n /\ n # 0)
      BY <2>1
    <3> HIDE DEF n
    <3>2. Cardinality(1..n) = IF 1 > n THEN 0 ELSE n - 1 + 1
      BY <3>1, FS_Interval
    <3> QED BY <3>1, <3>2 DEF n
  <2> QED BY <2>1, <2>2
<1>2. \A i \in DOMAIN rows : rows[i].score \in Nat
  BY RowsAreScored
<1>3. ASSUME NEW S \in SUBSET DOMAIN rows, NEW T \in SUBSET DOMAIN rows,
             S \cup T = DOMAIN rows, S \cap T = {}
      PROVE  /\ Cardinality(S) \in Nat /\ Cardinality(T) \in Nat
             /\ Cardinality(S) + Cardinality(T) = Len(rows)
  <2>1. /\ IsFiniteSet(S) /\ IsFiniteSet(T)
        /\ Cardinality(S) \in Nat /\ Cardinality(T) \in Nat
    BY AlertsAreFinite
  <2>2. Cardinality(S \cup T) = Cardinality(S) + Cardinality(T) - Cardinality(S \cap T)
    BY <2>1, FS_Union
  <2>3. Cardinality(S \cap T) = 0
    BY <1>3, FS_EmptySet
  <2>4. Cardinality(S \cup T) = Len(rows)
    BY <1>1, <1>3
  <2> QED BY <2>1, <2>2, <2>3, <2>4
<1>4. /\ Below(rows, t) \in SUBSET DOMAIN rows /\ UpToScore(rows, t) \in SUBSET DOMAIN rows
      /\ Alerts(rows, t) \in SUBSET DOMAIN rows /\ Alerts(rows, t + 1) \in SUBSET DOMAIN rows
  BY DEF Below, UpToScore, Alerts
<1>5. /\ Below(rows, t) \cup Alerts(rows, t) = DOMAIN rows
      /\ Below(rows, t) \cap Alerts(rows, t) = {}
  BY <1>2 DEF Below, Alerts
<1>6. /\ UpToScore(rows, t) \cup Alerts(rows, t + 1) = DOMAIN rows
      /\ UpToScore(rows, t) \cap Alerts(rows, t + 1) = {}
  <2>1. \A i \in DOMAIN rows : rows[i].score >= t + 1 <=> ~(rows[i].score <= t)
    BY <1>2
  <2> QED BY <2>1 DEF UpToScore, Alerts
<1> QED BY <1>1, <1>3, <1>4, <1>5, <1>6

\* a lower value is followed by all rows of a higher one
LEMMA LowerIsBelow ==
  ASSUME NEW rows, Rated(rows), NEW t \in Nat, NEW u \in Nat, t < u
  PROVE  Cardinality(UpToScore(rows, t)) <= Cardinality(Below(rows, u))
<1>1. \A i \in DOMAIN rows : rows[i].score \in Nat
  BY RowsAreScored
<1>2. UpToScore(rows, t) \subseteq Below(rows, u)
  BY <1>1 DEF UpToScore, Below
<1>3. IsFiniteSet(Below(rows, u))
  BY AlertsAreFinite DEF Below
<1> QED BY <1>2, <1>3, FS_Subset

LEMMA AscendingIsRanked ==
  ASSUME NEW rows, Rated(rows), NEW k \in Nat, NEW t, Ranked(rows, k, t)
  PROVE  Ascending(rows, k) = t
<1>1. Ascending(rows, k) = CHOOSE u \in Thresholds(rows) :
                             /\ Cardinality(Below(rows, u)) < k
                             /\ Cardinality(UpToScore(rows, u)) >= k
  BY Zenon DEF Ascending, Below, UpToScore
<1> DEFINE v == Ascending(rows, k)
<1>2. Ranked(rows, k, v)
  BY <1>1, Zenon DEF Ranked
<1>3. \A u \in Thresholds(rows) : u \in Nat
  BY ThresholdsAreScores, AlertPolicyAssumption
<1> HIDE DEF v
<1>4. v \in Nat /\ t \in Nat
  BY <1>2, <1>3 DEF Ranked
<1>5. ~(v < t)
  <2>1. SUFFICES ASSUME v < t PROVE FALSE
    OBVIOUS
  <2>2. Cardinality(UpToScore(rows, v)) <= Cardinality(Below(rows, t))
    BY <1>4, <2>1, LowerIsBelow
  <2>3. /\ Cardinality(UpToScore(rows, v)) \in Nat /\ Cardinality(Below(rows, t)) \in Nat
        /\ Cardinality(UpToScore(rows, v)) >= k /\ Cardinality(Below(rows, t)) < k
    BY <1>2, <1>4, Counted DEF Ranked
  <2> QED BY <2>2, <2>3
<1>6. ~(t < v)
  <2>1. SUFFICES ASSUME t < v PROVE FALSE
    OBVIOUS
  <2>2. Cardinality(UpToScore(rows, t)) <= Cardinality(Below(rows, v))
    BY <1>4, <2>1, LowerIsBelow
  <2>3. /\ Cardinality(UpToScore(rows, t)) \in Nat /\ Cardinality(Below(rows, v)) \in Nat
        /\ Cardinality(UpToScore(rows, t)) >= k /\ Cardinality(Below(rows, v)) < k
    BY <1>2, <1>4, Counted DEF Ranked
  <2> QED BY <2>2, <2>3
<1> QED BY <1>4, <1>5, <1>6 DEF v

(***************************************************************************)
(* Every place in the order has its value: the lowest that has as many     *)
(* rows up to it.                                                          *)
(***************************************************************************)
LEMMA RankedExists ==
  ASSUME NEW rows, Rated(rows), rows # <<>>, NEW k \in Nat \ {0}, k <= Len(rows)
  PROVE  \E t : Ranked(rows, k, t)
<1> DEFINE S == {t \in Thresholds(rows) : Cardinality(UpToScore(rows, t)) >= k}
<1>1. Thresholds(rows) \subseteq 0..Unit /\ Thresholds(rows) # {} /\ Unit \in Nat
  BY ThresholdsAreScores, AlertPolicyAssumption
<1>2. \A i \in DOMAIN rows : rows[i].score \in Nat /\ rows[i].score \in Thresholds(rows)
  BY RowsAreScored DEF Thresholds
<1>3. S # {}
  <2> DEFINE top == Max(Thresholds(rows))
  <2>1. top \in Thresholds(rows) /\ \A u \in Thresholds(rows) : u <= top
    BY <1>1, HighestOf
  <2> HIDE DEF top
  <2>2. UpToScore(rows, top) = DOMAIN rows
    BY <1>2, <2>1 DEF UpToScore
  <2>3. Cardinality(DOMAIN rows) = Len(rows)
    <3>1. DOMAIN rows = 1..Len(rows) /\ Len(rows) \in Nat
      BY AlertsAreFinite
    <3>2. Cardinality(1..Len(rows)) = Len(rows)
      BY <3>1, FS_Interval
    <3> QED BY <3>1, <3>2
  <2> QED BY <2>1, <2>2, <2>3, AlertsAreFinite
<1>4. S \in SUBSET Nat
  BY <1>1
<1>5. PICK t \in S : \A u \in S : t <= u
  BY <1>3, <1>4, LeastOf
<1>6. Cardinality(Below(rows, t)) < k
  <2> DEFINE R == {u \in Thresholds(rows) : u < t}
  <2>1. CASE R = {}
    <3>1. Below(rows, t) = {}
      BY <1>2, <2>1 DEF Below
    <3> QED BY <3>1, FS_EmptySet
  <2>2. CASE R # {}
    <3> DEFINE v == Max(R)
    <3>1. v \in R /\ \A u \in R : u <= v
      BY <1>1, <2>2, HighestOf
    <3> HIDE DEF v
    <3>2. v \in Nat /\ t \in Nat /\ v < t /\ v \in Thresholds(rows)
      BY <1>1, <1>5, <3>1
    <3>3. v \notin S
      BY <1>5, <3>2
    <3>4. Cardinality(UpToScore(rows, v)) < k
      <4>1. Cardinality(UpToScore(rows, v)) \in Nat
        BY <3>2, Counted
      <4>2. ~(Cardinality(UpToScore(rows, v)) >= k)
        BY <3>2, <3>3
      <4> QED BY <4>1, <4>2
    <3>5. Below(rows, t) = UpToScore(rows, v)
      BY <1>2, <3>1, <3>2 DEF Below, UpToScore
    <3> QED BY <3>4, <3>5
  <2> QED BY <2>1, <2>2
<1> QED BY <1>5, <1>6 DEF Ranked

(***************************************************************************)
(* The capacity and the percentile: one row in OneIn, rounded up, is one   *)
(* more than a, and (n - 1)(1 - 1/OneIn) is n - k, or between n - k - 1    *)
(* and n - k.                                                              *)
(***************************************************************************)
LEMMA Division ==
  ASSUME NEW x \in Nat, NEW d \in Nat \ {0}
  PROVE  /\ x \div d \in Nat /\ x % d \in 0..(d - 1)
         /\ x = d * (x \div d) + (x % d)
<1> DEFINE q == x \div d
           r == x % d
<1>1. q \in Int /\ r \in 0..(d - 1) /\ x = d * q + r
  OBVIOUS
<1> HIDE DEF q, r
<1>2. q >= 0
  <2>1. SUFFICES ASSUME q <= -1 PROVE FALSE
    BY <1>1
  <2>2. d * q <= d * (-1)
    BY <1>1, <2>1
  <2> QED BY <1>1, <2>2
<1>3. q \in Nat
  BY <1>1, <1>2
<1> QED BY <1>1, <1>3 DEF q, r

LEMMA DivisionIs ==
  ASSUME NEW x \in Nat, NEW d \in Nat \ {0}, NEW q \in Int, NEW r \in 0..(d - 1), x = d * q + r
  PROVE  x \div d = q /\ x % d = r
<1> DEFINE p == x \div d
           s == x % d
<1>1. p \in Int /\ s \in 0..(d - 1) /\ x = d * p + s
  BY Division
<1> HIDE DEF p, s
<1>2. d * (p - q) = r - s
  BY <1>1
<1>3. p - q = 0
  <2>1. ~(p - q >= 1)
    <3>1. SUFFICES ASSUME p - q >= 1 PROVE FALSE
      OBVIOUS
    <3>2. d * (p - q) >= d * 1
      BY <1>1, <3>1
    <3> QED BY <1>1, <1>2, <3>2
  <2>2. ~(p - q <= -1)
    <3>1. SUFFICES ASSUME p - q <= -1 PROVE FALSE
      OBVIOUS
    <3>2. d * (p - q) <= d * (-1)
      BY <1>1, <3>1
    <3> QED BY <1>1, <1>2, <3>2
  <2> QED BY <1>1, <2>1, <2>2
<1>4. p = q /\ s = r
  BY <1>1, <1>2, <1>3
<1> QED BY <1>4 DEF p, s

LEMMA Places ==
  ASSUME NEW n \in Nat \ {0}, NEW O \in Nat \ {0}
  PROVE  LET k == (n + O - 1) \div O
             h == (n - 1) * (O - 1)
         IN /\ k \in 1..n
            /\ h \div O \in Nat /\ h % O \in 0..(O - 1)
            /\ h % O = 0 => h \div O + 1 = n - k + 1
            /\ h % O # 0 => h \div O + 1 = n - k /\ n - k \in Nat \ {0}
<1> DEFINE a == (n - 1) \div O
           e == (n - 1) % O
<1>1. a \in Nat /\ e \in 0..(O - 1) /\ n - 1 = O * a + e
  <2>1. n - 1 \in Nat
    OBVIOUS
  <2> QED BY <2>1, Division
<1> HIDE DEF a, e
<1>2. n + O - 1 \in Nat /\ n + O - 1 = O * (a + 1) + e
  BY <1>1
<1>3. (n + O - 1) \div O = a + 1
  BY <1>1, <1>2, DivisionIs
<1>4. O * a >= a
  BY <1>1
<1>5. a + 1 \in 1..n
  BY <1>1, <1>4
<1> DEFINE h == (n - 1) * (O - 1)
<1>6. h \in Nat
  BY Product
<1>7. h = O * (n - 1 - a) - e
  BY <1>1
<1>8. CASE e = 0
  <2>1. n - 1 - a \in Int /\ 0 \in 0..(O - 1) /\ h = O * (n - 1 - a) + 0
    BY <1>1, <1>7, <1>8
  <2> HIDE DEF h
  <2>2. h \div O = n - 1 - a /\ h % O = 0
    BY <1>6, <2>1, DivisionIs
  <2>3. n - 1 - a \in Nat
    BY <1>5, <1>1
  <2> QED BY <1>1, <1>3, <1>5, <2>2, <2>3 DEF h
<1>9. CASE e # 0
  <2>1. n - 2 - a \in Int /\ O - e \in 1..(O - 1) /\ h = O * (n - 2 - a) + (O - e)
    <3>1. O * (n - 1 - a) = O * (n - 2 - a) + O
      BY <1>1
    <3> HIDE DEF h
    <3> QED BY <1>1, <1>7, <1>9, <3>1
  <2> HIDE DEF h
  <2>2. h \div O = n - 2 - a /\ h % O = O - e
    <3>1. O - e \in 0..(O - 1)
      BY <2>1
    <3> QED BY <1>6, <2>1, <3>1, DivisionIs
  <2>3. n - 2 - a \in Nat
    BY <1>1, <1>4, <1>9
  <2> QED BY <1>1, <1>3, <1>5, <2>1, <2>2, <2>3 DEF h
<1> QED BY <1>8, <1>9
------------------------------------------------------------------------------
(***************************************************************************)
(* The k-th highest score: it alerts on k rows, the next score on fewer,   *)
(* so it is the value n - k + 1 in ascending order.                        *)
(***************************************************************************)
LEMMA TopCutoffIs ==
  ASSUME NEW rows, Rated(rows), rows # <<>>, Capacity(rows) \in 1..Len(rows)
  PROVE  /\ TopCutoff(rows) \in Thresholds(rows)
         /\ Cardinality(Alerts(rows, TopCutoff(rows) + 1)) < Capacity(rows)
         /\ Ranked(rows, Len(rows) - Capacity(rows) + 1, TopCutoff(rows))
<1> DEFINE k == Capacity(rows)
           S == {t \in Thresholds(rows) : Cardinality(Alerts(rows, t)) >= k}
           c == TopCutoff(rows)
<1>1. /\ Thresholds(rows) \subseteq 0..Unit /\ Thresholds(rows) # {} /\ Unit \in Nat
      /\ Thresholds(rows) \subseteq Nat
  BY ThresholdsAreScores, AlertPolicyAssumption
<1>2. Len(rows) \in Nat /\ k \in 1..Len(rows)
  BY AlertsAreFinite
<1>3. S # {}
  <2> DEFINE t == Min(Thresholds(rows))
  <2>1. t \in Thresholds(rows) /\ \A u \in Thresholds(rows) : t <= u
    BY <1>1, LowestOf
  <2> HIDE DEF t
  <2>2. Below(rows, t) = {}
    <3>1. \A i \in DOMAIN rows : rows[i].score \in Nat /\ rows[i].score \in Thresholds(rows)
      BY RowsAreScored DEF Thresholds
    <3> QED BY <1>1, <2>1, <3>1 DEF Below
  <2>3. t \in Nat /\ Cardinality(Below(rows, t)) = 0
    BY <1>1, <2>1, <2>2, FS_EmptySet
  <2>4. Cardinality(Alerts(rows, t)) = Len(rows)
    BY <2>3, Counted
  <2> HIDE DEF k
  <2> QED BY <1>2, <2>1, <2>4
<1>4. c \in S /\ \A u \in S : u <= c
  <2>1. c = Max(S)
    BY DEF TopCutoff
  <2>2. S \subseteq 0..Unit
    BY <1>1
  <2> HIDE DEF S, c
  <2> QED BY <1>1, <1>3, <2>1, <2>2, HighestOf
<1> HIDE DEF k, c
<1>5. c \in Thresholds(rows) /\ c \in Nat /\ Cardinality(Alerts(rows, c)) >= k
  BY <1>1, <1>4
<1>6. Cardinality(Alerts(rows, c + 1)) < k
  <2>1. CASE Alerts(rows, c + 1) = {}
    <3>1. Cardinality(Alerts(rows, c + 1)) = 0
      BY <2>1, FS_EmptySet
    <3>2. k \in Nat \ {0}
      BY <1>2
    <3> QED BY <3>1, <3>2
  <2>2. CASE Alerts(rows, c + 1) # {}
    <3>1. PICK u \in Thresholds(rows) : u >= c + 1 /\ Alerts(rows, u) = Alerts(rows, c + 1)
      BY <1>5, <2>2, CutoffIsThreshold
    <3>2. u \in Nat /\ u \notin S
      BY <1>1, <1>4, <1>5, <3>1
    <3>3. ~(Cardinality(Alerts(rows, u)) >= k) /\ Cardinality(Alerts(rows, u)) \in Nat
      BY <3>1, <3>2, Counted
    <3> QED BY <1>2, <3>1, <3>3
  <2> QED BY <2>1, <2>2
<1>7. Ranked(rows, Len(rows) - k + 1, c)
  <2> DEFINE below == Cardinality(Below(rows, c))
             upto == Cardinality(UpToScore(rows, c))
             alerts == Cardinality(Alerts(rows, c))
             next == Cardinality(Alerts(rows, c + 1))
  <2>1. /\ below \in Nat /\ upto \in Nat /\ alerts \in Nat
        /\ below + alerts = Len(rows) /\ upto + next = Len(rows)
    BY <1>5, Counted
  <2>2. next \in Nat
    <3>1. c + 1 \in Nat
      BY <1>5
    <3> QED BY <3>1, Counted
  <2>3. alerts >= k /\ next < k
    BY <1>5, <1>6
  <2> HIDE DEF below, upto, alerts, next
  <2>4. below < Len(rows) - k + 1 /\ upto >= Len(rows) - k + 1
    BY <1>2, <2>1, <2>2, <2>3
  <2> QED BY <1>5, <2>4 DEF Ranked, below, upto
<1> QED BY <1>5, <1>6, <1>7 DEF k, c

(***************************************************************************)
(* Two values next to each other in the order have none between them.      *)
(***************************************************************************)
LEMMA NeighboursAreNext ==
  ASSUME NEW rows, Rated(rows), NEW k \in Nat, NEW t, NEW u,
         Ranked(rows, k, t), Ranked(rows, k + 1, u)
  PROVE  /\ t \in Nat /\ u \in Nat /\ t <= u
         /\ \A i \in DOMAIN rows : rows[i].score <= t \/ rows[i].score >= u
<1>1. \A v \in Thresholds(rows) : v \in Nat
  BY ThresholdsAreScores, AlertPolicyAssumption
<1>2. t \in Nat /\ u \in Nat
  BY <1>1 DEF Ranked
<1>3. /\ Cardinality(UpToScore(rows, t)) >= k /\ Cardinality(UpToScore(rows, u)) >= k + 1
      /\ Cardinality(Below(rows, t)) < k /\ Cardinality(Below(rows, u)) < k + 1
  BY DEF Ranked
<1>4. t <= u
  <2>1. SUFFICES ASSUME u < t PROVE FALSE
    BY <1>2
  <2>2. Cardinality(UpToScore(rows, u)) <= Cardinality(Below(rows, t))
    BY <1>2, <2>1, LowerIsBelow
  <2>3. Cardinality(UpToScore(rows, u)) \in Nat /\ Cardinality(Below(rows, t)) \in Nat
    BY <1>2, Counted
  <2> QED BY <1>3, <2>2, <2>3
<1>5. ASSUME NEW i \in DOMAIN rows, ~(rows[i].score <= t), ~(rows[i].score >= u)
      PROVE  FALSE
  <2> DEFINE s == rows[i].score
             A == UpToScore(rows, t)
             B == Below(rows, u)
  <2>1. \A j \in DOMAIN rows : rows[j].score \in Nat
    BY RowsAreScored
  <2>2. s \in Nat /\ t < s /\ s < u
    BY <1>2, <1>5, <2>1
  <2>3. A \subseteq B /\ i \in B /\ i \notin A
    BY <1>2, <2>1, <2>2 DEF UpToScore, Below
  <2>4. IsFiniteSet(A) /\ IsFiniteSet(B)
    BY AlertsAreFinite DEF UpToScore, Below
  <2> HIDE DEF A, B
  <2>5. /\ Cardinality(A) \in Nat /\ Cardinality(B) \in Nat
        /\ Cardinality(A \cup {i}) = Cardinality(A) + 1
        /\ Cardinality(A \cup {i}) <= Cardinality(B)
    BY <2>3, <2>4, FS_CardinalityType, FS_AddElement, FS_Subset
  <2>6. Cardinality(A) >= k /\ Cardinality(B) < k + 1
    BY <1>3 DEF A, B
  <2> QED BY <2>5, <2>6
<1> QED BY <1>2, <1>4, <1>5

(***************************************************************************)
(* Between neighbours, whatever the fraction: a score reaches the          *)
(* interpolated value exactly if it reaches the upper one.                 *)
(***************************************************************************)
LEMMA Interpolated ==
  ASSUME NEW O \in Nat \ {0}, NEW r \in 1..(O - 1), NEW below \in Nat, NEW above \in Nat,
         below <= above, NEW s \in Nat, s <= below \/ s >= above
  PROVE  s >= above <=> O * s >= O * below + r * (above - below)
<1> DEFINE d == above - below
           x == O * below + r * d
<1>1. d \in Nat /\ above = below + d
  OBVIOUS
<1>2. r \in Nat \ {0} /\ O - r \in Nat \ {0}
  OBVIOUS
<1>3. r * d \in Nat /\ (O - r) * d \in Nat /\ O * d = r * d + (O - r) * d
  BY <1>1, <1>2, Product
<1>4. O * above = O * below + O * d /\ O * below \in Nat /\ O * s \in Nat
  BY <1>1, Product
<1>5. ASSUME s >= above PROVE O * s >= x
  <2>1. O * above <= O * s
    BY <1>5, LargerFactor
  <2> HIDE DEF d
  <2> QED BY <1>3, <1>4, <2>1
<1>6. ASSUME ~(s >= above) PROVE ~(O * s >= x)
  <2>1. s <= below /\ s < above
    BY <1>6
  <2>2. CASE below < above
    <3>1. O * s <= O * below
      BY <2>1, LargerFactor
    <3>2. d # 0
      BY <2>2
    <3> HIDE DEF d
    <3>3. r * d >= 1
      BY <1>1, <1>2, <3>2
    <3> QED BY <1>3, <1>4, <3>1, <3>3
  <2>3. CASE below = above
    <3>1. s + 1 \in Nat /\ s + 1 <= below
      BY <2>1, <2>3
    <3>2. O * (s + 1) <= O * below /\ O * (s + 1) = O * s + O
      BY <3>1, LargerFactor
    <3> HIDE DEF d
    <3> QED BY <1>3, <1>4, <3>2
  <2> QED BY <2>2, <2>3
<1> QED BY <1>5, <1>6

(***************************************************************************)
(* The percentile of nb03 and the cutoff of Master alert on the same rows. *)
(***************************************************************************)
LEMMA CapacityAgree ==
  ASSUME PolicyTypeOK
  PROVE  CapacityRulesAgree
<1> DEFINE n == Len(scored)
           k == Capacity(scored)
           c == TopCutoff(scored)
           h == (n - 1) * (OneIn - 1)
<1>1. SUFFICES ASSUME Chosen
      PROVE  /\ Alerts(scored, c) = {i \in DOMAIN scored : OneIn * scored[i].score >= t_top1pct(scored)}
             /\ Cardinality(Alerts(scored, c + 1)) < k
  BY DEF CapacityRulesAgree
<1>2. Rated(scored) /\ scored # <<>> /\ n \in Nat \ {0} /\ OneIn \in Nat \ {0}
  BY <1>1, AlertPolicyAssumption DEF PolicyTypeOK, Rated, Chosen
<1>3. k = (n + OneIn - 1) \div OneIn
  BY DEF Capacity
<1> HIDE DEF k
<1>4. /\ k \in 1..n /\ h \div OneIn \in Nat /\ h % OneIn \in 0..(OneIn - 1)
      /\ h % OneIn = 0 => h \div OneIn + 1 = n - k + 1
      /\ h % OneIn # 0 => h \div OneIn + 1 = n - k /\ n - k \in Nat \ {0}
  <2> HIDE DEF n
  <2> QED BY <1>2, <1>3, Places
<1>5. /\ c \in Thresholds(scored) /\ Cardinality(Alerts(scored, c + 1)) < k
      /\ Ranked(scored, n - k + 1, c)
  BY <1>2, <1>4, TopCutoffIs DEF k
<1>6. n - k + 1 \in Nat /\ Ascending(scored, n - k + 1) = c
  <2>1. n - k + 1 \in Nat
    BY <1>2, <1>4
  <2> HIDE DEF n, c
  <2> QED BY <1>2, <1>5, <2>1, AscendingIsRanked
<1>7. c \in Nat /\ \A i \in DOMAIN scored : scored[i].score \in Nat
  <2>1. Thresholds(scored) \subseteq Nat
    BY <1>2, ThresholdsAreScores, AlertPolicyAssumption
  <2> QED BY <1>2, <1>5, <2>1, RowsAreScored
<1> DEFINE below == Ascending(scored, h \div OneIn + 1)
           above == IF h % OneIn = 0 THEN below ELSE Ascending(scored, h \div OneIn + 2)
           q == h \div OneIn
           r == h % OneIn
<1>8. t_top1pct(scored) = OneIn * below + r * (above - below)
  BY DEF t_top1pct
<1>9. ASSUME NEW i \in DOMAIN scored
      PROVE  scored[i].score >= c <=> OneIn * scored[i].score >= t_top1pct(scored)
  <2> DEFINE s == scored[i].score
  <2>1. s \in Nat
    BY <1>7
  <2>2. CASE r = 0
    <3>1. below = c
      BY <1>4, <1>6, <2>2
    <3>2. above = c
      BY <2>2, <3>1
    <3>3. t_top1pct(scored) = OneIn * c
      <4> HIDE DEF below, above, r, c
      <4> QED BY <1>2, <1>7, <1>8, <2>2, <3>1, <3>2
    <3> HIDE DEF c, s
    <3>4. s >= c <=> OneIn * s >= OneIn * c
      <4>1. s >= c => OneIn * c <= OneIn * s
        BY <1>2, <1>7, <2>1, LargerFactor
      <4>2. OneIn * c <= OneIn * s => c <= s
        BY <1>2, <1>7, <2>1, CancelFactor
      <4> QED BY <1>2, <1>7, <2>1, <4>1, <4>2, Product
    <3> QED BY <3>3, <3>4 DEF s
  <2>3. CASE r # 0
    <3>1. q + 1 = n - k /\ q + 2 = n - k + 1 /\ n - k \in Nat \ {0} /\ n - k <= n
      <4>1. q + 1 = n - k /\ n - k \in Nat \ {0} /\ q \in Nat
        BY <1>4, <2>3
      <4>2. n \in Nat /\ k \in 1..n
        BY <1>2, <1>4
      <4> HIDE DEF q, n
      <4> QED BY <4>1, <4>2
    <3>2. above = c
      <4>1. above = Ascending(scored, q + 2)
        BY <2>3
      <4> HIDE DEF above, q, n, c
      <4> QED BY <1>6, <3>1, <4>1
    <3>3. Ranked(scored, n - k, below)
      <4>1. below = Ascending(scored, q + 1)
        OBVIOUS
      <4> HIDE DEF below, q
      <4>2. PICK t : Ranked(scored, n - k, t)
        BY <1>2, <3>1, RankedExists
      <4>3. Ascending(scored, n - k) = t
        BY <1>2, <3>1, <4>2, AscendingIsRanked
      <4> QED BY <3>1, <4>1, <4>2, <4>3
    <3> HIDE DEF below, above, n, c
    <3>4. below \in Nat /\ below <= c /\ (s <= below \/ s >= c)
      BY <1>2, <1>5, <3>1, <3>3, NeighboursAreNext
    <3>5. r \in 1..(OneIn - 1)
      BY <1>2, <1>4, <2>3
    <3> HIDE DEF s, r
    <3>6. s >= c <=> OneIn * s >= OneIn * below + r * (c - below)
      BY <1>2, <1>7, <2>1, <3>4, <3>5, Interpolated
    <3> QED BY <1>8, <3>2, <3>6 DEF s
  <2> QED BY <2>2, <2>3
<1> QED BY <1>5, <1>9 DEF Alerts

(***************************************************************************)
(* RulesAreSound: for any rows, scores and amounts, the thresholds of both *)
(* F-beta rules are the best cutoffs; no policy is worth more than the     *)
(* oracle; the strided net-value search is exact below two strides; the    *)
(* frontier is the evaluation; and the two FPR rules and the two capacity  *)
(* rules agree, for any budget of less than every legitimate row.          *)
(***************************************************************************)
THEOREM ThresholdRulesAreSound == PolicySpec => []RulesAreSound
<1>1. PolicyTypeOK => RulesAreSound
  BY BestThresholds, OracleBest, NetValueBest, FrontierIsExact, FprAgree, CapacityAgree
     DEF RulesAreSound
<1> QED BY <1>1, PolicyTyping, PTL
------------------------------------------------------------------------------

(***************************************************************************)
(* The notebooks together do nothing to the ledger and to the scored rows  *)
(* that the shared algorithms alone would not do, so that what is proved   *)
(* of these holds whichever book is open, also across restarts of kernels. *)
(***************************************************************************)
THEOREM NotebooksShareAlgorithms == NotebooksSpec => PointInTimeSpec /\ PolicySpec
<1>1. NotebooksInit => PointInTimeInit /\ PolicyInit
  BY DEF NotebooksInit
<1>2. [NotebooksNext]_notebooksVars => [ReadRow]_ledger /\ [ScoreRow]_scored
  BY DEF NotebooksNext, notebooksVars, RunBook, ReadLedger, ScoreRows
<1> QED BY <1>1, <1>2, PTL DEF NotebooksSpec, PointInTimeSpec, PolicySpec

------------------------------------------------------------------------------

\* What a value is a function of

\* no label of the rows P went into v
Blind(v, P) == \A f \in v.facts : f[2] = "y" => f[1] \notin P

\* the parts of a mixture and of a training
LEMMA Sources ==
  /\ \A facts, of : From(facts, of).facts = facts /\ From(facts, of).of = of
  /\ \A S : /\ Mix(S).facts = UNION {v.facts : v \in S}
            /\ Mix(S).of = UNION {v.of : v \in S}
  /\ \A S : Trained(S).facts = Mix(S).facts /\ Trained(S).of = {fits + 1}
BY DEF From, Mix, Trained

\* stated as DecisionsBlind has it
LEMMA BlindLabels ==
  ASSUME NEW v, NEW P, Blind(v, P)
  PROVE  Labels(v) \cap P = {}
BY DEF Blind, Labels

\* nothing blind makes anything else
LEMMA BlindMix ==
  ASSUME NEW S, NEW P, \A v \in S : Blind(v, P)
  PROVE  Blind(Mix(S), P) /\ Blind(Trained(S), P)
BY Sources DEF Blind

\* rows know no label, labels know their own partition
LEMMA BlindRows ==
  ASSUME NEW P, NEW p
  PROVE  /\ Blind(X(p), P)
         /\ p \notin P => Blind(Y(p), P)
         /\ X(p).of = {} /\ Y(p).of = {}
BY DEF Blind, X, Y, From

\* features hold labels of training rows only, and no model
LEMMA FeaturesAreBlind ==
  ASSUME NEW w, NEW p, NEW P, "train" \notin P
  PROVE  Blind(Featured(w, p), P) /\ Featured(w, p).of = {}
<1> DEFINE S == {X(q) : q \in {r \in DOMAIN w : SeenFrom(w, p, r)}} \cup {X("train"), Y("train")}
<1>1. \A v \in S : Blind(v, P) /\ v.of = {}
  BY BlindRows
<1>2. Blind(Mix(S), P)
  BY <1>1, BlindMix
<1>3. Mix(S).of = {}
  BY <1>1, Sources
<1>4. QED
  BY <1>2, <1>3 DEF Featured

------------------------------------------------------------------------------

\* Memory and disk

\* a cell binds names over the ones it finds
LEMMA Bound ==
  ASSUME NEW new, Bind(new)
  PROVE  /\ DOMAIN mem' = DOMAIN new \cup DOMAIN mem
         /\ \A n \in DOMAIN new : mem'[n] = new[n]
         /\ \A n \in DOMAIN mem : n \notin DOMAIN new => mem'[n] = mem[n]
BY DEF Bind, Override

\* what is decided with stays blind when what is bound is
DecidedBlind(D, P) == \A n \in D \cap DOMAIN mem : Blind(mem[n], P)

LEMMA BindBlind ==
  ASSUME NEW D, NEW P, NEW new, DecidedBlind(D, P), Bind(new),
         \A n \in D \cap DOMAIN new : Blind(new[n], P)
  PROVE  DecidedBlind(D, P)'
BY Bound DEF DecidedBlind

\* a memory that keeps what it had decides with nothing else
LEMMA KeepBlind ==
  ASSUME NEW D, NEW P, DecidedBlind(D, P), DOMAIN mem' = DOMAIN mem,
         \A n \in DOMAIN mem : mem'[n] = mem[n]
  PROVE  DecidedBlind(D, P)'
BY DEF DecidedBlind

------------------------------------------------------------------------------

\* The enhanced model

EnhX == [p \in EnhStages |-> Featured(EnhWindow, p)]
EnhY == [p \in EnhStages |-> Y(p)]

\* the cells that run before a name is bound
BeforeRaw == {"load", "features"}
BeforeRows == BeforeRaw \cup {"partitions"}
BeforeStudy == BeforeRows \cup {"anchor", "weighted", "study"}
BeforeModel == BeforeStudy \cup {"enhanced"}
BeforeScores == BeforeModel \cup {"explain", "sweep"}
BeforeSelection == BeforeScores \cup {"benchmark", "latency", "fb"}

EnhKnown ==
  /\ cell \notin BeforeRaw => Is("X_raw_fe") /\ mem.X_raw_fe = EnhX
  /\ cell \notin BeforeRows => Is("X") /\ Is("y") /\ mem.X = EnhX /\ mem.y = EnhY
  /\ cell \notin BeforeStudy => Is("study_enh")
  /\ cell \notin BeforeModel => Is("enhanced_model")
  /\ cell \notin BeforeScores => Is("val_probs_enh") /\ Blind(mem.val_probs_enh, {"test"})
  /\ cell \notin BeforeSelection => Is("fb_selection") /\ Blind(mem.fb_selection, {"test"})

(***************************************************************************)
(* What is bound behind each cell of the enhanced notebook, and that no    *)
(* label of a test row went into what it decides with, which is no         *)
(* invariant by itself: the rows the study and the models are trained on   *)
(* have to be known.                                                       *)
(***************************************************************************)
EnhInv == EnhKnown /\ DecidedBlind(EnhancedDecisions, {"test"})

\* training and validation rows, as the cells of the studies and models take them
LEMMA EnhPartsAreBlind ==
  ASSUME EnhInv, cell \notin BeforeRows, NEW p \in {"train", "val"}
  PROVE  \A v \in Part(p) : Blind(v, {"test"})
<1>1. mem.X = EnhX /\ mem.y = EnhY
  BY DEF EnhInv, EnhKnown
<1>2. mem.X[p] = Featured(EnhWindow, p) /\ mem.y[p] = Y(p)
  BY <1>1 DEF EnhX, EnhY, EnhStages
<1>3. QED
  BY <1>2, FeaturesAreBlind, BlindRows DEF Part

\* the cells that read the data and split it
LEMMA EnhLoads ==
  ASSUME EnhInv, EnhLoad \/ build_enhanced_features \/ EnhPartitions
  PROVE  EnhInv'
<1> USE DEF EnhKnown, BeforeRaw, BeforeRows, BeforeStudy, BeforeModel, BeforeScores,
             BeforeSelection, Is
<1>1. CASE EnhLoad
  <2>1. /\ cell = "load" /\ cell' = "features"
        /\ Bind([df_subset |-> [p \in EnhStages |-> Mix({X(p), Y(p)})]])
    BY <1>1 DEF EnhLoad, Compute, At, Goto
  <2>2. EnhKnown'
    BY <2>1
  <2>3. DecidedBlind(EnhancedDecisions, {"test"})'
    BY <2>1, BindBlind DEF EnhInv, EnhancedDecisions
  <2>4. QED
    BY <2>2, <2>3 DEF EnhInv
<1>2. CASE build_enhanced_features
  <2>1. cell = "features" /\ cell' = "partitions" /\ Bind([X_raw_fe |-> EnhX])
    BY <1>2 DEF build_enhanced_features, Compute, At, Goto, EnhX
  <2>2. EnhKnown'
    BY <2>1 DEF EnhInv, Bind, Override
  <2>3. DecidedBlind(EnhancedDecisions, {"test"})'
    BY <2>1, BindBlind DEF EnhInv, EnhancedDecisions
  <2>4. QED
    BY <2>2, <2>3 DEF EnhInv
<1>3. CASE EnhPartitions
  <2>1. cell = "partitions" /\ cell' = "anchor" /\ Bind([X |-> EnhX, y |-> EnhY])
    BY <1>3 DEF EnhPartitions, Compute, At, Goto, EnhInv, EnhY
  <2>2. EnhKnown'
    BY <2>1 DEF EnhInv, Bind, Override
  <2>3. DecidedBlind(EnhancedDecisions, {"test"})'
    BY <2>1, BindBlind DEF EnhInv, EnhancedDecisions
  <2>4. QED
    BY <2>2, <2>3 DEF EnhInv
<1>4. QED
  BY <1>1, <1>2, <1>3

\* the anchor, the weighted models, the study and the enhanced model
LEMMA EnhTrains ==
  ASSUME EnhInv, Anchor \/ Weighted \/ optuna_enhanced_objective \/ Enhanced
  PROVE  EnhInv'
<1> USE DEF EnhKnown, BeforeRaw, BeforeRows, BeforeStudy, BeforeModel, BeforeScores,
             BeforeSelection, Is
<1> DEFINE rows == Part("train") \cup EnhEvalSet
<1>1. ASSUME cell \notin BeforeRows
      PROVE  \A v \in rows : Blind(v, {"test"})
  BY <1>1, EnhPartsAreBlind DEF EnhEvalSet
<1>2. CASE Anchor
  <2>1. cell = "anchor" /\ cell' = "weighted" /\ Bind([anchor_model |-> Trained(rows)])
    BY <1>2 DEF Anchor, Train, At, Goto
  <2>2. Blind(Trained(rows), {"test"})
    BY <1>1, <2>1, BlindMix
  <2>3. EnhKnown'
    BY <2>1 DEF EnhInv, Bind, Override
  <2>4. DecidedBlind(EnhancedDecisions, {"test"})'
    BY <2>1, <2>2, BindBlind DEF EnhInv, EnhancedDecisions
  <2>5. QED
    BY <2>3, <2>4 DEF EnhInv
<1>3. CASE Weighted
  <2>1. cell = "weighted" /\ cell' = "study" /\ Bind([weighted_model |-> Trained(rows)])
    BY <1>3 DEF Weighted, Train, At, Goto
  <2>2. Blind(Trained(rows), {"test"})
    BY <1>1, <2>1, BlindMix
  <2>3. EnhKnown'
    BY <2>1 DEF EnhInv, Bind, Override
  <2>4. DecidedBlind(EnhancedDecisions, {"test"})'
    BY <2>1, <2>2, BindBlind DEF EnhInv, EnhancedDecisions
  <2>5. QED
    BY <2>3, <2>4 DEF EnhInv
<1>4. CASE optuna_enhanced_objective
  <2>1. /\ cell = "study" /\ cell' = "enhanced"
        /\ Bind([study_enh |-> Trained(Part("train") \cup Part("val"))])
    BY <1>4 DEF optuna_enhanced_objective, Train, At, Goto
  <2>2. Blind(Trained(Part("train") \cup Part("val")), {"test"})
    <3>1. \A v \in Part("train") \cup Part("val") : Blind(v, {"test"})
      BY <2>1, EnhPartsAreBlind
    <3>2. QED
      BY <3>1, BlindMix
  <2>3. EnhKnown'
    BY <2>1 DEF EnhInv, Bind, Override
  <2>4. DecidedBlind(EnhancedDecisions, {"test"})'
    BY <2>1, <2>2, BindBlind DEF EnhInv, EnhancedDecisions
  <2>5. QED
    BY <2>3, <2>4 DEF EnhInv
<1>5. CASE Enhanced
  <2> DEFINE model == Trained({mem.study_enh} \cup Part("train") \cup EnhEvalSet)
  <2>1. cell = "enhanced" /\ cell' = "explain" /\ Bind([enhanced_model |-> model])
    BY <1>5 DEF Enhanced, Train, At, Goto
  <2>2. Blind(model, {"test"})
    <3>1. Blind(mem.study_enh, {"test"})
      BY <2>1 DEF EnhInv, DecidedBlind, EnhancedDecisions
    <3>2. \A v \in {mem.study_enh} \cup Part("train") \cup EnhEvalSet : Blind(v, {"test"})
      BY <1>1, <2>1, <3>1
    <3>3. QED
      BY <3>2, BlindMix
  <2>3. EnhKnown'
    BY <2>1 DEF EnhInv, Bind, Override
  <2>4. DecidedBlind(EnhancedDecisions, {"test"})'
    BY <2>1, <2>2, BindBlind DEF EnhInv, EnhancedDecisions
  <2>5. QED
    BY <2>3, <2>4 DEF EnhInv
<1>6. QED
  BY <1>2, <1>3, <1>4, <1>5

\* cells that bind nothing later cells of interest read
LEMMA EnhReports ==
  ASSUME EnhInv, EnhExplain \/ evaluate_enhanced_strategy \/ Latency \/ FbFrozen \/ FbDaily
  PROVE  EnhInv'
<1> USE DEF EnhKnown, BeforeRaw, BeforeRows, BeforeStudy, BeforeModel, BeforeScores,
             BeforeSelection, Is
<1>1. CASE EnhExplain
  <2>1. /\ cell = "explain" /\ cell' = "sweep"
        /\ Bind([shap_values_enh |-> Mix({mem.enhanced_model, mem.X["val"]})])
    BY <1>1 DEF EnhExplain, Compute, At, Goto
  <2>2. EnhKnown'
    BY <2>1 DEF EnhInv, Bind, Override
  <2>3. DecidedBlind(EnhancedDecisions, {"test"})'
    BY <2>1, BindBlind DEF EnhInv, EnhancedDecisions
  <2>4. QED
    BY <2>2, <2>3 DEF EnhInv
<1>2. CASE evaluate_enhanced_strategy
  <2> DEFINE probs == Mix({mem.enhanced_model, mem.X["test"]})
             records == Mix({probs, mem.df_curves_enh, mem.y["test"]})
  <2>1. /\ cell = "benchmark" /\ cell' = "latency"
        /\ Bind([test_probs_enh |-> probs, oot_benchmark_records |-> records])
    BY <1>2 DEF evaluate_enhanced_strategy, Compute, At, Goto
  <2> HIDE DEF probs, records
  <2>2. EnhKnown'
    BY <2>1 DEF EnhInv, Bind, Override
  <2>3. DecidedBlind(EnhancedDecisions, {"test"})'
    BY <2>1, BindBlind DEF EnhInv, EnhancedDecisions
  <2>4. QED
    BY <2>2, <2>3 DEF EnhInv
<1>3. CASE Latency
  <2>1. /\ cell = "latency" /\ cell' = "fb"
        /\ Bind([single_latencies_ms |-> Mix({mem.enhanced_model, mem.X["test"]})])
    BY <1>3 DEF Latency, Compute, At, Goto
  <2>2. EnhKnown'
    BY <2>1 DEF EnhInv, Bind, Override
  <2>3. DecidedBlind(EnhancedDecisions, {"test"})'
    BY <2>1, BindBlind DEF EnhInv, EnhancedDecisions
  <2>4. QED
    BY <2>2, <2>3 DEF EnhInv
<1>4. CASE FbFrozen
  <2>1. /\ cell = "fb_frozen" /\ cell' = "fb_daily"
        /\ Bind([fb_phase03_oot |->
                    Mix({mem.fb_thresh_records, mem.df_curves_enh, mem.fb_oot})])
    BY <1>4 DEF FbFrozen, Compute, At, Goto
  <2>2. EnhKnown'
    BY <2>1 DEF EnhInv, Bind, Override
  <2>3. DecidedBlind(EnhancedDecisions, {"test"})'
    BY <2>1, BindBlind DEF EnhInv, EnhancedDecisions
  <2>4. QED
    BY <2>2, <2>3 DEF EnhInv
<1>5. CASE FbDaily
  <2>1. /\ cell = "fb_daily" /\ cell' = "done"
        /\ Bind([fb_phase03_daily |-> Mix({mem.fb_thresh_records, mem.fb_oot})])
    BY <1>5 DEF FbDaily, Compute, At, Goto
  <2>2. EnhKnown'
    BY <2>1 DEF EnhInv, Bind, Override
  <2>3. DecidedBlind(EnhancedDecisions, {"test"})'
    BY <2>1, BindBlind DEF EnhInv, EnhancedDecisions
  <2>4. QED
    BY <2>2, <2>3 DEF EnhInv
<1>6. QED
  BY <1>1, <1>2, <1>3, <1>4, <1>5

\* thresholds are searched on validation rows
LEMMA EnhChooses ==
  ASSUME EnhInv, ThresholdSweep \/ FbProvenance \/ fb_thresh_records
  PROVE  EnhInv'
<1> USE DEF EnhKnown, BeforeRaw, BeforeRows, BeforeStudy, BeforeModel, BeforeScores,
             BeforeSelection, Is
<1>1. ASSUME cell \notin BeforeRows
      PROVE  Blind(mem.X["val"], {"test"}) /\ Blind(mem.y["val"], {"test"})
  BY <1>1, EnhPartsAreBlind DEF Part
<1>2. CASE ThresholdSweep
  <2> DEFINE probs == Mix({mem.enhanced_model, mem.X["val"]})
             curves == Mix({probs, mem.y["val"]})
  <2>1. /\ cell = "sweep" /\ cell' = "benchmark"
        /\ Bind([val_probs_enh |-> probs, df_curves_enh |-> curves])
    BY <1>2 DEF ThresholdSweep, Compute, At, Goto
  <2>2. Blind(mem.enhanced_model, {"test"})
    BY <2>1 DEF EnhInv, DecidedBlind, EnhancedDecisions
  <2>3. Blind(probs, {"test"})
    <3>1. \A v \in {mem.enhanced_model, mem.X["val"]} : Blind(v, {"test"})
      BY <1>1, <2>1, <2>2
    <3>2. QED
      BY <3>1, BlindMix
  <2>4. Blind(curves, {"test"})
    <3>1. \A v \in {probs, mem.y["val"]} : Blind(v, {"test"})
      BY <1>1, <2>1, <2>3
    <3>2. QED
      BY <3>1, BlindMix
  <2> HIDE DEF probs, curves
  <2>5. EnhKnown'
    BY <2>1, <2>3 DEF EnhInv, Bind, Override
  <2>6. DecidedBlind(EnhancedDecisions, {"test"})'
    BY <2>1, <2>4, BindBlind DEF EnhInv, EnhancedDecisions
  <2>7. QED
    BY <2>5, <2>6 DEF EnhInv
<1>3. CASE FbProvenance
  <2> DEFINE selection == Mix({mem.y["val"], mem.val_probs_enh})
             oot == Mix({mem.y["test"], mem.test_probs_enh})
  <2>1. /\ cell = "fb" /\ cell' = "fb_select"
        /\ Bind([fb_selection |-> selection, fb_oot |-> oot])
    BY <1>3 DEF FbProvenance, Compute, At, Goto
  <2>2. Blind(selection, {"test"})
    <3>1. \A v \in {mem.y["val"], mem.val_probs_enh} : Blind(v, {"test"})
      BY <1>1, <2>1 DEF EnhInv
    <3>2. QED
      BY <3>1, BlindMix
  <2> HIDE DEF selection, oot
  <2>3. EnhKnown'
    BY <2>1, <2>2 DEF EnhInv, Bind, Override
  <2>4. DecidedBlind(EnhancedDecisions, {"test"})'
    BY <2>1, BindBlind DEF EnhInv, EnhancedDecisions
  <2>5. QED
    BY <2>3, <2>4 DEF EnhInv
<1>4. CASE fb_thresh_records
  <2>1. /\ cell = "fb_select" /\ cell' = "fb_frozen"
        /\ Bind([fb_thresh_records |-> mem.fb_selection])
    BY <1>4 DEF fb_thresh_records, Compute, At, Goto
  <2>2. EnhKnown'
    BY <2>1 DEF EnhInv, Bind, Override
  <2>3. DecidedBlind(EnhancedDecisions, {"test"})'
    BY <2>1, BindBlind DEF EnhInv, EnhancedDecisions
  <2>4. QED
    BY <2>2, <2>3 DEF EnhInv
<1>5. QED
  BY <1>2, <1>3, <1>4

LEMMA EnhStarts ==
  ASSUME EnhancedInit
  PROVE  EnhInv
BY DEF EnhancedInit, NotebookInit, NoNames, EnhInv, EnhKnown, DecidedBlind, BeforeRaw,
       BeforeRows, BeforeStudy, BeforeModel, BeforeScores, BeforeSelection

LEMMA EnhSteps ==
  ASSUME EnhInv, EnhancedNext
  PROVE  EnhInv' /\ book' = book
<1>1. CASE KernelRestart("enhanced", "load")
  <2>1. cell' = "load" /\ mem' = NoNames /\ book' = "enhanced"
    BY <1>1 DEF KernelRestart
  <2>2. EnhInv'
    BY <2>1 DEF NoNames, EnhInv, EnhKnown, DecidedBlind, BeforeRaw, BeforeRows, BeforeStudy,
                BeforeModel, BeforeScores, BeforeSelection
  <2>3. QED
    BY <2>1, <2>2 DEF EnhancedNext
<1>2. CASE ~KernelRestart("enhanced", "load")
  <2>1. EnhInv'
    BY <1>2, EnhLoads, EnhTrains, EnhReports, EnhChooses DEF EnhancedNext
  <2>2. UNCHANGED book
    BY <1>2 DEF EnhancedNext, EnhLoad, build_enhanced_features, EnhPartitions, Anchor, Weighted,
       optuna_enhanced_objective, Enhanced, EnhExplain, ThresholdSweep,
       evaluate_enhanced_strategy, Latency, FbProvenance, fb_thresh_records, FbFrozen, FbDaily,
       Compute, Train, At
  <2>3. QED
    BY <2>1, <2>2
<1>3. QED
  BY <1>1, <1>2

------------------------------------------------------------------------------

\* The optimal model

OptX == [p \in OptStages |-> Featured(OptWindow, p)]
OptY == [p \in OptStages |-> Y(p)]

\* the cells that run before features and labels are split
OptBeforeRaw == {"config", "load", "split", "features"}
OptBeforeRows == OptBeforeRaw \cup {"partitions"}

OptRows ==
  /\ cell \notin OptBeforeRaw => Is("X_raw_fe") /\ mem.X_raw_fe = OptX
  /\ cell \notin OptBeforeRows => Is("X") /\ Is("y") /\ mem.X = OptX /\ mem.y = OptY

\* a value of one training, without labels of OOT rows
OfOne(v) == Blind(v, {"oot"}) /\ \E t : v.of = {t}

ModelFile(d) == disk[<<d, "model.json">>]
CalibratorFile(d) == disk[<<d, "calibrator.pkl">>]

(***************************************************************************)
(* In a directory: a calibrator's file is opened only after the model's    *)
(* was closed, the model's file only while there is no calibrator's; so a  *)
(* calibrator that was written to its end is of the model beside it.       *)
(***************************************************************************)
OptFilesIn(d) ==
  /\ OnDisk(d, "model.json") /\ ModelFile(d) # Torn => OfOne(ModelFile(d))
  /\ OnDisk(d, "calibrator.pkl") =>
       /\ OnDisk(d, "model.json") /\ ModelFile(d) # Torn
       /\ CalibratorFile(d) # Torn =>
            Blind(CalibratorFile(d), {"oot"}) /\ CalibratorFile(d).of = ModelFile(d).of

OptFiles == \A d \in {"root", "sub"} : OptFilesIn(d)

\* a champion is being trained and saved in this directory
OptFitted ==
  cell \in {"save", "calibrate", "dump"} =>
    /\ Is("fb_optimal_model") /\ OfOne(mem.fb_optimal_model)
    /\ OnDisk(cwd, "model.json")
    /\ cell # "save" => ModelFile(cwd) = mem.fb_optimal_model /\ ModelFile(cwd) # Torn
    /\ cell # "dump" => ~OnDisk(cwd, "calibrator.pkl")
    /\ cell = "dump" =>
         /\ OnDisk(cwd, "calibrator.pkl")
         /\ Is("fb_calibrator") /\ Blind(mem.fb_calibrator, {"oot"})
         /\ mem.fb_calibrator.of = mem.fb_optimal_model.of

\* scores to choose thresholds by, scores to report, and the thresholds
OptScored ==
  /\ cell \in {"select", "oot", "daily"} =>
       /\ Is("policy_prob") /\ OfOne(mem.policy_prob)
       /\ Is("oot_prob") /\ mem.oot_prob.of = mem.policy_prob.of
  /\ cell \in {"oot", "daily"} =>
       Is("fb_frozen_thresholds") /\ mem.fb_frozen_thresholds.of = mem.policy_prob.of

OptReported == Is("df_fb_phase04_oot") => \E t : mem.df_fb_phase04_oot.of = {t}

(***************************************************************************)
(* What is bound behind each cell of the optimal notebook, what its two    *)
(* directories hold, and what is being saved in this one.  A kernel can    *)
(* die between the cells, and while a file is open: the next one finds a   *)
(* model and a calibrator of one training, or is told by the error.        *)
(***************************************************************************)
OptInv ==
  /\ cwd \in {"root", "sub"}
  /\ OptRows /\ OptFiles /\ OptFitted /\ OptScored /\ OptReported
  /\ DecidedBlind(OptimalDecisions, {"oot"})

\* the rows before the OOT rows
LEMMA OptPartsAreBlind ==
  ASSUME OptRows, cell \notin OptBeforeRows
  PROVE  /\ \A p \in OptStages : Blind(mem.X[p], {"oot"}) /\ mem.X[p].of = {}
         /\ \A p \in OptStages : mem.y[p].of = {}
         /\ \A p \in OptStages \ {"oot"} : Blind(mem.y[p], {"oot"})
<1>1. mem.X = OptX /\ mem.y = OptY
  BY DEF OptRows
<1>2. \A p \in OptStages : mem.X[p] = Featured(OptWindow, p) /\ mem.y[p] = Y(p)
  BY <1>1 DEF OptX, OptY
<1>3. \A p \in OptStages :
        Blind(Featured(OptWindow, p), {"oot"}) /\ Featured(OptWindow, p).of = {}
  BY FeaturesAreBlind
<1>4. \A p \in OptStages : Y(p).of = {} /\ (p # "oot" => Blind(Y(p), {"oot"}))
  BY BlindRows
<1>5. QED
  BY <1>2, <1>3, <1>4

\* a model and its calibrator, and what they score
LEMMA PairScores ==
  ASSUME NEW m, NEW k, NEW x, OfOne(m), Blind(k, {"oot"}), k.of = m.of,
         Blind(x, {"oot"}), x.of = {}
  PROVE  OfOne(Mix({m, k, x})) /\ Mix({m, k, x}).of = m.of
<1>1. \A v \in {m, k, x} : Blind(v, {"oot"})
  BY DEF OfOne
<1>2. Blind(Mix({m, k, x}), {"oot"})
  BY <1>1, BlindMix
<1>3. Mix({m, k, x}).of = m.of \cup k.of \cup x.of
  BY Sources
<1>4. QED
  BY <1>2, <1>3 DEF OfOne

\* whatever is trained on such values is of that training
LEMMA FitsToOneTraining ==
  ASSUME NEW S, \A v \in S : Blind(v, {"oot"})
  PROVE  OfOne(Trained(S))
<1>1. Blind(Trained(S), {"oot"}) /\ Trained(S).of = {fits + 1}
  BY BlindMix, Sources
<1>2. QED
  BY <1>1 DEF OfOne

\* a file that is still open is no model
LEMMA TornIsOfNone ==
  /\ Torn.of = {} /\ \A P : Blind(Torn, P)
  /\ \A v : OfOne(v) => v # Torn
BY DEF Torn, From, OfOne, Blind

\* nothing but the memory, which keeps what it had, and the place change
LEMMA OptDiskKept ==
  ASSUME OptFiles, UNCHANGED disk
  PROVE  OptFiles'
BY DEF OptFiles, OptFilesIn, OnDisk, ModelFile, CalibratorFile, OfOne, Blind

\* cells that bind names the invariant does not speak of, and raising ones
LEMMA OptQuiet ==
  ASSUME OptInv, NEW next, NEW new, Bind(new), cell' = next, UNCHANGED <<cwd, disk>>,
         next \notin {"save", "calibrate", "dump", "select", "oot", "daily"},
         cell \in OptBeforeRows => next \in OptBeforeRaw,
         DOMAIN new \cap (OptimalDecisions \cup {"X_raw_fe", "X", "y", "df_fb_phase04_oot"}) = {}
  PROVE  OptInv'
<1>1. OptRows'
  BY Bound DEF OptInv, OptRows, Is, OptBeforeRows, OptBeforeRaw
<1>2. OptFiles'
  BY OptDiskKept DEF OptInv
<1>3. OptFitted' /\ OptScored'
  BY DEF OptFitted, OptScored
<1>4. OptReported'
  BY Bound DEF OptInv, OptReported, Is
<1>5. DecidedBlind(OptimalDecisions, {"oot"})'
  BY BindBlind DEF OptInv
<1>6. QED
  BY <1>1, <1>2, <1>3, <1>4, <1>5 DEF OptInv

\* the cells that read the data and split it
LEMMA OptLoads ==
  ASSUME OptInv, OptLoad \/ OptSplit \/ OptFeatures \/ OptPartitions
  PROVE  OptInv'
<1> USE DEF OptBeforeRaw, OptBeforeRows
<1>1. CASE OptLoad
  <2> DEFINE new == [df |-> [p \in OptStages |-> Mix({X(p), Y(p)})]]
  <2>1. cell = "load" /\ cell' = "split" /\ Bind(new) /\ UNCHANGED <<cwd, disk>>
    BY <1>1 DEF OptLoad, Compute, At, Goto, NoWrites
  <2>2. DOMAIN new = {"df"}
    OBVIOUS
  <2> HIDE DEF new
  <2>3. QED
    BY <2>1, <2>2, OptQuiet DEF OptimalDecisions
<1>2. CASE OptSplit
  <2> DEFINE new == [masks |-> OptWindow]
  <2>1. cell = "split" /\ cell' = "features" /\ Bind(new) /\ UNCHANGED <<cwd, disk>>
    BY <1>2 DEF OptSplit, Compute, At, Goto, NoWrites
  <2>2. DOMAIN new = {"masks"}
    OBVIOUS
  <2> HIDE DEF new
  <2>3. QED
    BY <2>1, <2>2, OptQuiet DEF OptimalDecisions
<1>3. CASE OptFeatures
  <2>1. /\ cell = "features" /\ cell' = "partitions" /\ Bind([X_raw_fe |-> OptX])
        /\ UNCHANGED <<cwd, disk>>
    BY <1>3 DEF OptFeatures, Compute, At, Goto, NoWrites, OptX
  <2>2. OptRows' /\ OptFitted' /\ OptScored' /\ OptReported'
    BY <2>1 DEF OptInv, OptRows, OptFitted, OptScored, OptReported, Is, Bind, Override
  <2>3. OptFiles'
    BY <2>1, OptDiskKept DEF OptInv
  <2>4. DecidedBlind(OptimalDecisions, {"oot"})'
    BY <2>1, BindBlind DEF OptInv, OptimalDecisions
  <2>5. QED
    BY <2>1, <2>2, <2>3, <2>4 DEF OptInv
<1>4. CASE OptPartitions
  <2>1. /\ cell = "partitions" /\ cell' = "resolve" /\ Bind([X |-> OptX, y |-> OptY])
        /\ UNCHANGED <<cwd, disk>>
    BY <1>4 DEF OptPartitions, Compute, At, Goto, NoWrites, OptY, OptInv, OptRows
  <2>2. OptRows' /\ OptFitted' /\ OptScored' /\ OptReported'
    BY <2>1 DEF OptInv, OptRows, OptFitted, OptScored, OptReported, Is, Bind, Override
  <2>3. OptFiles'
    BY <2>1, OptDiskKept DEF OptInv
  <2>4. DecidedBlind(OptimalDecisions, {"oot"})'
    BY <2>1, BindBlind DEF OptInv, OptimalDecisions
  <2>5. QED
    BY <2>1, <2>2, <2>3, <2>4 DEF OptInv
<1>5. QED
  BY <1>1, <1>2, <1>3, <1>4

\* writing another file leaves model and calibrator files alone
LEMMA OptOtherFile ==
  ASSUME OptFiles, NEW d, Write(d, "Artifact", "dir")
  PROVE  OptFiles'
<1>1. \A e, f : f # "Artifact" => <<e, f>> # <<d, "Artifact">>
  OBVIOUS
<1>2. \A e, f : f # "Artifact" =>
        /\ <<e, f>> \in DOMAIN disk' <=> <<e, f>> \in DOMAIN disk
        /\ <<e, f>> \in DOMAIN disk => disk'[<<e, f>>] = disk[<<e, f>>]
  <2>1. /\ DOMAIN disk' = DOMAIN disk \cup {<<d, "Artifact">>}
        /\ \A k \in DOMAIN disk : k # <<d, "Artifact">> => disk'[k] = disk[k]
    BY DEF Write, Put
  <2>2. QED
    BY <1>1, <2>1
<1>3. \A e : \A f \in {"model.json", "calibrator.pkl"} :
        /\ <<e, f>> \in DOMAIN disk' <=> <<e, f>> \in DOMAIN disk
        /\ <<e, f>> \in DOMAIN disk => disk'[<<e, f>>] = disk[<<e, f>>]
  BY <1>2
<1>4. QED
  BY <1>3 DEF OptFiles, OptFilesIn, ModelFile, CalibratorFile, OnDisk

\* a kernel of any directory configures itself
LEMMA OptConfigures ==
  ASSUME OptInv, OptConfig
  PROVE  OptInv'
<1>1. PICK out : /\ cell = "config" /\ cell' = "load" /\ Bind([out |-> out])
                 /\ Write(out, "Artifact", "dir") /\ UNCHANGED cwd
  BY DEF OptConfig, At, Goto
<1>2. OptRows' /\ OptFitted' /\ OptScored' /\ OptReported'
  BY <1>1 DEF OptInv, OptRows, OptFitted, OptScored, OptReported, OptBeforeRaw, OptBeforeRows,
              Is, Bind, Override
<1>3. OptFiles'
  BY <1>1, OptOtherFile DEF OptInv
<1>4. DecidedBlind(OptimalDecisions, {"oot"})'
  BY <1>1, BindBlind DEF OptInv, OptimalDecisions
<1>5. QED
  BY <1>1, <1>2, <1>3, <1>4 DEF OptInv

\* the first appended section binds scores nobody chooses thresholds by later
LEMMA OptResolves ==
  ASSUME OptInv, Resolve \/ FirstSelection
  PROVE  OptInv'
<1> USE DEF OptBeforeRaw, OptBeforeRows, OptimalDecisions
<1>1. CASE FirstSelection
  <2> DEFINE t == Mix({mem.y["policy"], mem.policy_prob})
             new == [fb_phase04_oot |-> Mix({t, mem.oot_prob, mem.y["oot"]})]
  <2>1. cell = "first" /\ cell' = "champion" /\ Bind(new) /\ UNCHANGED <<cwd, disk>>
    BY <1>1 DEF FirstSelection, Compute, At, Goto, NoWrites
  <2>2. DOMAIN new = {"fb_phase04_oot"}
    OBVIOUS
  <2> HIDE DEF t, new
  <2>3. QED
    BY <2>1, <2>2, OptQuiet
<1>2. ASSUME NEW m, NEW k, Take("resolve", "first", m, k)
      PROVE  OptInv'
  <2>1. CASE Raise("resolve")
    <3>1. DOMAIN NoNames = {}
      BY DEF NoNames
    <3>2. cell = "resolve" /\ cell' = "raised" /\ Bind(NoNames) /\ UNCHANGED <<cwd, disk>>
      BY <2>1 DEF Raise, Compute, At, Goto, NoWrites
    <3>3. QED
      BY <3>1, <3>2, OptQuiet
  <2>2. CASE Compute("resolve", "first", Calibrated(m, k))
    <3>1. DOMAIN Calibrated(m, k) = {"policy_prob", "oot_prob"}
      BY DEF Calibrated
    <3>2. /\ cell = "resolve" /\ cell' = "first" /\ Bind(Calibrated(m, k))
          /\ UNCHANGED <<cwd, disk>>
      BY <2>2 DEF Compute, At, Goto, NoWrites
    <3>3. QED
      BY <3>1, <3>2, OptQuiet
  <2>3. QED
    BY <1>2, <2>1, <2>2 DEF Take
<1>3. ASSUME Compute("resolve", "champion", NoNames)
      PROVE  OptInv'
  <2>1. DOMAIN NoNames = {}
    BY DEF NoNames
  <2>2. cell = "resolve" /\ cell' = "champion" /\ Bind(NoNames) /\ UNCHANGED <<cwd, disk>>
    BY <1>3 DEF Compute, At, Goto, NoWrites
  <2>3. QED
    BY <2>1, <2>2, OptQuiet
<1>4. QED
  BY <1>1, <1>2, <1>3 DEF Resolve

\* a cell writes to the directory it runs in
LEMMA OptFilesHere ==
  ASSUME OptFiles, OptFilesIn(cwd)', UNCHANGED cwd,
         \A d \in {"root", "sub"} \ {cwd} : \A f :
           /\ <<d, f>> \in DOMAIN disk' <=> <<d, f>> \in DOMAIN disk
           /\ <<d, f>> \in DOMAIN disk => disk'[<<d, f>>] = disk[<<d, f>>]
  PROVE  OptFiles'
<1> SUFFICES ASSUME NEW d \in {"root", "sub"} PROVE OptFilesIn(d)'
  BY DEF OptFiles
<1>1. CASE d = cwd
  BY <1>1
<1>2. CASE d # cwd
  <2>1. OptFilesIn(d)
    BY DEF OptFiles
  <2>2. \A f \in {"model.json", "calibrator.pkl"} :
          /\ <<d, f>> \in DOMAIN disk' <=> <<d, f>> \in DOMAIN disk
          /\ <<d, f>> \in DOMAIN disk => disk'[<<d, f>>] = disk[<<d, f>>]
    BY <1>2
  <2>3. QED
    BY <2>1, <2>2 DEF OptFilesIn, OnDisk, ModelFile, CalibratorFile
<1>3. QED
  BY <1>1, <1>2

\* one file of it changes
LEMMA WrittenHere ==
  ASSUME NEW f, NEW value, Write(cwd, f, value)
  PROVE  /\ <<cwd, f>> \in DOMAIN disk' /\ disk'[<<cwd, f>>] = value
         /\ \A d, g : d # cwd \/ g # f =>
              /\ <<d, g>> \in DOMAIN disk' <=> <<d, g>> \in DOMAIN disk
              /\ <<d, g>> \in DOMAIN disk => disk'[<<d, g>>] = disk[<<d, g>>]
<1>1. /\ DOMAIN disk' = DOMAIN disk \cup {<<cwd, f>>}
      /\ disk'[<<cwd, f>>] = value
      /\ \A k \in DOMAIN disk : k # <<cwd, f>> => disk'[k] = disk[k]
  BY DEF Write, Put
<1>2. \A d, g : d # cwd \/ g # f => <<d, g>> # <<cwd, f>>
  OBVIOUS
<1>3. QED
  BY <1>1, <1>2

\* a champion of this directory is loaded
LEMMA OptLoadsChampion ==
  ASSUME OptInv, Champion
  PROVE  OptInv'
<1> USE DEF OptBeforeRaw, OptBeforeRows
<1> DEFINE m == ModelFile(cwd) k == CalibratorFile(cwd)
<1>1. cell = "champion" /\ Saved("model.json") /\ Saved("calibrator.pkl") /\ Take("champion", "select", m, k)
  BY DEF Champion, Here, ModelFile, CalibratorFile
<1>2. CASE Torn \in {m, k}
  <2>1. Raise("champion")
    BY <1>1, <1>2 DEF Take
  <2>2. DOMAIN NoNames = {}
    BY DEF NoNames
  <2>3. cell' = "raised" /\ Bind(NoNames) /\ UNCHANGED <<cwd, disk>>
    BY <2>1 DEF Raise, Compute, At, Goto, NoWrites
  <2>4. QED
    BY <1>1, <2>2, <2>3, OptQuiet
<1>3. CASE Torn \notin {m, k}
  <2> DEFINE p == Mix({m, k, mem.X["policy"]}) o == Mix({m, k, mem.X["oot"]})
  <2>1. cell' = "select" /\ Bind([policy_prob |-> p, oot_prob |-> o]) /\ UNCHANGED <<cwd, disk>>
    BY <1>1, <1>3 DEF Take, Compute, At, Goto, NoWrites, Calibrated
  <2>2. OfOne(m) /\ Blind(k, {"oot"}) /\ k.of = m.of
    BY <1>1, <1>3 DEF OptInv, OptFiles, OptFilesIn, Saved, Here
  <2>3. \A v \in {mem.X["policy"], mem.X["oot"]} : Blind(v, {"oot"}) /\ v.of = {}
    BY <1>1, OptPartsAreBlind DEF OptInv, OptStages
  <2>4. OfOne(p) /\ p.of = m.of /\ o.of = m.of
    BY <2>2, <2>3, PairScores
  <2> HIDE DEF p, o, m, k
  <2>5. OptRows' /\ OptFitted' /\ OptScored' /\ OptReported'
    BY <1>1, <2>1, <2>4
       DEF OptInv, OptRows, OptFitted, OptScored, OptReported, Is, Bind, Override
  <2>6. OptFiles'
    BY <2>1, OptDiskKept DEF OptInv
  <2>7. DecidedBlind(OptimalDecisions, {"oot"})'
    BY <2>1, BindBlind DEF OptInv, OptimalDecisions
  <2>8. QED
    BY <2>1, <2>5, <2>6, <2>7 DEF OptInv
<1>4. QED
  BY <1>2, <1>3

\* one is trained; its file is opened, where there is no calibrator's
LEMMA OptTrainsChampion ==
  ASSUME OptInv, TrainChampion
  PROVE  OptInv'
<1> USE DEF OptBeforeRaw, OptBeforeRows
<1> DEFINE S == {mem.X["train"], mem.y["train"]} \cup ChampionEvalSet
           v == Trained(S)
<1>1. /\ cell = "champion" /\ cell' = "save" /\ UNCHANGED cwd
      /\ ~(OnDisk(cwd, "model.json") /\ OnDisk(cwd, "calibrator.pkl"))
      /\ Bind([fb_optimal_model |-> v])
      /\ disk' = Put(Put(disk, <<cwd, "Artifact">>, "dir"), <<cwd, "model.json">>, Torn)
  BY DEF TrainChampion, At, Goto, Saved, Here
<1>2. OfOne(v)
  <2>1. \A x \in S : Blind(x, {"oot"})
    BY <1>1, OptPartsAreBlind DEF OptInv, OptStages, ChampionEvalSet
  <2>2. QED
    BY <2>1, FitsToOneTraining
<1>3. ~OnDisk(cwd, "calibrator.pkl")
  BY <1>1 DEF OptInv, OptFiles, OptFilesIn
<1>4. /\ <<cwd, "model.json">> \in DOMAIN disk' /\ disk'[<<cwd, "model.json">>] = Torn
      /\ \A d, f : d # cwd \/ f \notin {"Artifact", "model.json"} =>
           /\ <<d, f>> \in DOMAIN disk' <=> <<d, f>> \in DOMAIN disk
           /\ <<d, f>> \in DOMAIN disk => disk'[<<d, f>>] = disk[<<d, f>>]
  <2> DEFINE a == Put(disk, <<cwd, "Artifact">>, "dir")
  <2>1. /\ DOMAIN a = DOMAIN disk \cup {<<cwd, "Artifact">>}
        /\ \A n \in DOMAIN disk : n # <<cwd, "Artifact">> => a[n] = disk[n]
    BY DEF Put
  <2>2. /\ DOMAIN disk' = DOMAIN a \cup {<<cwd, "model.json">>}
        /\ disk'[<<cwd, "model.json">>] = Torn
        /\ \A n \in DOMAIN a : n # <<cwd, "model.json">> => disk'[n] = a[n]
    BY <1>1 DEF Put
  <2> HIDE DEF a
  <2>3. \A d, f : d # cwd \/ f \notin {"Artifact", "model.json"} =>
          <<d, f>> # <<cwd, "Artifact">> /\ <<d, f>> # <<cwd, "model.json">>
    OBVIOUS
  <2>4. QED
    BY <2>1, <2>2, <2>3
<1> HIDE DEF v
<1>5. <<cwd, "calibrator.pkl">> \notin DOMAIN disk'
  BY <1>3, <1>4 DEF OnDisk
<1>6. OptFiles'
  <2>1. OptFilesIn(cwd)'
    BY <1>1, <1>4, <1>5 DEF OptFilesIn, OnDisk, ModelFile
  <2>2. QED
    BY <1>1, <1>4, <2>1, OptFilesHere DEF OptInv
<1>7. OptFitted'
  BY <1>1, <1>2, <1>4, <1>5 DEF OptFitted, Is, OnDisk, Bind, Override
<1>8. OptRows' /\ OptScored' /\ OptReported'
  BY <1>1 DEF OptInv, OptRows, OptScored, OptReported, Is, Bind, Override
<1>9. DecidedBlind(OptimalDecisions, {"oot"})'
  BY <1>1, <1>2, BindBlind DEF OptInv, OptimalDecisions, OfOne
<1>10. QED
  BY <1>1, <1>6, <1>7, <1>8, <1>9 DEF OptInv

\* the model is written to its end
LEMMA OptSavesChampion ==
  ASSUME OptInv, SaveChampion
  PROVE  OptInv'
<1> USE DEF OptBeforeRaw, OptBeforeRows
<1>1. /\ cell = "save" /\ cell' = "calibrate" /\ UNCHANGED <<cwd, mem>>
      /\ Write(cwd, "model.json", mem.fb_optimal_model)
  BY DEF SaveChampion, Close, At, Goto, Here
<1>2. /\ Is("fb_optimal_model") /\ OfOne(mem.fb_optimal_model)
      /\ <<cwd, "calibrator.pkl">> \notin DOMAIN disk
  BY <1>1 DEF OptInv, OptFitted, OnDisk
<1>3. /\ <<cwd, "model.json">> \in DOMAIN disk'
      /\ disk'[<<cwd, "model.json">>] = mem.fb_optimal_model
      /\ \A d, f : d # cwd \/ f # "model.json" =>
           /\ <<d, f>> \in DOMAIN disk' <=> <<d, f>> \in DOMAIN disk
           /\ <<d, f>> \in DOMAIN disk => disk'[<<d, f>>] = disk[<<d, f>>]
  BY <1>1, WrittenHere
<1>4. mem.fb_optimal_model # Torn
  BY <1>2, TornIsOfNone
<1>5. OptFiles'
  <2>1. OptFilesIn(cwd)'
    BY <1>1, <1>2, <1>3 DEF OptFilesIn, OnDisk, ModelFile
  <2>2. QED
    BY <1>1, <1>3, <2>1, OptFilesHere DEF OptInv
<1>6. OptFitted'
  BY <1>1, <1>2, <1>3, <1>4 DEF OptFitted, Is, OnDisk, ModelFile
<1>7. OptRows' /\ OptScored' /\ OptReported'
  BY <1>1 DEF OptInv, OptRows, OptScored, OptReported, Is
<1>8. DecidedBlind(OptimalDecisions, {"oot"})'
  BY <1>1, KeepBlind DEF OptInv
<1>9. QED
  BY <1>1, <1>5, <1>6, <1>7, <1>8 DEF OptInv

\* a calibrator is fitted to its scores, and its file opened
LEMMA OptFitsCalibrator ==
  ASSUME OptInv, FitCalibrator
  PROVE  OptInv'
<1> USE DEF OptBeforeRaw, OptBeforeRows
<1> DEFINE k == Mix({mem.fb_optimal_model, mem.X["calib"], mem.y["calib"]})
<1>1. /\ cell = "calibrate" /\ cell' = "dump" /\ UNCHANGED cwd
      /\ Bind([fb_calibrator |-> k]) /\ Write(cwd, "calibrator.pkl", Torn)
  BY DEF FitCalibrator, At, Goto, Here
<1>2. /\ Is("fb_optimal_model") /\ OfOne(mem.fb_optimal_model)
      /\ <<cwd, "model.json">> \in DOMAIN disk
      /\ disk[<<cwd, "model.json">>] = mem.fb_optimal_model
      /\ mem.fb_optimal_model # Torn
  BY <1>1 DEF OptInv, OptFitted, OnDisk, ModelFile
<1>3. Blind(k, {"oot"}) /\ k.of = mem.fb_optimal_model.of
  <2>1. /\ \A x \in {mem.X["calib"], mem.y["calib"]} : Blind(x, {"oot"}) /\ x.of = {}
    BY <1>1, OptPartsAreBlind DEF OptInv, OptStages
  <2>2. Blind(k, {"oot"})
    <3>1. \A x \in {mem.fb_optimal_model, mem.X["calib"], mem.y["calib"]} : Blind(x, {"oot"})
      BY <1>2, <2>1 DEF OfOne
    <3>2. QED
      BY <3>1, BlindMix
  <2>3. k.of = mem.fb_optimal_model.of \cup mem.X["calib"].of \cup mem.y["calib"].of
    BY Sources
  <2>4. QED
    BY <2>1, <2>2, <2>3
<1> HIDE DEF k
<1>4. /\ <<cwd, "calibrator.pkl">> \in DOMAIN disk' /\ disk'[<<cwd, "calibrator.pkl">>] = Torn
      /\ \A d, f : d # cwd \/ f # "calibrator.pkl" =>
           /\ <<d, f>> \in DOMAIN disk' <=> <<d, f>> \in DOMAIN disk
           /\ <<d, f>> \in DOMAIN disk => disk'[<<d, f>>] = disk[<<d, f>>]
  BY <1>1, WrittenHere
<1>5. /\ <<cwd, "model.json">> \in DOMAIN disk'
      /\ disk'[<<cwd, "model.json">>] = mem.fb_optimal_model
  BY <1>2, <1>4
<1>6. OptFiles'
  <2>1. OptFilesIn(cwd)'
    BY <1>1, <1>2, <1>4, <1>5 DEF OptFilesIn, OnDisk, ModelFile, CalibratorFile
  <2>2. QED
    BY <1>1, <1>4, <2>1, OptFilesHere DEF OptInv
<1>7. OptFitted'
  <2>1. /\ "fb_optimal_model" \in DOMAIN mem'
        /\ mem'["fb_optimal_model"] = mem.fb_optimal_model
        /\ "fb_calibrator" \in DOMAIN mem' /\ mem'["fb_calibrator"] = k
    BY <1>1, <1>2 DEF Is, Bind, Override
  <2>2. QED
    BY <1>1, <1>2, <1>3, <1>4, <1>5, <2>1 DEF OptFitted, Is, OnDisk, ModelFile
<1>8. OptRows' /\ OptScored' /\ OptReported'
  BY <1>1 DEF OptInv, OptRows, OptScored, OptReported, Is, Bind, Override
<1>9. DecidedBlind(OptimalDecisions, {"oot"})'
  BY <1>1, <1>3, BindBlind DEF OptInv, OptimalDecisions
<1>10. QED
  BY <1>1, <1>6, <1>7, <1>8, <1>9 DEF OptInv

\* the calibrator is written to its end
LEMMA OptDumpsCalibrator ==
  ASSUME OptInv, DumpCalibrator
  PROVE  OptInv'
<1> USE DEF OptBeforeRaw, OptBeforeRows
<1> DEFINE m == mem.fb_optimal_model k == mem.fb_calibrator
           p == Mix({m, k, mem.X["policy"]}) o == Mix({m, k, mem.X["oot"]})
<1>1. /\ cell = "dump" /\ cell' = "select" /\ UNCHANGED cwd
      /\ Bind([policy_prob |-> p, oot_prob |-> o]) /\ Write(cwd, "calibrator.pkl", k)
  BY DEF DumpCalibrator, At, Goto, Here, Calibrated
<1>2. /\ OfOne(m) /\ Blind(k, {"oot"}) /\ k.of = m.of
      /\ <<cwd, "model.json">> \in DOMAIN disk
      /\ disk[<<cwd, "model.json">>] = m /\ m # Torn
  BY <1>1 DEF OptInv, OptFitted, OnDisk, ModelFile
<1>3. OfOne(p) /\ p.of = m.of /\ o.of = m.of
  <2>1. \A v \in {mem.X["policy"], mem.X["oot"]} : Blind(v, {"oot"}) /\ v.of = {}
    BY <1>1, OptPartsAreBlind DEF OptInv, OptStages
  <2>2. QED
    BY <1>2, <2>1, PairScores
<1>4. /\ <<cwd, "calibrator.pkl">> \in DOMAIN disk' /\ disk'[<<cwd, "calibrator.pkl">>] = k
      /\ \A d, f : d # cwd \/ f # "calibrator.pkl" =>
           /\ <<d, f>> \in DOMAIN disk' <=> <<d, f>> \in DOMAIN disk
           /\ <<d, f>> \in DOMAIN disk => disk'[<<d, f>>] = disk[<<d, f>>]
  BY <1>1, WrittenHere
<1> HIDE DEF p, o, m, k
<1>5. <<cwd, "model.json">> \in DOMAIN disk' /\ disk'[<<cwd, "model.json">>] = m
  BY <1>2, <1>4
<1>6. OptFiles'
  <2>1. OptFilesIn(cwd)'
    BY <1>1, <1>2, <1>4, <1>5 DEF OptFilesIn, OnDisk, ModelFile, CalibratorFile
  <2>2. QED
    BY <1>1, <1>4, <2>1, OptFilesHere DEF OptInv
<1>7. OptRows' /\ OptFitted' /\ OptScored' /\ OptReported'
  BY <1>1, <1>3 DEF OptInv, OptRows, OptFitted, OptScored, OptReported, Is, Bind, Override
<1>8. DecidedBlind(OptimalDecisions, {"oot"})'
  BY <1>1, BindBlind DEF OptInv, OptimalDecisions
<1>9. QED
  BY <1>1, <1>6, <1>7, <1>8 DEF OptInv

\* thresholds are chosen, and the OOT rows scored by the same pair
LEMMA OptEvaluates ==
  ASSUME OptInv, SelectThresholds \/ EvaluateOot \/ EvaluateDaily
  PROVE  OptInv'
<1> USE DEF OptBeforeRaw, OptBeforeRows
<1>1. CASE SelectThresholds
  <2> DEFINE t == Mix({mem.y["policy"], mem.policy_prob})
  <2>1. /\ cell = "select" /\ cell' = "oot" /\ Bind([fb_frozen_thresholds |-> t])
        /\ UNCHANGED <<cwd, disk>>
    BY <1>1 DEF SelectThresholds, Compute, At, Goto, NoWrites
  <2>2. Blind(t, {"oot"}) /\ t.of = mem.policy_prob.of
    <3>1. Blind(mem.y["policy"], {"oot"}) /\ mem.y["policy"].of = {}
      BY <2>1, OptPartsAreBlind DEF OptInv, OptStages
    <3>2. Blind(mem.policy_prob, {"oot"})
      BY <2>1 DEF OptInv, OptScored, OfOne
    <3>3. \A x \in {mem.y["policy"], mem.policy_prob} : Blind(x, {"oot"})
      BY <3>1, <3>2
    <3>4. t.of = mem.y["policy"].of \cup mem.policy_prob.of
      BY Sources
    <3>5. QED
      BY <3>1, <3>3, <3>4, BlindMix
  <2> HIDE DEF t
  <2>3. OptRows' /\ OptFitted' /\ OptScored' /\ OptReported'
    BY <2>1, <2>2 DEF OptInv, OptRows, OptFitted, OptScored, OptReported, Is, Bind, Override
  <2>4. OptFiles'
    BY <2>1, OptDiskKept DEF OptInv
  <2>5. DecidedBlind(OptimalDecisions, {"oot"})'
    BY <2>1, <2>2, BindBlind DEF OptInv, OptimalDecisions
  <2>6. QED
    BY <2>1, <2>3, <2>4, <2>5 DEF OptInv
<1>2. CASE EvaluateOot
  <2> DEFINE r == Mix({mem.fb_frozen_thresholds, mem.oot_prob, mem.y["oot"]})
  <2>1. /\ cell = "oot" /\ cell' = "daily" /\ Bind([df_fb_phase04_oot |-> r])
        /\ UNCHANGED <<cwd, disk>>
    BY <1>2 DEF EvaluateOot, Compute, At, Goto, NoWrites
  <2>2. r.of = mem.policy_prob.of
    <3>1. mem.y["oot"].of = {}
      BY <2>1, OptPartsAreBlind DEF OptInv, OptStages
    <3>2. mem.fb_frozen_thresholds.of = mem.policy_prob.of /\ mem.oot_prob.of = mem.policy_prob.of
      BY <2>1 DEF OptInv, OptScored
    <3>3. r.of = mem.fb_frozen_thresholds.of \cup mem.oot_prob.of \cup mem.y["oot"].of
      BY Sources
    <3>4. QED
      BY <3>1, <3>2, <3>3
  <2>3. \E t : r.of = {t}
    BY <2>1, <2>2 DEF OptInv, OptScored, OfOne
  <2> HIDE DEF r
  <2>4. OptRows' /\ OptFitted' /\ OptScored' /\ OptReported'
    BY <2>1, <2>3 DEF OptInv, OptRows, OptFitted, OptScored, OptReported, Is, Bind, Override
  <2>5. OptFiles'
    BY <2>1, OptDiskKept DEF OptInv
  <2>6. DecidedBlind(OptimalDecisions, {"oot"})'
    BY <2>1, BindBlind DEF OptInv, OptimalDecisions
  <2>7. QED
    BY <2>1, <2>4, <2>5, <2>6 DEF OptInv
<1>3. CASE EvaluateDaily
  <2> DEFINE new == [df_fb_daily_oot |->
                       Mix({mem.fb_frozen_thresholds, mem.oot_prob, mem.y["oot"]})]
  <2>1. cell = "daily" /\ cell' = "done" /\ Bind(new) /\ UNCHANGED <<cwd, disk>>
    BY <1>3 DEF EvaluateDaily, Compute, At, Goto, NoWrites
  <2>2. DOMAIN new = {"df_fb_daily_oot"}
    OBVIOUS
  <2> HIDE DEF new
  <2>3. QED
    BY <2>1, <2>2, OptQuiet DEF OptimalDecisions
<1>4. QED
  BY <1>1, <1>2, <1>3

LEMMA OptStarts ==
  ASSUME OptimalInit
  PROVE  OptInv
<1> DEFINE old == [f \in {"root"} \X {"Artifact", "model.json", "calibrator.pkl"} |->
                     IF f[2] = "Artifact" THEN "dir" ELSE From({}, {0})]
<1>1. /\ cell = "config" /\ mem = NoNames /\ cwd \in {"root", "sub"}
      /\ disk = NoNames \/ disk = old
  BY DEF OptimalInit, NotebookInit
<1>2. OptFiles
  <2>1. CASE disk = NoNames
    BY <2>1 DEF NoNames, OptFiles, OptFilesIn, OnDisk
  <2>2. CASE disk = old
    <3>1. /\ \A d, f : <<d, f>> \in DOMAIN disk => d = "root"
          /\ \A f \in {"model.json", "calibrator.pkl"} :
               <<"root", f>> \in DOMAIN disk /\ disk[<<"root", f>>] = From({}, {0})
      BY <2>2
    <3>2. OfOne(From({}, {0})) /\ Blind(From({}, {0}), {"oot"})
      BY DEF OfOne, Blind, From
    <3>3. From({}, {0}) # Torn
      BY <3>2, TornIsOfNone
    <3>4. QED
      BY <3>1, <3>2, <3>3 DEF OptFiles, OptFilesIn, OnDisk, ModelFile, CalibratorFile
  <2>3. QED
    BY <1>1, <2>1, <2>2
<1>3. DOMAIN mem = {}
  BY <1>1 DEF NoNames
<1>4. QED
  BY <1>1, <1>2, <1>3 DEF OptInv, OptRows, OptFitted, OptScored, OptReported, DecidedBlind,
     Is, OptBeforeRaw, OptBeforeRows

LEMMA OptSteps ==
  ASSUME OptInv, OptimalNext
  PROVE  OptInv' /\ book' = book
<1>1. CASE KernelRestart("optimal", "config")
  <2>1. /\ cell' = "config" /\ mem' = NoNames /\ cwd' \in {"root", "sub"}
        /\ book' = "optimal" /\ UNCHANGED disk
    BY <1>1 DEF KernelRestart
  <2>2. DOMAIN mem' = {}
    BY <2>1 DEF NoNames
  <2>3. OptFiles'
    BY <2>1, OptDiskKept DEF OptInv
  <2>4. OptInv'
    BY <2>1, <2>2, <2>3 DEF OptInv, OptRows, OptFitted, OptScored, OptReported, DecidedBlind,
       Is, OptBeforeRaw, OptBeforeRows
  <2>5. QED
    BY <2>1, <2>4 DEF OptimalNext
<1>2. CASE ~KernelRestart("optimal", "config")
  <2>1. OptInv'
    BY <1>2, OptConfigures, OptLoads, OptResolves, OptLoadsChampion, OptTrainsChampion,
       OptSavesChampion, OptFitsCalibrator, OptDumpsCalibrator, OptEvaluates DEF OptimalNext
  <2>2. UNCHANGED book
    BY <1>2 DEF OptimalNext, OptConfig, OptLoad, OptSplit, OptFeatures, OptPartitions, Resolve,
       FirstSelection, Champion, TrainChampion, SaveChampion, FitCalibrator, DumpCalibrator,
       SelectThresholds, EvaluateOot, EvaluateDaily, Take, Raise, Compute, Close, At
  <2>3. QED
    BY <2>1, <2>2
<1>3. QED
  BY <1>1, <1>2

------------------------------------------------------------------------------

\* The decision tree

TreeVersionsOK == restarts \in Nat /\ TreeVersions \in Seq([kernel : Nat])

ResultsFile(d) == disk[<<d, Results>>]
TreeFilesOK ==
  \A d \in {"root", "sub"} :
    OnDisk(d, Results) =>
      \A v \in ResultsFile(d).mlflow :
        v \in DOMAIN TreeVersions /\ TreeVersions[v].kernel = ResultsFile(d).kernel

\* the metrics in memory are this kernel's, and so is the version it registered
TreeMeasured ==
  /\ cell \in {"dump", "register", "update", "dump_update"} =>
       Is("results") /\ mem.results = Measured
  /\ cell \in {"update", "dump_update"} =>
       /\ Is("MLFLOW_RESULT") /\ mem.MLFLOW_RESULT \in DOMAIN TreeVersions
       /\ TreeVersions[mem.MLFLOW_RESULT].kernel = restarts

(***************************************************************************)
(* The results in each directory were measured by the kernel that          *)
(* registered the version they name, for kernels count up and the metrics  *)
(* in memory are this kernel's.                                            *)
(***************************************************************************)
TreeInv == cwd \in {"root", "sub"} /\ TreeVersionsOK /\ TreeFilesOK /\ TreeMeasured

\* a results file is written: the versions stay, and the other file
LEMMA ResultsWritten ==
  ASSUME NEW value, Write(cwd, Results, value)
  PROVE  /\ TreeVersions' = TreeVersions
         /\ <<cwd, Results>> \in DOMAIN disk' /\ disk'[<<cwd, Results>>] = value
         /\ \A d : d # cwd => /\ OnDisk(d, Results)' <=> OnDisk(d, Results)
                              /\ OnDisk(d, Results) => ResultsFile(d)' = ResultsFile(d)
<1>1. /\ <<cwd, Results>> \in DOMAIN disk' /\ disk'[<<cwd, Results>>] = value
      /\ \A d, g : d # cwd \/ g # Results =>
           /\ <<d, g>> \in DOMAIN disk' <=> <<d, g>> \in DOMAIN disk
           /\ <<d, g>> \in DOMAIN disk => disk'[<<d, g>>] = disk[<<d, g>>]
  BY WrittenHere
<1>2. RegisteredName # Results
  BY DEF RegisteredName, Results
<1>3. TreeVersions' = TreeVersions
  BY <1>1, <1>2 DEF TreeVersions, OnDisk
<1>4. \A d : d # cwd =>
        /\ <<d, Results>> \in DOMAIN disk' <=> <<d, Results>> \in DOMAIN disk
        /\ <<d, Results>> \in DOMAIN disk => disk'[<<d, Results>>] = disk[<<d, Results>>]
  BY <1>1
<1>5. ASSUME NEW d, d # cwd
      PROVE  /\ OnDisk(d, Results)' <=> OnDisk(d, Results)
             /\ OnDisk(d, Results) => ResultsFile(d)' = ResultsFile(d)
  BY <1>4, <1>5 DEF OnDisk, ResultsFile
<1>6. QED
  BY <1>1, <1>3, <1>5

\* what is written names a version of this kernel, if any
LEMMA TreeWritesResults ==
  ASSUME TreeInv, NEW value, Write(cwd, Results, value), UNCHANGED <<cwd, restarts>>,
         \A v \in value.mlflow :
           v \in DOMAIN TreeVersions /\ TreeVersions[v].kernel = value.kernel
  PROVE  (cwd \in {"root", "sub"} /\ TreeVersionsOK /\ TreeFilesOK)'
<1>1. TreeVersions' = TreeVersions
  BY ResultsWritten
<1>2. TreeVersionsOK'
  BY <1>1 DEF TreeInv, TreeVersionsOK
<1>3. TreeFilesOK'
  <2> SUFFICES ASSUME NEW d \in {"root", "sub"}, OnDisk(d, Results)',
                      NEW v \in ResultsFile(d)'.mlflow
               PROVE  /\ v \in DOMAIN TreeVersions
                      /\ TreeVersions[v].kernel = ResultsFile(d)'.kernel
    BY <1>1 DEF TreeFilesOK
  <2>1. CASE d = cwd
    <3>1. ResultsFile(d)' = value
      BY <2>1, ResultsWritten DEF ResultsFile
    <3>2. QED
      BY <3>1
  <2>2. CASE d # cwd
    BY <2>2, ResultsWritten DEF TreeInv, TreeFilesOK
  <2>3. QED
    BY <2>1, <2>2
<1>4. QED
  BY <1>2, <1>3 DEF TreeInv

LEMMA TreeDiskKept ==
  ASSUME TreeInv, UNCHANGED <<cwd, restarts, disk>>
  PROVE  (cwd \in {"root", "sub"} /\ TreeVersionsOK /\ TreeFilesOK)' /\ TreeVersions' = TreeVersions
BY DEF TreeInv, TreeVersionsOK, TreeFilesOK, TreeVersions, ResultsFile, OnDisk

\* cells that measure or fail, and write nothing
LEMMA TreeComputes ==
  ASSUME TreeInv, build_step2_features \/ Ablation \/ WalkForward \/ ExplainTree
                  \/ BaselineThreshold \/ FinalModel \/ Raise("register")
  PROVE  TreeInv'
<1>1. UNCHANGED <<cwd, restarts, disk>>
  BY DEF build_step2_features, Ablation, WalkForward, ExplainTree, BaselineThreshold, FinalModel,
         Raise, Compute, At, NoWrites
<1>2. cell' \notin {"dump", "register", "update", "dump_update"}
  BY DEF build_step2_features, Ablation, WalkForward, ExplainTree, BaselineThreshold, FinalModel,
         Raise, Compute, Goto
<1>3. QED
  BY <1>1, <1>2, TreeDiskKept DEF TreeInv, TreeMeasured

\* the results before and after the registration
LEMMA TreeSaves ==
  ASSUME TreeInv, OpenResults \/ SaveResults \/ OpenUpdate \/ UpdateResults
  PROVE  TreeInv'
<1>1. CASE OpenResults
  <2>1. /\ cell' = "dump" /\ Bind([results |-> Measured]) /\ Write(cwd, Results, TornFile)
        /\ UNCHANGED <<cwd, restarts>>
    BY <1>1 DEF OpenResults, At, Goto
  <2>2. TornFile.mlflow = {}
    BY DEF TornFile
  <2>3. TreeMeasured'
    BY <2>1 DEF TreeMeasured, Is, Bind, Override, Measured
  <2>4. QED
    BY <2>1, <2>2, <2>3, TreeWritesResults DEF TreeInv
<1>2. CASE SaveResults
  <2>1. /\ cell = "dump" /\ cell' = "register" /\ Write(cwd, Results, mem.results)
        /\ UNCHANGED <<cwd, mem, restarts>>
    BY <1>2 DEF SaveResults, Close, At, Goto
  <2>2. Is("results") /\ mem.results = Measured
    BY <2>1 DEF TreeInv, TreeMeasured
  <2>3. mem.results.mlflow = {}
    BY <2>2 DEF Measured
  <2>4. TreeMeasured'
    BY <2>1, <2>2 DEF TreeMeasured, Is, Measured
  <2>5. QED
    BY <2>1, <2>3, <2>4, TreeWritesResults DEF TreeInv
<1>3. CASE OpenUpdate
  <2>1. /\ cell = "update" /\ cell' = "dump_update" /\ Write(cwd, Results, TornFile)
        /\ UNCHANGED <<cwd, mem, restarts>>
    BY <1>3 DEF OpenUpdate, OpenJson, At, Goto
  <2>2. TornFile.mlflow = {}
    BY DEF TornFile
  <2>3. TreeVersions' = TreeVersions
    BY <2>1, ResultsWritten
  <2>4. TreeMeasured'
    BY <2>1, <2>3 DEF TreeInv, TreeMeasured, Is, Measured
  <2>5. QED
    BY <2>1, <2>2, <2>4, TreeWritesResults DEF TreeInv
<1>4. CASE UpdateResults
  <2> DEFINE value == [mem.results EXCEPT !.mlflow = {mem.MLFLOW_RESULT}]
  <2>1. /\ cell = "dump_update" /\ cell' = "done" /\ Write(cwd, Results, value)
        /\ UNCHANGED <<cwd, mem, restarts>>
    BY <1>4 DEF UpdateResults, Close, At, Goto
  <2>2. /\ mem.results = Measured /\ mem.MLFLOW_RESULT \in DOMAIN TreeVersions
        /\ TreeVersions[mem.MLFLOW_RESULT].kernel = restarts
    BY <2>1 DEF TreeInv, TreeMeasured
  <2>3. value.mlflow = {mem.MLFLOW_RESULT} /\ value.kernel = restarts
    BY <2>2 DEF Measured
  <2> HIDE DEF value
  <2>4. TreeMeasured'
    BY <2>1 DEF TreeMeasured
  <2>5. QED
    BY <2>1, <2>2, <2>3, <2>4, TreeWritesResults DEF TreeInv
<1>5. QED
  BY <1>1, <1>2, <1>3, <1>4

\* a version is appended: the ones the files name stay what they are
LEMMA TreeRegisters ==
  ASSUME TreeInv, register_sklearn_model
  PROVE  TreeInv'
<1>1. CASE Raise("register")
  BY <1>1, TreeComputes
<1>2. CASE ~Raise("register")
  <2> DEFINE n == Len(TreeVersions) + 1
             version == [kernel |-> restarts]
             all == Append(TreeVersions, version)
  <2>1. /\ cell = "register" /\ cell' = "update" /\ Bind([MLFLOW_RESULT |-> n])
        /\ Write("mlflow", RegisteredName, all) /\ UNCHANGED <<cwd, restarts>>
    BY <1>2 DEF register_sklearn_model, At, Goto
  <2>2. restarts \in Nat /\ TreeVersions \in Seq([kernel : Nat]) /\ version \in [kernel : Nat]
    BY DEF TreeInv, TreeVersionsOK
  <2>3. /\ all \in Seq([kernel : Nat]) /\ DOMAIN all = 1..n /\ n \in 1..n
        /\ DOMAIN TreeVersions = 1..(n - 1)
        /\ all[n] = version /\ \A i \in 1..(n - 1) : all[i] = TreeVersions[i]
    BY <2>2
  <2>4. RegisteredName # Results
    BY DEF RegisteredName, Results
  <2>5. /\ <<"mlflow", RegisteredName>> \in DOMAIN disk'
        /\ disk'[<<"mlflow", RegisteredName>>] = all
        /\ \A d : /\ <<d, Results>> \in DOMAIN disk' <=> <<d, Results>> \in DOMAIN disk
                  /\ <<d, Results>> \in DOMAIN disk =>
                       disk'[<<d, Results>>] = disk[<<d, Results>>]
    <3>1. \A d : <<d, Results>> # <<"mlflow", RegisteredName>>
      BY <2>4
    <3>2. disk' = Put(disk, <<"mlflow", RegisteredName>>, all)
      BY <2>1 DEF Write
    <3> HIDE DEF all
    <3>3. QED
      BY <3>1, <3>2 DEF Put
  <2>6. TreeVersions' = all
    BY <2>5 DEF TreeVersions, OnDisk
  <2> HIDE DEF all
  <2>7. TreeVersionsOK'
    BY <2>1, <2>2, <2>3, <2>6 DEF TreeVersionsOK
  <2>8. TreeFilesOK'
    <3>1. \A v \in DOMAIN TreeVersions : v \in DOMAIN all /\ all[v] = TreeVersions[v]
      BY <2>2, <2>3
    <3>2. QED
      BY <2>5, <2>6, <3>1 DEF TreeInv, TreeFilesOK, OnDisk, ResultsFile
  <2>9. TreeMeasured'
    <3>1. all[n].kernel = restarts
      BY <2>3
    <3> HIDE DEF n
    <3>2. /\ "MLFLOW_RESULT" \in DOMAIN mem' /\ mem'["MLFLOW_RESULT"] = n
          /\ "results" \in DOMAIN mem' /\ mem'["results"] = mem["results"]
          /\ mem["results"] = Measured
      BY <2>1 DEF TreeInv, TreeMeasured, Is, Bind, Override
    <3>3. QED
      BY <2>1, <2>3, <2>6, <3>1, <3>2 DEF TreeMeasured, Is, Measured
  <2>10. QED
    BY <2>1, <2>7, <2>8, <2>9 DEF TreeInv
<1>3. QED
  BY <1>1, <1>2

LEMMA TreeStarts ==
  ASSUME TreeInit
  PROVE  TreeInv
<1>1. /\ cell = "features" /\ disk = NoNames /\ cwd \in {"root", "sub"} /\ restarts = 0
  BY DEF TreeInit, NotebookInit
<1>2. DOMAIN disk = {}
  BY <1>1 DEF NoNames
<1>3. TreeVersions = <<>>
  BY <1>2 DEF TreeVersions, OnDisk
<1>4. QED
  BY <1>1, <1>2, <1>3 DEF TreeInv, TreeVersionsOK, TreeFilesOK, TreeMeasured, OnDisk

LEMMA TreeSteps ==
  ASSUME TreeInv, TreeNext
  PROVE  TreeInv' /\ book' = book
<1>1. CASE KernelRestart("tree", "features")
  <2>1. /\ cell' = "features" /\ cwd' \in {"root", "sub"} /\ book' = "tree"
        /\ restarts' = restarts + 1 /\ UNCHANGED disk
    BY <1>1 DEF KernelRestart
  <2>2. TreeVersions' = TreeVersions
    BY <2>1 DEF TreeVersions, OnDisk
  <2>3. TreeVersionsOK' /\ TreeMeasured'
    BY <2>1, <2>2 DEF TreeInv, TreeVersionsOK, TreeMeasured
  <2>4. TreeFilesOK'
    BY <2>1, <2>2 DEF TreeInv, TreeFilesOK, OnDisk, ResultsFile
  <2>5. QED
    BY <2>1, <2>3, <2>4 DEF TreeInv, TreeNext
<1>2. CASE ~KernelRestart("tree", "features")
  <2>1. TreeInv'
    BY <1>2, TreeComputes, TreeSaves, TreeRegisters DEF TreeNext
  <2>2. UNCHANGED book
    BY <1>2 DEF TreeNext, build_step2_features, Ablation, WalkForward, ExplainTree,
       BaselineThreshold, FinalModel, OpenResults, SaveResults, register_sklearn_model,
       OpenUpdate, OpenJson, UpdateResults, Raise, Compute, Close, At
  <2>3. QED
    BY <2>1, <2>2
<1>3. QED
  BY <1>1, <1>2

LEMMA TreeResultsMatch ==
  ASSUME TreeInv
  PROVE  ResultsNameTheirModel
BY DEF TreeInv, TreeFilesOK, ResultsFile, ResultsNameTheirModel

------------------------------------------------------------------------------

\* The comparison

\* the labels v was fitted to are of these rows, those it is encoded with of early ones
Within(v, rows) ==
  /\ \A f \in v.facts : f[2] = "y" => f[1] \in rows
  /\ \A f \in v.facts : f[2] = "te" => f[1] \in Steps(1, 480)

\* neither labels v was fitted to nor labels it is encoded with are of P
Apart(v, P) == \A f \in v.facts : f[2] \in {"y", "te"} => f[1] \notin P

\* what TestRowsUnseen says of a value that decides in u
BlindIn(v, u) ==
  /\ Blind(v, all_universe_splits[u].test_ids)
  /\ u \notin EncodesTestRows => Apart(v, all_universe_splits[u].test_ids)

LEMMA BlindInMix ==
  ASSUME NEW S, NEW u, \A v \in S : BlindIn(v, u)
  PROVE  BlindIn(Mix(S), u)
<1>1. Blind(Mix(S), all_universe_splits[u].test_ids)
  BY BlindMix DEF BlindIn
<1>2. ASSUME u \notin EncodesTestRows
      PROVE  Apart(Mix(S), all_universe_splits[u].test_ids)
  BY <1>2, Sources DEF BlindIn, Apart
<1>3. QED
  BY <1>1, <1>2 DEF BlindIn

\* what is of these rows makes nothing of others
LEMMA WithinMix ==
  ASSUME NEW S, NEW rows, \A v \in S : Within(v, rows)
  PROVE  Within(Mix(S), rows)
BY Sources DEF Within

\* the other universes are tested on rows after those of the encoding
LEMMA EncodingApart ==
  ASSUME NEW u \in Universes, u \notin EncodesTestRows
  PROVE  Steps(1, 480) \cap all_universe_splits[u].test_ids = {}
<1>1. u \in {"U_HOANG_OPT_4STAGE", "U_MASTER_COMMON_4STAGE_FPR1", "U_HOANG_3STAGE",
             "U_DUONG_520_631", "U_KIEU_REPORTED_594_674"}
  BY DEF Universes, all_universe_splits, EncodesTestRows
<1>2. \A a, b, c, d \in Int : b < c => Steps(a, b) \cap Steps(c, d) = {}
  BY DEF Steps
<1>3. CASE u \in {"U_HOANG_OPT_4STAGE", "U_MASTER_COMMON_4STAGE_FPR1", "U_HOANG_3STAGE"}
  BY <1>2, <1>3 DEF all_universe_splits, SplitBundle, FourStage
<1>4. CASE u = "U_DUONG_520_631"
  BY <1>2, <1>4 DEF all_universe_splits, SplitBundle
<1>5. CASE u = "U_KIEU_REPORTED_594_674"
  BY <1>2, <1>5 DEF all_universe_splits, SplitBundle
<1>6. QED
  BY <1>1, <1>3, <1>4, <1>5

LEMMA WithinBlind ==
  ASSUME NEW u \in Universes, NEW v, NEW rows, Within(v, rows),
         rows \cap all_universe_splits[u].test_ids = {}
  PROVE  BlindIn(v, u)
<1> DEFINE test == all_universe_splits[u].test_ids
<1>1. Blind(v, test)
  BY DEF Within, Blind
<1>2. ASSUME u \notin EncodesTestRows
      PROVE  Apart(v, test)
  <2>1. Steps(1, 480) \cap test = {}
    BY <1>2, EncodingApart
  <2> HIDE DEF test
  <2>2. rows \cap test = {}
    BY DEF test
  <2>3. QED
    BY <2>1, <2>2 DEF Within, Apart
<1>3. QED
  BY <1>1, <1>2 DEF BlindIn

\* stated as TestRowsUnseen has it
LEMMA BlindRowsUnseen ==
  ASSUME NEW v, NEW u, BlindIn(v, u)
  PROVE  LabelledRows(v, IF u \in EncodesTestRows THEN {"y"} ELSE {"y", "te"})
           \cap all_universe_splits[u].test_ids = {}
<1> DEFINE test == all_universe_splits[u].test_ids
<1>1. CASE u \in EncodesTestRows
  BY <1>1 DEF BlindIn, Blind, LabelledRows
<1>2. CASE u \notin EncodesTestRows
  BY <1>2 DEF BlindIn, Apart, LabelledRows
<1>3. QED
  BY <1>1, <1>2

LEMMA ApartRowsUnseen ==
  ASSUME NEW v, NEW P, Apart(v, P)
  PROVE  LabelledRows(v, {"y", "te"}) \cap P = {}
BY DEF Apart, LabelledRows

LEMMA LabelsOfRows ==
  ASSUME NEW rows
  PROVE  Within(LabelsOf(rows), rows) /\ LabelsOf(rows).of = {}
BY DEF Within, LabelsOf, From

\* a model is of the labels it was fitted to
LEMMA ModelOfRows ==
  ASSUME NEW m, NEW key, NEW rows
  PROVE  Within(ModelOf(m, key, rows), rows) /\ ModelOf(m, key, rows).of = {<<m, key>>}
<1> DEFINE family == Family(feature_spec_id[m])
<1>1. Within(family, rows)
  BY DEF Within, Family, From
<1> HIDE DEF family
<1>2. \A v \in {family, LabelsOf(rows)} : Within(v, rows)
  BY <1>1, LabelsOfRows
<1>3. Within(Mix({family, LabelsOf(rows)}), rows)
  BY <1>2, WithinMix
<1>4. ModelOf(m, key, rows) = From(Mix({family, LabelsOf(rows)}).facts, {<<m, key>>})
  BY DEF ModelOf, family
<1>5. QED
  BY <1>3, <1>4, Sources DEF Within

\* a model of the other families has no encoding
LEMMA ModelUnencoded ==
  ASSUME NEW m, NEW key, NEW rows, feature_spec_id[m] \notin {"HOANG25", "HOANG36"}
  PROVE  \A f \in ModelOf(m, key, rows).facts : f[2] # "te"
<1> DEFINE family == Family(feature_spec_id[m])
<1>a. \A f \in family.facts : f[2] # "te"
  BY DEF Family, From
<1>b. \A f \in LabelsOf(rows).facts : f[2] # "te"
  BY DEF LabelsOf, From
<1> HIDE DEF family
<1>1. \A v \in {family, LabelsOf(rows)} : \A f \in v.facts : f[2] # "te"
  BY <1>a, <1>b
<1>2. \A f \in Mix({family, LabelsOf(rows)}).facts : f[2] # "te"
  BY <1>1, Sources
<1>3. ModelOf(m, key, rows) = From(Mix({family, LabelsOf(rows)}).facts, {<<m, key>>})
  BY DEF ModelOf, family
<1>4. QED
  BY <1>2, <1>3, Sources

\* rows whose labels a calibrated score of a partition is a function of
CalibratedRows(key) ==
  TRAIN_PARTITIONS[key] \cup (IF key = "train_1_480" THEN Steps(481, 552) ELSE {})

\* no universe is tested on rows of its training partition, of its calibration
\* or of the rows it chooses thresholds on
LEMMA TestRowsApart ==
  ASSUME NEW u \in Universes
  PROVE  /\ all_universe_splits[u].train_ids \cap all_universe_splits[u].test_ids = {}
         /\ all_universe_splits[u].policy_ids \cap all_universe_splits[u].test_ids = {}
         /\ TRAIN_PARTITIONS[UNIVERSE_TO_TRAIN_KEY[u]] \cap all_universe_splits[u].test_ids = {}
         /\ CalibratedRows(UNIVERSE_TO_TRAIN_KEY[u]) \cap all_universe_splits[u].test_ids = {}
<1>1. u \in {"U_HOANG_OPT_4STAGE", "U_MASTER_COMMON_4STAGE_FPR1", "U_HOANG_3STAGE",
             "U_DUONG_520_631", "U_KIEU_REPORTED_594_674", "U_KIEU_Q80_SOURCE",
             "U_NAM_RANDOM80_AUTHORED", "U_NAM_RANDOM80_REPAIRED"}
  BY DEF Universes, all_universe_splits
<1>2. \A a, b, c, d \in Int : b < c => Steps(a, b) \cap Steps(c, d) = {}
  BY DEF Steps
<1>3. /\ Drawn({"inner_tr", "inner_val"}) \cap Drawn({"held_out"}) = {}
      /\ Drawn({"inner_tr"}) \cap Drawn({"held_out"}) = {}
      /\ Drawn({"inner_val"}) \cap Drawn({"held_out"}) = {}
  BY DEF Drawn
<1>4. CASE u \in {"U_HOANG_OPT_4STAGE", "U_MASTER_COMMON_4STAGE_FPR1"}
  BY <1>2, <1>4
     DEF all_universe_splits, SplitBundle, FourStage, TRAIN_PARTITIONS, UNIVERSE_TO_TRAIN_KEY,
         CalibratedRows
<1>5. CASE u = "U_HOANG_3STAGE"
  BY <1>2, <1>5
     DEF all_universe_splits, SplitBundle, FourStage, TRAIN_PARTITIONS, UNIVERSE_TO_TRAIN_KEY,
         CalibratedRows
<1>6. CASE u = "U_DUONG_520_631"
  BY <1>2, <1>6
     DEF all_universe_splits, SplitBundle, FourStage, TRAIN_PARTITIONS, UNIVERSE_TO_TRAIN_KEY,
         CalibratedRows
<1>7. CASE u = "U_KIEU_REPORTED_594_674"
  BY <1>2, <1>7
     DEF all_universe_splits, SplitBundle, FourStage, TRAIN_PARTITIONS, UNIVERSE_TO_TRAIN_KEY,
         CalibratedRows
<1>8. CASE u = "U_KIEU_Q80_SOURCE"
  BY <1>2, <1>8
     DEF all_universe_splits, SplitBundle, FourStage, TRAIN_PARTITIONS, UNIVERSE_TO_TRAIN_KEY,
         CalibratedRows
<1>9. CASE u \in {"U_NAM_RANDOM80_AUTHORED", "U_NAM_RANDOM80_REPAIRED"}
  BY <1>3, <1>9
     DEF all_universe_splits, SplitBundle, FourStage, TRAIN_PARTITIONS, UNIVERSE_TO_TRAIN_KEY,
         CalibratedRows
<1>10. QED
  BY <1>1, <1>4, <1>5, <1>6, <1>7, <1>8, <1>9

\* scores of models fitted to this partition
OfKey(v, key) == Within(v, TRAIN_PARTITIONS[key]) /\ \A of \in v.of : of[2] = key

LEMMA MixOfKey ==
  ASSUME NEW S, NEW key, \A v \in S : OfKey(v, key)
  PROVE  OfKey(Mix(S), key)
BY WithinMix, Sources DEF OfKey

MasterFiles ==
  \A file \in DOMAIN disk :
    file[1] = "models" /\ disk[file] # Torn => OfKey(disk[file], file[2][2])

MasterScores ==
  /\ cell \in {"plan", "matrix", "dump", "factorial"} => Is("SCORE_REGISTRY")
  /\ Is("SCORE_REGISTRY") =>
       \A k \in DOMAIN mem.SCORE_REGISTRY : OfKey(mem.SCORE_REGISTRY[k], k[2])

\* the models of earlier turns have their scores in the registry
MasterTurn ==
  cell \in {"plan", "matrix", "dump"} =>
    /\ Is("at") /\ mem.at \in (1..6) \X (1..(Len(MasterModels) + 1))
    /\ mem.at[1] <= 5 => \A i \in 1..(mem.at[2] - 1) :
         <<MasterModels[i], TrainKeys[mem.at[1]]>> \in DOMAIN mem.SCORE_REGISTRY
    /\ cell = "dump" => mem.at[1] <= 5 /\ mem.at[2] <= Len(MasterModels)

MasterCalibrated ==
  cell = "factorial" =>
    /\ Is("CALIBRATED_SCORES")
    /\ \A k \in DOMAIN mem.CALIBRATED_SCORES :
         Within(mem.CALIBRATED_SCORES[k], CalibratedRows(k[2]))

MasterUnseen ==
  /\ Is("decided") =>
       \A u \in Universes : \A family \in DOMAIN mem.decided[u] :
         BlindIn(mem.decided[u][family], u)
  /\ Is("df_native_res") =>
       \A m \in DOMAIN native_cases :
         Apart(mem.df_native_res[m], all_universe_splits[native_cases[m]].test_ids)

(***************************************************************************)
(* Every model's file and score is a function of the labels of its own     *)
(* partition's rows; the models of earlier turns have their scores in the  *)
(* registry, where blends look them up; calibration adds labels of one     *)
(* stage at most.  With TestRowsApart, nothing an alert is decided with is *)
(* a function of labels of the rows it is tested on.                       *)
(***************************************************************************)
MasterInv == MasterFiles /\ MasterScores /\ MasterTurn /\ MasterCalibrated /\ MasterUnseen

MasterTracked == {"SCORE_REGISTRY", "at", "CALIBRATED_SCORES", "decided", "df_native_res"}

\* names the invariant speaks of stay, the registry's turn is over or not begun
LEMMA MasterQuiet ==
  ASSUME MasterInv, NEW next, NEW new, Bind(new), cell' = next, MasterFiles',
         DOMAIN new \cap MasterTracked = {},
         next \notin {"plan", "matrix", "dump", "factorial"}
  PROVE  MasterInv'
<1>1. MasterScores'
  BY Bound DEF MasterInv, MasterScores, MasterTracked, Is
<1>2. MasterTurn' /\ MasterCalibrated'
  BY DEF MasterTurn, MasterCalibrated
<1>3. MasterUnseen'
  <2>1. /\ "decided" \in DOMAIN mem' =>
             "decided" \in DOMAIN mem /\ mem'["decided"] = mem["decided"]
        /\ "df_native_res" \in DOMAIN mem' =>
             "df_native_res" \in DOMAIN mem /\ mem'["df_native_res"] = mem["df_native_res"]
    BY Bound DEF MasterTracked
  <2>2. QED
    BY <2>1 DEF MasterInv, MasterUnseen, Is
<1>4. QED
  BY <1>1, <1>2, <1>3 DEF MasterInv

LEMMA MasterDiskKept ==
  ASSUME MasterFiles, UNCHANGED disk
  PROVE  MasterFiles'
BY DEF MasterFiles, OfKey, Within

\* features are no models
LEMMA MasterFeatureWritten ==
  ASSUME MasterFiles, NEW f, NEW value, Write("features", f, value)
  PROVE  MasterFiles'
<1>1. disk' = Put(disk, <<"features", f>>, value)
  BY DEF Write
<1>2. \A file \in DOMAIN disk' : file[1] = "models" =>
        file \in DOMAIN disk /\ disk'[file] = disk[file]
  BY <1>1 DEF Put
<1>3. QED
  BY <1>2 DEF MasterFiles

\* a cell that binds nothing and writes no model, and one that raises
LEMMA MasterSilent ==
  ASSUME MasterInv, NEW c, NEW next, Compute(c, next, NoNames),
         next \notin {"plan", "matrix", "dump", "factorial"}
  PROVE  MasterInv'
<1>1. DOMAIN NoNames = {}
  BY DEF NoNames
<1>2. cell' = next /\ Bind(NoNames) /\ UNCHANGED disk
  BY DEF Compute, Goto, NoWrites
<1>3. QED
  BY <1>1, <1>2, MasterQuiet, MasterDiskKept DEF MasterInv

LEMMA MasterRaises ==
  ASSUME MasterInv, NEW c, Raise(c)
  PROVE  MasterInv'
BY MasterSilent DEF Raise

LEMMA MasterWritesFeature ==
  ASSUME MasterInv, NEW c, NEW next, NEW f, NEW value,
         Open(c, next, "features", f) \/ Close(c, next, "features", f, value),
         next \notin {"plan", "matrix", "dump", "factorial"}
  PROVE  MasterInv'
<1>1. cell' = next /\ UNCHANGED mem /\ \E v : Write("features", f, v)
  BY DEF Open, Close, Goto
<1>2. MasterFiles'
  BY <1>1, MasterFeatureWritten DEF MasterInv
<1>3. MasterScores' /\ MasterUnseen'
  BY <1>1 DEF MasterInv, MasterScores, MasterUnseen, Is
<1>4. MasterTurn' /\ MasterCalibrated'
  BY <1>1 DEF MasterTurn, MasterCalibrated
<1>5. QED
  BY <1>2, <1>3, <1>4 DEF MasterInv

\* the three families of features
LEMMA MasterFeatures ==
  ASSUME MasterInv, MasterLoad \/ KieuFeatures \/ HoangFeatures \/ NamFeatures
  PROVE  MasterInv'
<1>1. CASE MasterLoad
  BY <1>1, MasterSilent, MasterRaises DEF MasterLoad
<1>2. CASE KieuFeatures
  BY <1>2, MasterSilent, MasterWritesFeature DEF KieuFeatures, Verified, Generate, Save
<1>3. CASE HoangFeatures
  <2>1. CASE Verified("hoang13", "nam10", {"HOANG13"})
    BY <2>1, MasterSilent DEF Verified
  <2>2. CASE ~Verified("hoang13", "nam10", {"HOANG13"})
    BY <1>3, <2>2, MasterWritesFeature DEF HoangFeatures, Generate, Save
  <2>3. QED
    BY <2>1, <2>2
<1>4. CASE NamFeatures
  BY <1>4, MasterSilent, MasterWritesFeature DEF NamFeatures, Verified, Generate, Save
<1>5. QED
  BY <1>1, <1>2, <1>3, <1>4

\* each researcher's own model in that researcher's universe
LEMMA MasterReproduces ==
  ASSUME MasterInv, run_track_a_native_reproduction
  PROVE  MasterInv'
<1> DEFINE native == [m \in DOMAIN native_cases |->
                        ModelOf(m, "native", all_universe_splits[native_cases[m]].train_ids)]
<1>1. CASE Raise("native")
  BY <1>1, MasterRaises
<1>2. CASE ~Raise("native")
  <2>1. /\ cell' = "plan" /\ UNCHANGED disk
        /\ Bind([df_native_res |-> native, at |-> <<1, 1>>, SCORE_REGISTRY |-> NoNames])
    BY <1>2 DEF run_track_a_native_reproduction, Compute, Goto, NoWrites
  <2>2. \A m \in DOMAIN native_cases :
          Apart(native[m], all_universe_splits[native_cases[m]].test_ids)
    <3> TAKE m \in DOMAIN native_cases
    <3> DEFINE split == all_universe_splits[native_cases[m]]
    <3>1. native_cases[m] \in Universes
      BY DEF native_cases, Universes, all_universe_splits
    <3>2. split.train_ids \cap split.test_ids = {}
      BY <3>1, TestRowsApart
    <3>3. Within(native[m], split.train_ids)
      BY ModelOfRows
    <3>4. BlindIn(native[m], native_cases[m])
      BY <3>1, <3>2, <3>3, WithinBlind
    <3>5. CASE native_cases[m] \notin EncodesTestRows
      BY <3>4, <3>5 DEF BlindIn
    <3>6. CASE native_cases[m] \in EncodesTestRows
      <4>1. m = "NAM_DT6"
        BY <3>6 DEF native_cases, EncodesTestRows
      <4>2. feature_spec_id[m] \notin {"HOANG25", "HOANG36"}
        BY <4>1 DEF feature_spec_id
      <4>3. \A f \in native[m].facts : f[2] # "te"
        BY <4>2, ModelUnencoded
      <4>4. Blind(native[m], split.test_ids)
        BY <3>4 DEF BlindIn
      <4> HIDE DEF native
      <4>5. QED
        BY <4>3, <4>4 DEF Apart, Blind
    <3>7. QED
      BY <3>5, <3>6
  <2> HIDE DEF native
  <2>3. MasterFiles'
    BY <2>1, MasterDiskKept DEF MasterInv
  <2>4. MasterScores'
    BY <2>1 DEF MasterScores, Is, Bind, Override, NoNames
  <2>5. MasterTurn'
    <3>1. Len(MasterModels) \in Nat
      BY MasterAssumption
    <3>2. "at" \in DOMAIN mem' /\ mem'["at"] = <<1, 1>>
      BY <2>1 DEF Bind, Override
    <3>3. QED
      BY <2>1, <3>1, <3>2 DEF MasterTurn, Is
  <2>6. MasterCalibrated'
    BY <2>1 DEF MasterCalibrated
  <2>7. MasterUnseen'
    BY <2>1, <2>2 DEF MasterInv, MasterUnseen, Is, Bind, Override
  <2>8. QED
    BY <2>3, <2>4, <2>5, <2>6, <2>7 DEF MasterInv
<1>3. QED
  BY <1>1, <1>2

LEMMA MasterPlans ==
  ASSUME MasterInv, ExperimentPlan
  PROVE  MasterInv'
<1>1. cell = "plan" /\ cell' = "matrix" /\ UNCHANGED disk /\ Bind(NoNames) /\ DOMAIN NoNames = {}
  BY DEF ExperimentPlan, Compute, At, Goto, NoWrites, NoNames
<1>2. DOMAIN mem' = DOMAIN mem /\ \A n \in DOMAIN mem : mem'[n] = mem[n]
  BY <1>1 DEF Bind, Override
<1>3. MasterFiles'
  BY <1>1, MasterDiskKept DEF MasterInv
<1>4. MasterScores' /\ MasterUnseen'
  BY <1>1, <1>2 DEF MasterInv, MasterScores, MasterUnseen, Is
<1>5. MasterTurn' /\ MasterCalibrated'
  BY <1>1, <1>2 DEF MasterInv, MasterScores, MasterTurn, MasterCalibrated, Is
<1>6. QED
  BY <1>3, <1>4, <1>5 DEF MasterInv

\* scores enter the registry and the next turn comes
LEMMA MasterTakesTurn ==
  ASSUME MasterInv, cell \in {"matrix", "dump"}, mem.at[1] <= 5, cell' = "matrix", MasterFiles',
         NEW registry, Bind(Scored(registry)),
         DOMAIN mem.SCORE_REGISTRY \subseteq DOMAIN registry,
         \A k \in DOMAIN registry : OfKey(registry[k], k[2]),
         Turn <= Len(MasterModels) => <<m_id, train_key>> \in DOMAIN registry
  PROVE  MasterInv'
<1> DEFINE n == Len(MasterModels)
<1>1. n \in Nat
  BY MasterAssumption
<1>2. /\ mem.at \in (1..6) \X (1..(n + 1))
      /\ \A i \in 1..(mem.at[2] - 1) :
           <<MasterModels[i], TrainKeys[mem.at[1]]>> \in DOMAIN mem.SCORE_REGISTRY
  BY DEF MasterInv, MasterTurn
<1>3. PICK p \in 1..5, t \in 1..(n + 1) : mem.at = <<p, t>>
  BY <1>1, <1>2
<1>4. /\ "SCORE_REGISTRY" \in DOMAIN mem' /\ mem'["SCORE_REGISTRY"] = registry
      /\ "at" \in DOMAIN mem' /\ mem'["at"] = After(mem.at)
      /\ \A name \in {"decided", "df_native_res"} :
           name \in DOMAIN mem' => name \in DOMAIN mem /\ mem'[name] = mem[name]
  BY DEF Scored, Bind, Override
<1>5. MasterScores'
  BY <1>4 DEF MasterScores, Is
<1>6. MasterTurn'
  <2>1. CASE t <= n
    <3>1. mem'["at"] = <<p, t + 1>>
      BY <1>3, <1>4, <2>1 DEF After
    <3>2. <<MasterModels[t], TrainKeys[p]>> \in DOMAIN registry
      BY <1>3, <2>1 DEF Turn, m_id, train_key
    <3>3. \A i \in 1..t : <<MasterModels[i], TrainKeys[p]>> \in DOMAIN registry
      <4> TAKE i \in 1..t
      <4>1. CASE i = t
        BY <3>2, <4>1
      <4>2. CASE i # t
        <5>1. i \in 1..(t - 1)
          BY <1>1, <4>2
        <5>2. QED
          BY <1>2, <1>3, <5>1
      <4>3. QED
        BY <4>1, <4>2
    <3>4. <<p, t + 1>> \in (1..6) \X (1..(n + 1))
      BY <1>1, <2>1
    <3>5. QED
      BY <1>4, <3>1, <3>3, <3>4 DEF MasterTurn, Is
  <2>2. CASE t = n + 1
    <3>1. mem'["at"] = <<p + 1, 1>>
      BY <1>1, <1>3, <1>4, <2>2 DEF After
    <3>2. <<p + 1, 1>> \in (1..6) \X (1..(n + 1))
      BY <1>1
    <3>3. QED
      BY <1>4, <3>1, <3>2 DEF MasterTurn, Is
  <2>3. QED
    BY <1>1, <2>1, <2>2
<1>7. MasterCalibrated'
  BY DEF MasterCalibrated
<1>8. MasterUnseen'
  BY <1>4 DEF MasterInv, MasterUnseen, Is
<1>9. QED
  BY <1>5, <1>6, <1>7, <1>8 DEF MasterInv

\* the partitions, one turn of the matrix each
LEMMA FiveKeys == Len(TrainKeys) = 5
BY DEF TrainKeys

\* the scores of a model of this partition enter the registry
LEMMA MasterRegisters ==
  ASSUME MasterInv, cell \in {"matrix", "dump"}, mem.at[1] <= 5, cell' = "matrix", MasterFiles',
         NEW clf, Bind(Registered(clf)), OfKey(clf, train_key)
  PROVE  MasterInv'
<1> DEFINE old == mem.SCORE_REGISTRY key == <<m_id, train_key>> new == Put(old, key, clf)
<1>1. /\ DOMAIN new = DOMAIN old \cup {key} /\ new[key] = clf
      /\ \A k \in DOMAIN old : k # key => new[k] = old[k]
  BY DEF Put
<1>2. Bind(Scored(new))
  BY DEF Registered
<1>3. \A k \in DOMAIN old : OfKey(old[k], k[2])
  BY DEF MasterInv, MasterScores
<1>4. key[2] = train_key
  OBVIOUS
<1> HIDE DEF new, old
<1>5. \A k \in DOMAIN new : OfKey(new[k], k[2])
  BY <1>1, <1>3, <1>4
<1>6. key \in DOMAIN new /\ DOMAIN old \subseteq DOMAIN new
  BY <1>1
<1>7. QED
  BY <1>2, <1>5, <1>6, MasterTakesTurn DEF old

\* a model is found in the file of its partition, or the file is torn
LEMMA MasterLoadsModel ==
  ASSUME MasterInv, LoadModel
  PROVE  MasterInv'
<1> DEFINE file == <<"models", <<m_id, train_key>>>> clf == disk[file]
<1>1. cell = "matrix" /\ mem.at[1] <= 5 /\ file \in DOMAIN disk
  BY FiveKeys DEF LoadModel, InMatrix, OnDisk, m_file
<1>2. CASE clf = Torn
  BY <1>2, MasterRaises DEF LoadModel, m_file
<1>3. CASE clf # Torn
  <2>1. cell' = "matrix" /\ Bind(Registered(clf)) /\ UNCHANGED disk
    BY <1>3 DEF LoadModel, m_file, Compute, Goto, NoWrites
  <2>2. file[1] = "models" /\ file[2][2] = train_key
    OBVIOUS
  <2>3. OfKey(clf, train_key)
    BY <1>1, <1>3, <2>2 DEF MasterInv, MasterFiles
  <2>4. MasterFiles'
    BY <2>1, MasterDiskKept DEF MasterInv
  <2> HIDE DEF clf
  <2>5. QED
    BY <1>1, <2>1, <2>3, <2>4, MasterRegisters
<1>4. QED
  BY <1>2, <1>3

\* a model of this partition enters its file
LEMMA ModelWritten ==
  ASSUME MasterFiles, NEW m, NEW key, NEW value, Write("models", <<m, key>>, value),
         value # Torn => OfKey(value, key)
  PROVE  MasterFiles'
<1> DEFINE new == <<"models", <<m, key>>>>
<1>1. disk' = Put(disk, new, value)
  BY DEF Write
<1>2. /\ disk'[new] = value
      /\ \A file \in DOMAIN disk' : file # new => file \in DOMAIN disk /\ disk'[file] = disk[file]
  BY <1>1 DEF Put
<1>3. new[2][2] = key
  OBVIOUS
<1> HIDE DEF new
<1>4. SUFFICES ASSUME NEW file \in DOMAIN disk', file[1] = "models", disk'[file] # Torn
               PROVE  OfKey(disk'[file], file[2][2])
  BY DEF MasterFiles
<1>5. CASE file = new
  BY <1>2, <1>3, <1>4, <1>5
<1>6. CASE file # new
  BY <1>2, <1>4, <1>6 DEF MasterFiles
<1>7. QED
  BY <1>5, <1>6

\* a model is fitted: its file is opened, and then written with its scores
LEMMA MasterFits ==
  ASSUME MasterInv, FitModel \/ DumpModel
  PROVE  MasterInv'
<1>1. CASE FitModel
  <2>1. /\ cell = "matrix" /\ cell' = "dump" /\ UNCHANGED mem
        /\ mem.at[1] <= 5 /\ mem.at[2] <= Len(MasterModels)
        /\ Write("models", <<m_id, train_key>>, Torn)
    BY <1>1, FiveKeys DEF FitModel, InMatrix, Turn, Open, At, Goto, m_file
  <2>2. MasterFiles'
    BY <2>1, ModelWritten DEF MasterInv
  <2>3. MasterScores' /\ MasterUnseen'
    BY <2>1 DEF MasterInv, MasterScores, MasterUnseen, Is
  <2>4. MasterTurn' /\ MasterCalibrated'
    BY <2>1 DEF MasterInv, MasterTurn, MasterCalibrated, Is
  <2>5. QED
    BY <2>2, <2>3, <2>4 DEF MasterInv
<1>2. CASE DumpModel
  <2> DEFINE clf == ModelOf(m_id, train_key, TRAIN_PARTITIONS[train_key])
  <2>1. /\ cell = "dump" /\ cell' = "matrix" /\ Bind(Registered(clf))
        /\ Write("models", <<m_id, train_key>>, clf)
    BY <1>2 DEF DumpModel, At, Goto, m_file
  <2>2. OfKey(clf, train_key)
    BY ModelOfRows DEF OfKey
  <2> HIDE DEF clf
  <2>3. MasterFiles'
    BY <2>1, <2>2, ModelWritten DEF MasterInv
  <2>4. mem.at[1] <= 5
    BY <2>1 DEF MasterInv, MasterTurn
  <2>5. QED
    BY <2>1, <2>2, <2>3, <2>4, MasterRegisters
<1>3. QED
  BY <1>1, <1>2

\* when a partition's models are done, their scores are blended
LEMMA MasterBlends ==
  ASSUME MasterInv, Blend
  PROVE  MasterInv'
<1> DEFINE old == mem.SCORE_REGISTRY
           v8 == Mix({mem.SCORE_REGISTRY[<<m, train_key>>] : m \in Components})
           cat == From(LabelsOf(TRAIN_PARTITIONS[train_key]).facts,
                       {<<"CATBOOST_BASE", train_key>>})
           v9 == Mix({v8, cat})
           one == Put(old, <<"KIEU_BLEND_V8", train_key>>, v8)
           all == Put(one, <<"KIEU_BLEND_V9", train_key>>, v9)
<1>1. /\ cell = "matrix" /\ mem.at[1] <= 5 /\ mem.at[2] > Len(MasterModels)
      /\ cell' = "matrix" /\ Bind(Scored(all)) /\ UNCHANGED disk
  BY FiveKeys DEF Blend, Turn, Compute, At, Goto, NoWrites
<1>2. \A k \in DOMAIN old : OfKey(old[k], k[2])
  BY <1>1 DEF MasterInv, MasterScores
<1>3. \A m \in Components : <<m, train_key>> \in DOMAIN old
  <2> TAKE m \in Components
  <2>1. PICK i \in DOMAIN MasterModels : MasterModels[i] = m
    BY MasterAssumption
  <2>2. DOMAIN MasterModels = 1..Len(MasterModels) /\ Len(MasterModels) \in Nat
    BY MasterAssumption
  <2>3. i \in 1..(mem.at[2] - 1)
    BY <1>1, <2>2 DEF MasterInv, MasterTurn
  <2>4. QED
    BY <1>1, <2>1, <2>3 DEF MasterInv, MasterTurn, train_key
<1>4. OfKey(v8, train_key)
  <2>1. \A v \in {mem.SCORE_REGISTRY[<<m, train_key>>] : m \in Components} : OfKey(v, train_key)
    BY <1>2, <1>3
  <2>2. QED
    BY <2>1, MixOfKey
<1>5. OfKey(cat, train_key)
  BY LabelsOfRows, Sources DEF OfKey, Within
<1> HIDE DEF v8, cat
<1>6. OfKey(v9, train_key)
  <2>1. \A v \in {v8, cat} : OfKey(v, train_key)
    BY <1>4, <1>5
  <2>2. QED
    BY <2>1, MixOfKey
<1> HIDE DEF v9
<1>7. /\ DOMAIN one = DOMAIN old \cup {<<"KIEU_BLEND_V8", train_key>>}
      /\ \A k \in DOMAIN one : OfKey(one[k], k[2])
  BY <1>2, <1>4 DEF Put
<1> HIDE DEF one
<1>8. /\ DOMAIN all = DOMAIN one \cup {<<"KIEU_BLEND_V9", train_key>>}
      /\ \A k \in DOMAIN all : OfKey(all[k], k[2])
  BY <1>6, <1>7 DEF Put
<1> HIDE DEF all
<1>9. MasterFiles'
  BY <1>1, MasterDiskKept DEF MasterInv
<1>10. ~(Turn <= Len(MasterModels))
  <2>1. mem.at[2] \in Int /\ Len(MasterModels) \in Int
    BY <1>1, MasterAssumption DEF MasterInv, MasterTurn
  <2>2. QED
    BY <1>1, <2>1 DEF Turn
<1>11. QED
  BY <1>1, <1>7, <1>8, <1>9, <1>10, MasterTakesTurn

\* one partition is calibrated, on the rows of its calibration stage
LEMMA MasterCalibrates ==
  ASSUME MasterInv, Calibrators
  PROVE  MasterInv'
<1> DEFINE scores == mem.SCORE_REGISTRY
           calibrated == [k \in DOMAIN scores |->
                            IF k[2] = "train_1_480"
                            THEN Mix({scores[k], LabelsOf(Steps(481, 552))})
                            ELSE scores[k]]
<1>1. cell = "matrix" /\ cell' = "factorial" /\ Bind([CALIBRATED_SCORES |-> calibrated])
      /\ UNCHANGED disk
  BY DEF Calibrators, Compute, At, Goto, NoWrites
<1>2. Is("SCORE_REGISTRY") /\ \A k \in DOMAIN scores : OfKey(scores[k], k[2])
  BY <1>1 DEF MasterInv, MasterScores
<1>3. \A k \in DOMAIN scores : Within(calibrated[k], CalibratedRows(k[2]))
  <2> TAKE k \in DOMAIN scores
  <2>1. Within(scores[k], CalibratedRows(k[2]))
    BY <1>2 DEF OfKey, Within, CalibratedRows
  <2>2. CASE k[2] = "train_1_480"
    <3>1. Steps(481, 552) \subseteq CalibratedRows(k[2])
      BY <2>2 DEF CalibratedRows
    <3>2. Within(LabelsOf(Steps(481, 552)), CalibratedRows(k[2]))
      BY <3>1, LabelsOfRows DEF Within
    <3>3. \A v \in {scores[k], LabelsOf(Steps(481, 552))} : Within(v, CalibratedRows(k[2]))
      BY <2>1, <3>2
    <3>4. QED
      BY <2>2, <3>3, WithinMix
  <2>3. CASE k[2] # "train_1_480"
    BY <2>1, <2>3
  <2>4. QED
    BY <2>2, <2>3
<1>4. DOMAIN calibrated = DOMAIN scores
  OBVIOUS
<1> HIDE DEF calibrated
<1>5. /\ "CALIBRATED_SCORES" \in DOMAIN mem' /\ mem'["CALIBRATED_SCORES"] = calibrated
      /\ "SCORE_REGISTRY" \in DOMAIN mem' /\ mem'["SCORE_REGISTRY"] = scores
      /\ \A name \in {"decided", "df_native_res"} :
           name \in DOMAIN mem' => name \in DOMAIN mem /\ mem'[name] = mem[name]
  BY <1>1, <1>2 DEF Bind, Override, Is
<1>6. MasterFiles'
  BY <1>1, MasterDiskKept DEF MasterInv
<1>7. MasterScores'
  BY <1>2, <1>5 DEF MasterScores, Is
<1>8. MasterTurn'
  BY <1>1 DEF MasterTurn
<1>9. MasterCalibrated'
  BY <1>3, <1>4, <1>5 DEF MasterCalibrated, Is
<1>10. MasterUnseen'
  BY <1>5 DEF MasterInv, MasterUnseen, Is
<1>11. QED
  BY <1>6, <1>7, <1>8, <1>9, <1>10 DEF MasterInv

\* the policies that are run; the others are only planned
LEMMA ExecutedFamilies ==
  ASSUME NEW p \in Executed
  PROVE  p[2] \in {"TOP_K_CAPACITY", "FPR_BUDGET", "MONETARY_NBV", "INSTANCE_EV"}
<1>1. ASSUME p[1] = "Hoang"
      PROVE  p[2] \in {"MONETARY_NBV", "INSTANCE_EV"}
  <2>1. \A S, T : p \notin {"Common"} \X S \X T
    BY <1>1
  <2>2. p \in {<<"Kieu", "TOP_K_CAPACITY", "1.00%">>, <<"Kieu", "RECALL_AT_PRECISION", "0.10">>,
              <<"Duong", "F_BETA", "1.75">>, <<"Nam", "F_BETA", "1.75">>,
              <<"Hoang", "MONETARY_NBV", "">>, <<"Hoang", "INSTANCE_EV", "">>,
              <<"Common", "MONETARY_NBV", "">>}
    BY <2>1 DEF Executed, POLICY_REGISTRY
  <2>3. p[1] = "Hoang"
    BY <1>1
  <2>4. CASE p \in {<<"Kieu", "TOP_K_CAPACITY", "1.00%">>, <<"Kieu", "RECALL_AT_PRECISION", "0.10">>}
    BY <2>3, <2>4
  <2>5. CASE p \in {<<"Duong", "F_BETA", "1.75">>, <<"Nam", "F_BETA", "1.75">>}
    BY <2>3, <2>5
  <2>6. CASE p \in {<<"Hoang", "MONETARY_NBV", "">>, <<"Hoang", "INSTANCE_EV", "">>}
    <3>1. CASE p = <<"Hoang", "MONETARY_NBV", "">>
      BY <3>1
    <3>2. CASE p = <<"Hoang", "INSTANCE_EV", "">>
      BY <3>2
    <3>3. QED
      BY <2>6, <3>1, <3>2
  <2>7. CASE p = <<"Common", "MONETARY_NBV", "">>
    BY <2>3, <2>7
  <2>8. QED
    BY <2>2, <2>4, <2>5, <2>6, <2>7
<1>2. QED
  BY <1>1 DEF Executed

\* what alerts are decided with is blind to the labels of the rows tested on
LEMMA DecidedUnseen ==
  ASSUME MasterInv, cell = "factorial", NEW u \in Universes,
         NEW family \in {"TOP_K_CAPACITY", "FPR_BUDGET", "MONETARY_NBV", "INSTANCE_EV"}
  PROVE  BlindIn(DecidedBy(family, u), u)
<1> DEFINE key == UNIVERSE_TO_TRAIN_KEY[u] test == all_universe_splits[u].test_ids
           scores == ScoresFor(mem.SCORE_REGISTRY, u)
           calibrated == ScoresFor(mem.CALIBRATED_SCORES, u)
<1>1. \A v \in scores : BlindIn(v, u)
  <2>1. TRAIN_PARTITIONS[key] \cap test = {}
    BY TestRowsApart
  <2>2. \A v \in scores : Within(v, TRAIN_PARTITIONS[key])
    BY DEF MasterInv, MasterScores, ScoresFor, OfKey
  <2>3. QED
    BY <2>1, <2>2, WithinBlind
<1>2. \A v \in calibrated : BlindIn(v, u)
  <2>1. CalibratedRows(key) \cap test = {}
    BY TestRowsApart
  <2>2. \A v \in calibrated : Within(v, CalibratedRows(key))
    BY DEF MasterInv, MasterCalibrated, ScoresFor
  <2>3. QED
    BY <2>1, <2>2, WithinBlind
<1>3. BlindIn(LabelsOf(pol_mask(u)), u)
  BY TestRowsApart, LabelsOfRows, WithinBlind DEF pol_mask
<1>4. \A v \in scores \cup {LabelsOf(pol_mask(u))} : BlindIn(v, u)
  BY <1>1, <1>3
<1> HIDE DEF scores, calibrated, test
<1>5. CASE family = "TOP_K_CAPACITY"
  BY <1>1, <1>5, BlindInMix DEF DecidedBy, scores, test
<1>6. CASE family \in {"FPR_BUDGET", "MONETARY_NBV"}
  <2>1. BlindIn(Mix(scores \cup {LabelsOf(pol_mask(u))}), u)
    BY <1>4, BlindInMix
  <2>2. QED
    BY <1>6, <2>1 DEF DecidedBy, scores, test
<1>7. CASE family = "INSTANCE_EV"
  BY <1>2, <1>7, BlindInMix DEF DecidedBy, calibrated, test
<1>8. QED
  BY <1>5, <1>6, <1>7

\* every universe decides with the scores of its partition
LEMMA MasterDecides ==
  ASSUME MasterInv, Factorial
  PROVE  MasterInv'
<1> DEFINE decided == [u \in Universes |->
                         [family \in {p[2] : p \in Executed} |-> DecidedBy(family, u)]]
           results == [u \in Universes |->
                         Mix({decided[u][family] : family \in DOMAIN decided[u]}
                             \cup {LabelsOf(all_universe_splits[u].test_ids)})]
<1>1. cell = "factorial" /\ cell' = "leaderboard" /\ UNCHANGED disk
      /\ Bind([decided |-> decided, df_factorial |-> results])
  BY DEF Factorial, Compute, At, Goto, NoWrites
<1>2. \A u \in Universes : \A family \in DOMAIN decided[u] :
        BlindIn(decided[u][family], u)
  <2> TAKE u \in Universes
  <2> TAKE family \in DOMAIN decided[u]
  <2>1. PICK p \in Executed : family = p[2]
    OBVIOUS
  <2>2. BlindIn(DecidedBy(family, u), u)
    BY <1>1, <2>1, ExecutedFamilies, DecidedUnseen
  <2>3. decided[u][family] = DecidedBy(family, u)
    BY <2>1
  <2>4. QED
    BY <2>2, <2>3
<1> HIDE DEF decided, results
<1>3. /\ "decided" \in DOMAIN mem' /\ mem'["decided"] = decided
      /\ \A name \in {"df_native_res", "SCORE_REGISTRY"} :
           name \in DOMAIN mem' => name \in DOMAIN mem /\ mem'[name] = mem[name]
  BY <1>1 DEF Bind, Override
<1>4. MasterFiles'
  BY <1>1, MasterDiskKept DEF MasterInv
<1>5. MasterScores'
  BY <1>1, <1>3 DEF MasterInv, MasterScores, Is
<1>6. MasterTurn' /\ MasterCalibrated'
  BY <1>1 DEF MasterTurn, MasterCalibrated
<1>7. MasterUnseen'
  BY <1>2, <1>3 DEF MasterInv, MasterUnseen, Is
<1>8. QED
  BY <1>4, <1>5, <1>6, <1>7 DEF MasterInv

\* a cell that binds one name the invariant does not speak of
LEMMA MasterTells ==
  ASSUME MasterInv, NEW c, NEW next, NEW new, Compute(c, next, new),
         DOMAIN new \cap MasterTracked = {},
         next \notin {"plan", "matrix", "dump", "factorial"}
  PROVE  MasterInv'
<1>1. cell' = next /\ Bind(new) /\ UNCHANGED disk
  BY DEF Compute, Goto, NoWrites
<1>2. QED
  BY <1>1, MasterQuiet, MasterDiskKept DEF MasterInv

\* tables of what was decided
LEMMA MasterReports ==
  ASSUME MasterInv,
         Leaderboard \/ DailyStability \/ run_paired_bootstrap \/ GovernanceSensitivity
           \/ Manifest
  PROVE  MasterInv'
<1>1. CASE Leaderboard
  <2> DEFINE new == [robustness_summary |-> Mix({mem.df_factorial[u] : u \in Universes})]
  <2>1. Compute("leaderboard", "daily", new) /\ DOMAIN new = {"robustness_summary"}
    BY <1>1 DEF Leaderboard
  <2> HIDE DEF new
  <2>2. QED
    BY <2>1, MasterTells DEF MasterTracked
<1>2. CASE DailyStability
  <2> DEFINE new == [df_stability |-> OotOfFourStage]
  <2>1. Compute("daily", "bootstrap", new) /\ DOMAIN new = {"df_stability"}
    BY <1>2 DEF DailyStability
  <2> HIDE DEF new
  <2>2. QED
    BY <2>1, MasterTells DEF MasterTracked
<1>3. CASE run_paired_bootstrap
  <2> DEFINE new == [df_boot |-> OotOfFourStage]
  <2>1. Compute("bootstrap", "sensitivity", new) /\ DOMAIN new = {"df_boot"}
    BY <1>3 DEF run_paired_bootstrap
  <2> HIDE DEF new
  <2>2. QED
    BY <2>1, MasterTells DEF MasterTracked
<1>4. CASE GovernanceSensitivity
  <2> DEFINE new == [gov_sensitivity |-> Mix({mem.df_factorial.U_NAM_RANDOM80_AUTHORED,
                                              mem.df_factorial.U_NAM_RANDOM80_REPAIRED})]
  <2>1. Compute("sensitivity", "manifest", new) /\ DOMAIN new = {"gov_sensitivity"}
    BY <1>4 DEF GovernanceSensitivity
  <2> HIDE DEF new
  <2>2. QED
    BY <2>1, MasterTells DEF MasterTracked
<1>5. CASE Manifest
  BY <1>5, MasterSilent DEF Manifest
<1>6. QED
  BY <1>1, <1>2, <1>3, <1>4, <1>5

\* a fresh kernel finds the files as they are
LEMMA MasterRestarts ==
  ASSUME MasterInv, KernelRestart("master", "load")
  PROVE  MasterInv' /\ book' = "master"
<1>1. cell' = "load" /\ mem' = NoNames /\ UNCHANGED disk /\ book' = "master"
  BY DEF KernelRestart
<1>2. DOMAIN NoNames = {}
  BY DEF NoNames
<1>3. MasterFiles'
  BY <1>1, MasterDiskKept DEF MasterInv
<1>4. MasterScores' /\ MasterUnseen'
  BY <1>1, <1>2 DEF MasterScores, MasterUnseen, Is
<1>5. MasterTurn' /\ MasterCalibrated'
  BY <1>1 DEF MasterTurn, MasterCalibrated
<1>6. QED
  BY <1>1, <1>3, <1>4, <1>5 DEF MasterInv

LEMMA MasterStarts ==
  ASSUME MasterInit
  PROVE  MasterInv
<1>1. PICK there : NotebookInit("master", "load", [f \in {<<"legacy", f>> : f \in there} |-> Family(f[2])])
  BY DEF MasterInit
<1>2. cell = "load" /\ mem = NoNames /\ DOMAIN NoNames = {}
      /\ DOMAIN disk = {<<"legacy", f>> : f \in there}
  BY <1>1 DEF NotebookInit, NoNames
<1>3. MasterFiles
  BY <1>2 DEF MasterFiles
<1>4. MasterScores /\ MasterUnseen
  BY <1>2 DEF MasterScores, MasterUnseen, Is
<1>5. MasterTurn /\ MasterCalibrated
  BY <1>2 DEF MasterTurn, MasterCalibrated
<1>6. QED
  BY <1>3, <1>4, <1>5 DEF MasterInv

LEMMA MasterSteps ==
  ASSUME MasterInv, MasterNext
  PROVE  MasterInv' /\ book' = "master"
<1>1. book = "master"
  BY DEF MasterNext
<1>2. CASE MasterLoad \/ KieuFeatures \/ HoangFeatures \/ NamFeatures
  <2>1. UNCHANGED book
    BY <1>2 DEF MasterLoad, KieuFeatures, HoangFeatures, NamFeatures, Verified, Generate, Save,
                Raise, Compute, Open, Close, At
  <2>2. QED
    BY <1>1, <1>2, <2>1, MasterFeatures
<1>3. CASE run_track_a_native_reproduction
  <2>1. UNCHANGED book
    BY <1>3 DEF run_track_a_native_reproduction, Raise, Compute, At
  <2>2. QED
    BY <1>1, <1>3, <2>1, MasterReproduces
<1>4. CASE ExperimentPlan
  BY <1>1, <1>4, MasterPlans DEF ExperimentPlan, Compute, At
<1>5. CASE Matrix
  <2>1. UNCHANGED book
    BY <1>5 DEF Matrix, FeaturesMissing, LoadModel, FitModel, DumpModel, Blend, Raise, Compute,
                Open, At
  <2>2. CASE FeaturesMissing
    BY <1>1, <2>1, <2>2, MasterRaises DEF FeaturesMissing
  <2>3. CASE LoadModel
    BY <1>1, <2>1, <2>3, MasterLoadsModel
  <2>4. CASE FitModel \/ DumpModel
    BY <1>1, <2>1, <2>4, MasterFits
  <2>5. CASE Blend
    BY <1>1, <2>1, <2>5, MasterBlends
  <2>6. QED
    BY <1>5, <2>2, <2>3, <2>4, <2>5 DEF Matrix
<1>6. CASE Calibrators
  BY <1>1, <1>6, MasterCalibrates DEF Calibrators, Compute, At
<1>7. CASE Factorial
  BY <1>1, <1>7, MasterDecides DEF Factorial, Compute, At
<1>8. CASE Leaderboard \/ DailyStability \/ run_paired_bootstrap \/ GovernanceSensitivity
             \/ Manifest
  <2>1. UNCHANGED book
    BY <1>8 DEF Leaderboard, DailyStability, run_paired_bootstrap, GovernanceSensitivity,
                Manifest, Compute, At
  <2>2. QED
    BY <1>1, <1>8, <2>1, MasterReports
<1>9. CASE KernelRestart("master", "load")
  BY <1>9, MasterRestarts
<1>10. QED
  BY <1>2, <1>3, <1>4, <1>5, <1>6, <1>7, <1>8, <1>9 DEF MasterNext

\* what alerts were decided with, and the scores of each key
LEMMA MasterConcludes ==
  ASSUME MasterInv
  PROVE  TestRowsUnseen /\ ScoresAreOfTheirKey
<1>1. TestRowsUnseen
  BY BlindRowsUnseen, ApartRowsUnseen DEF MasterInv, MasterUnseen, TestRowsUnseen
<1>2. ScoresAreOfTheirKey
  BY DEF MasterInv, MasterScores, ScoresAreOfTheirKey, OfKey
<1>3. QED
  BY <1>1, <1>2

------------------------------------------------------------------------------

\* The random-forest notebooks

\* no test row went into v
Unseen(v) == \A f \in v.facts : f[1] # "test"

\* of one configuration, as the model is
OneConfig(v) == \E c \in v.of : v.of = {c}
TestedWith(model, threshold) ==
  \E c \in threshold.of :
    threshold.of = {<<c[1], c[2]>>} /\ model = Forest(c[1], c[2], {"train", "val"})
OfThese(v) == v.of = {<<mem.FEATURES, mem.BEST_PARAMS>>}

Held(names) == names \subseteq DOMAIN mem

\* what the cells of each book go on with
Rf02 ==
  book = "colab_02" /\ cell \in {"choose", "save", "track", "log"} => Held({"res_base", "res_hist"})
Rf03 ==
  book = "colab_03" =>
    /\ cell \in {"threshold", "walk", "cohorts", "track", "log"} => Held({"model"})
    /\ cell \in {"walk", "cohorts", "track", "log"} => Held({"chosen_thr"})
Rf04 ==
  book = "colab_04" =>
    /\ cell = "tune" => Held({"FEATURES"})
    /\ cell \in {"best", "threshold", "save", "tuning"} => Held({"FEATURES", "BEST_PARAMS"})
    /\ cell = "best" => Held({"study"}) /\ OfThese(mem.study)
    /\ cell \in {"threshold", "save", "tuning", "track", "log"} => Held({"best_model"})
    /\ cell = "threshold" => OfThese(mem.best_model)
    /\ cell \in {"save", "tuning", "track", "log"} => Held({"CHOSEN_THRESHOLD"})
    /\ cell \in {"save", "tuning"} => OfThese(mem.CHOSEN_THRESHOLD)
Rf05 ==
  book = "colab_05" =>
    /\ cell \in {"auto", "refit"} => Held({"FEATURES", "BEST_PARAMS"})
    /\ cell \in {"refit", "test"} => Held({"CHOSEN_THRESHOLD"})
    /\ cell = "refit" => OfThese(mem.CHOSEN_THRESHOLD)
    /\ cell = "test" => Held({"final_model"}) /\ TestedWith(mem.final_model, mem.CHOSEN_THRESHOLD)
    /\ cell \in {"explain", "report", "final", "track", "log"} => Held({"test_report"})
Tested06 == {"report", "artifact", "guard", "log_model", "tag_threshold", "tag_policy", "tag_beta", "done"}
Rf06 ==
  book = "colab_06" =>
    /\ cell \in {"select", "threshold", "test"} => Held({"FEATURES", "BEST_PARAMS"})
    /\ cell = "threshold" => Held({"selection_model"}) /\ OfThese(mem.selection_model)
    /\ cell = "test" => Held({"CHOSEN_THRESHOLD"}) /\ OfThese(mem.CHOSEN_THRESHOLD)
    /\ cell \in Tested06 =>
         /\ Held({"CHOSEN_THRESHOLD", "final_model", "test_report"})
         /\ TestedWith(mem.final_model, mem.CHOSEN_THRESHOLD)

RfCells == Rf02 /\ Rf03 /\ Rf04 /\ Rf05 /\ Rf06

RfKept == RandomForestDecisions \cup {"res_base", "res_hist"}
RfUnseen == \A n \in RfKept \cap DOMAIN mem : Unseen(mem[n])

RfReport ==
  Is("test_report") => OneConfig(mem.test_report) /\ ~Unseen(mem.test_report)
RfRun ==
  Is("run") => (mem.run.sealed_test_touched <=> ~Unseen(mem.run.evaluated))

\* a finished tuning.json holds a threshold of its own features and parameters
RfFiles ==
  \A k \in DOMAIN disk :
    k[2] = "tuning.json" /\ disk[k] # Torn =>
      /\ disk[k].chosen_threshold.of = {<<disk[k].features, disk[k].best_params>>}
      /\ Unseen(disk[k].chosen_threshold)

\* the tags IsExisting looks for in a version
Tagged(v) == v.threshold_policy /\ v.beta
IsSequence(s) == s \in Seq({s[i] : i \in DOMAIN s})
(***************************************************************************)
(* Versions with all their tags are of the model their threshold was       *)
(* chosen for, and no two of them have the same threshold.                 *)
(***************************************************************************)
SoundRegistry(versions) ==
  /\ IsSequence(versions)
  /\ \A i \in DOMAIN versions :
       Tagged(versions[i]) => TestedWith(versions[i].model, versions[i].decision_threshold)
  /\ \A i, j \in DOMAIN versions :
       /\ Tagged(versions[i]) /\ Tagged(versions[j])
       /\ versions[i].decision_threshold = versions[j].decision_threshold
       => i = j
RfVersions == SoundRegistry(Versions)

\* while colab_06 tags a version, the version is the last one and has the tags
\* given so far, and no other one has the policy
Tags == {"tag_threshold", "tag_policy", "tag_beta"}
Being ==
  [model |-> mem.final_model,
   decision_threshold |-> IF cell = "tag_threshold" THEN Torn ELSE mem.CHOSEN_THRESHOLD,
   threshold_policy |-> IF cell = "tag_beta" THEN TRUE ELSE FALSE, beta |-> FALSE]
RfTags ==
  book = "colab_06" =>
    /\ cell \in Tags \cup {"log_model"} => Existing = {}
    /\ cell \in Tags => Versions # <<>> /\ Versions[Len(Versions)] = Being
    /\ cell = "done" => Existing # {}

RfDisk == RfFiles /\ RfVersions
\* what does not depend on the cell, and what does
RfRest == RfUnseen /\ RfReport /\ RfRun /\ RfDisk
(***************************************************************************)
(* What each cell goes on with; the version being tagged; and what no cell *)
(* may change, whichever of the books left it: decisions without test      *)
(* rows, a test report of one configuration, a tag that tells whether test *)
(* rows were used, sound files and a sound registry.  Forest(f, p, parts)  *)
(* is determined by features and parameters, so a threshold and a model    *)
(* that agree on both were made for each other, whichever kernel made      *)
(* them.                                                                   *)
(***************************************************************************)
RfInv == RfCells /\ RfTags /\ RfRest

\* without test rows nothing of them is made
LEMMA UnseenMix ==
  ASSUME NEW S, \A v \in S : Unseen(v)
  PROVE  Unseen(Mix(S))
BY Sources DEF Unseen

LEMMA UnseenRows ==
  /\ Unseen(X("train")) /\ Unseen(Y("train")) /\ Unseen(X("val")) /\ Unseen(Y("val"))
  /\ \A p : X(p).of = {} /\ Y(p).of = {}
BY DEF Unseen, X, Y, From

\* a forest is of its features and parameters, and of the rows it is fitted to
LEMMA Forests ==
  ASSUME NEW f, NEW p, NEW parts
  PROVE  /\ Forest(f, p, parts).of = {<<f, p>>}
         /\ "test" \notin parts => Unseen(Forest(f, p, parts))
<1> DEFINE rows == UNION {RowsOf(q) : q \in parts}
<1>1. Forest(f, p, parts) = From(Mix(rows).facts, {<<f, p>>})
  BY DEF Forest
<1>2. ASSUME "test" \notin parts, NEW v \in rows
      PROVE  Unseen(v)
  <2>1. PICK q \in parts : v = X(q) \/ v = Y(q)
    BY DEF RowsOf
  <2>2. q # "test"
    BY <1>2, <2>1
  <2>3. QED
    BY <2>1, <2>2 DEF Unseen, X, Y, From
<1> HIDE DEF rows
<1>3. "test" \notin parts => Unseen(Mix(rows))
  BY <1>2, UnseenMix
<1>4. QED
  BY <1>1, <1>3, Sources DEF Unseen

\* the walk-forward folds are of training and validation rows
LEMMA FoldsEndBeforeTest == "test" \notin FoldParts
BY DEF FoldParts, Meets, RfWindow, Cuts, TestWidth

\* what is chosen on validation rows
LEMMA OnValRows ==
  ASSUME NEW v
  PROVE  /\ Mix({v, X("val"), Y("val")}).of = v.of
         /\ Unseen(v) => Unseen(Mix({v, X("val"), Y("val")}))
<1> DEFINE S == {v, X("val"), Y("val")}
<1>1. UNION {w.of : w \in S} = v.of
  BY UnseenRows
<1>2. Mix(S).of = v.of
  BY <1>1, Sources
<1>3. ASSUME Unseen(v)
      PROVE  Unseen(Mix(S))
  <2>1. \A w \in S : Unseen(w)
    BY <1>3, UnseenRows
  <2>2. QED
    BY <2>1, UnseenMix
<1>4. QED
  BY <1>2, <1>3

\* a test report is of its threshold's configuration, and of test rows
LEMMA Reported ==
  ASSUME NEW model, NEW threshold, TestedWith(model, threshold)
  PROVE  /\ OneConfig(Mix({model, threshold, X("test"), Y("test")}))
         /\ ~Unseen(Mix({model, threshold, X("test"), Y("test")}))
<1> DEFINE S == {model, threshold, X("test"), Y("test")}
<1>1. PICK c \in threshold.of :
        threshold.of = {<<c[1], c[2]>>} /\ model = Forest(c[1], c[2], {"train", "val"})
  BY DEF TestedWith
<1>2. UNION {w.of : w \in S} = {<<c[1], c[2]>>}
  BY <1>1, Forests, UnseenRows
<1>3. X("test") \in S /\ <<"test", "x">> \in X("test").facts
  BY DEF X, From
<1> HIDE DEF S
<1>4. Mix(S).of = {<<c[1], c[2]>>} /\ <<"test", "x">> \in Mix(S).facts
  BY <1>2, <1>3, Sources
<1>5. OneConfig(Mix(S)) /\ ~Unseen(Mix(S))
  BY <1>4 DEF OneConfig, Unseen
<1>6. QED
  BY <1>5 DEF S

\* a threshold belongs to one model
LEMMA OneModelPerThreshold ==
  ASSUME NEW t, NEW m, NEW n, TestedWith(m, t), TestedWith(n, t)
  PROVE  m = n
BY DEF TestedWith

\* names that are not bound keep their values, and decisions stay unseen

\* decisions stay unseen when what is bound is
LEMMA RfBindUnseen ==
  ASSUME NEW new, RfUnseen, Bind(new), \A n \in RfKept \cap DOMAIN new : Unseen(new[n])
  PROVE  RfUnseen'
BY Bound DEF RfUnseen

RfTracked ==
  {"FEATURES", "BEST_PARAMS", "res_base", "res_hist", "model", "chosen_thr", "study",
   "best_model", "selection_model", "folds_result", "CHOSEN_THRESHOLD", "final_model",
   "test_report", "run"}

\* binding names the invariant does not speak of
LEMMA RfQuiet ==
  ASSUME NEW new, RfUnseen, RfReport, RfRun, Bind(new), DOMAIN new \cap RfTracked = {}
  PROVE  /\ RfUnseen' /\ RfReport' /\ RfRun'
         /\ \A n \in RfTracked : n \in DOMAIN mem' <=> n \in DOMAIN mem
         /\ \A n \in RfTracked \cap DOMAIN mem : mem'[n] = mem[n]
<1>1. /\ \A n \in RfTracked : n \in DOMAIN mem' <=> n \in DOMAIN mem
      /\ \A n \in RfTracked \cap DOMAIN mem : mem'[n] = mem[n]
  BY Bound
<1>2. RfKept \subseteq RfTracked
  BY DEF RfKept, RandomForestDecisions, RfTracked
<1>3. RfUnseen'
  BY <1>1, <1>2 DEF RfUnseen
<1>4. "test_report" \in RfTracked /\ "run" \in RfTracked
  BY DEF RfTracked
<1>5. RfReport' /\ RfRun'
  BY <1>1, <1>4 DEF RfReport, RfRun, Is
<1>6. QED
  BY <1>1, <1>3, <1>5

LEMMA RfDiskKept ==
  ASSUME RfDisk, UNCHANGED disk
  PROVE  RfDisk' /\ Versions' = Versions
<1>1. Versions' = Versions
  BY DEF Versions, OnDisk
<1>2. QED
  BY <1>1 DEF RfDisk, RfFiles, RfVersions

LEMMA RfDiskWritten ==
  ASSUME RfDisk, NEW d, NEW f, NEW value, Write(d, f, value),
         f \notin {"tuning.json", "paysim-fraud-rf"}
  PROVE  RfDisk' /\ Versions' = Versions
<1> DEFINE new == <<d, f>>
<1>1. /\ DOMAIN disk' = DOMAIN disk \cup {new}
      /\ \A k \in DOMAIN disk : k # new => disk'[k] = disk[k]
  BY DEF Write, Put
<1>2. new[2] \notin {"tuning.json", "paysim-fraud-rf"}
  OBVIOUS
<1>3. new # <<"mlflow", "paysim-fraud-rf">>
  OBVIOUS
<1> HIDE DEF new
<1>4. RfFiles'
  BY <1>1, <1>2 DEF RfDisk, RfFiles
<1>5. Versions' = Versions
  BY <1>1, <1>3 DEF Versions, OnDisk
<1>6. RfVersions'
  BY <1>5 DEF RfDisk, RfVersions
<1>7. QED
  BY <1>4, <1>5, <1>6 DEF RfDisk

\* a cell that binds only such names
LEMMA RfQuietly ==
  ASSUME RfRest, NEW c, NEW next, NEW new, Compute(c, next, new), DOMAIN new \cap RfTracked = {}
  PROVE  /\ RfRest' /\ Versions' = Versions /\ cell' = next /\ cell = c /\ book' = book
         /\ \A n \in RfTracked : n \in DOMAIN mem' <=> n \in DOMAIN mem
         /\ \A n \in RfTracked \cap DOMAIN mem : mem'[n] = mem[n]
<1>1. Bind(new) /\ UNCHANGED disk /\ cell' = next /\ cell = c /\ book' = book
  BY DEF Compute, At, Goto, NoWrites
<1>2. RfDisk' /\ Versions' = Versions
  BY <1>1, RfDiskKept DEF RfRest
<1>3. QED
  BY <1>1, <1>2, RfQuiet DEF RfRest

\* a cell that binds decisions
LEMMA RfBinds ==
  ASSUME RfRest, NEW c, NEW next, NEW new, Compute(c, next, new),
         \A n \in RfKept \cap DOMAIN new : Unseen(new[n]),
         {"test_report", "run"} \cap DOMAIN new = {}
  PROVE  /\ RfRest' /\ Versions' = Versions /\ cell' = next /\ cell = c /\ book' = book
<1>1. Bind(new) /\ UNCHANGED disk /\ cell' = next /\ cell = c /\ book' = book
  BY DEF Compute, At, Goto, NoWrites
<1>2. RfDisk' /\ Versions' = Versions
  BY <1>1, RfDiskKept DEF RfRest
<1>3. RfUnseen'
  BY <1>1, RfBindUnseen DEF RfRest
<1>4. \A n \in {"test_report", "run"} :
        n \in DOMAIN mem' => n \in DOMAIN mem /\ mem'[n] = mem[n]
  BY <1>1, Bound
<1>5. RfReport' /\ RfRun'
  BY <1>4 DEF RfRest, RfReport, RfRun, Is
<1>6. QED
  BY <1>1, <1>2, <1>3, <1>5 DEF RfRest

\* a file that is no tuning.json is written
LEMMA RfWritesFile ==
  ASSUME RfRest, NEW c, NEW next, NEW d, NEW f, NEW value,
         Close(c, next, d, f, value),
         f \notin {"tuning.json", "paysim-fraud-rf"}
  PROVE  /\ RfRest' /\ Versions' = Versions /\ cell' = next /\ cell = c /\ book' = book
         /\ mem' = mem
<1>1. /\ UNCHANGED mem /\ cell' = next /\ cell = c /\ book' = book
      /\ \E v : Write(d, f, v)
  BY DEF Close, At, Goto
<1>2. RfDisk' /\ Versions' = Versions
  BY <1>1, RfDiskWritten DEF RfRest
<1>3. RfUnseen' /\ RfReport' /\ RfRun'
  BY <1>1 DEF RfRest, RfUnseen, RfReport, RfRun, Is
<1>4. QED
  BY <1>1, <1>2, <1>3 DEF RfRest

\* a file that is no tuning.json is opened
LEMMA RfOpensFile ==
  ASSUME RfRest, NEW c, NEW next, NEW d, NEW f, Open(c, next, d, f),
         f \notin {"tuning.json", "paysim-fraud-rf"}
  PROVE  /\ RfRest' /\ Versions' = Versions /\ cell' = next /\ cell = c /\ book' = book
         /\ mem' = mem
<1>1. Close(c, next, d, f, Torn)
  BY DEF Open, Close
<1>2. QED
  BY <1>1, RfWritesFile

\* a cell that raises
LEMMA RfRaises ==
  ASSUME RfInv, NEW c, Raise(c)
  PROVE  RfInv' /\ book' = book
<1>1. Compute(c, "raised", NoNames) /\ DOMAIN NoNames = {}
  BY DEF Raise, NoNames
<1>2. RfRest' /\ cell' = "raised" /\ book' = book
  BY <1>1, RfQuietly DEF RfInv
<1>3. RfCells'
  BY <1>2 DEF RfCells, Rf02, Rf03, Rf04, Rf05, Rf06, Tested06
<1>4. RfTags'
  BY <1>2 DEF RfTags, Tags
<1>5. QED
  BY <1>2, <1>3, <1>4 DEF RfInv

\* the cached frame, or the CSV it is made of
LEMMA RfReadsFrame ==
  ASSUME RfRest, NEW next, ReadFrame(next)
  PROVE  RfRest' /\ cell' \in {"raised", "cache", next} /\ book' = book /\ Versions' = Versions
<1> DEFINE file == "modeling_frame.parquet"
           framed == [frame |-> disk[<<cwd, file>>].steps]
<1>1. CASE Compute("frame", "raised", NoNames)
  BY <1>1, RfQuietly DEF NoNames
<1>2. CASE Compute("frame", next, framed)
  <2>1. DOMAIN framed = {"frame"}
    OBVIOUS
  <2> HIDE DEF framed
  <2>2. QED
    BY <1>2, <2>1, RfQuietly DEF RfTracked
<1>3. CASE \E steps \in {"whole", "cut"} :
             /\ At("frame") /\ Goto("cache")
             /\ Bind([frame |-> steps, MAX_STEPS |-> steps])
             /\ Write(cwd, file, Torn) /\ NoTraining /\ UNCHANGED restarts
  <2>1. PICK steps \in {"whole", "cut"} :
          /\ At("frame") /\ Goto("cache")
          /\ Bind([frame |-> steps, MAX_STEPS |-> steps])
          /\ Write(cwd, file, Torn) /\ NoTraining /\ UNCHANGED restarts
    BY <1>3
  <2> DEFINE new == [frame |-> steps, MAX_STEPS |-> steps]
  <2>2. Bind(new) /\ DOMAIN new = {"frame", "MAX_STEPS"}
    BY <2>1
  <2> HIDE DEF new
  <2>3. RfUnseen' /\ RfReport' /\ RfRun'
    BY <2>2, RfQuiet DEF RfRest, RfTracked
  <2>4. RfDisk' /\ Versions' = Versions
    BY <2>1, RfDiskWritten DEF RfRest
  <2>5. QED
    BY <2>1, <2>3, <2>4 DEF RfRest, At, Goto
<1>4. CASE Close("cache", next, cwd, file, [steps |-> mem.frame])
  BY <1>4, RfWritesFile
<1>5. QED
  BY <1>1, <1>2, <1>3, <1>4 DEF ReadFrame, NoCsv, Raise

\* what a cell reads of the selected features
LEMMA RfReadsFeatures ==
  ASSUME NEW c, NEW next, NEW new, ReadFeatures(c, next, new)
  PROVE  Raise(c) \/ \E value : Compute(c, next, Override([FEATURES |-> value], new))
BY DEF ReadFeatures

\* the tracking server is looked for
LEMMA RfTracks ==
  ASSUME RfRest, NEW next, _mlflow_ready(next)
  PROVE  /\ RfRest' /\ Versions' = Versions /\ cell' = next /\ cell = "track" /\ book' = book
         /\ \A n \in RfTracked : n \in DOMAIN mem' <=> n \in DOMAIN mem
         /\ \A n \in RfTracked \cap DOMAIN mem : mem'[n] = mem[n]
<1>1. PICK uri \in {"server", "local", "none"} : Compute("track", next, [MLFLOW |-> uri])
  BY DEF _mlflow_ready
<1> DEFINE new == [MLFLOW |-> uri]
<1>2. Compute("track", next, new) /\ DOMAIN new = {"MLFLOW"}
  BY <1>1
<1> HIDE DEF new
<1>3. QED
  BY <1>2, RfQuietly DEF RfTracked

\* a run whose tag tells what its evaluation is of
LEMMA RfLogs ==
  ASSUME RfRest, NEW next, NEW evaluated, NEW touched, log_rf_evaluation(next, evaluated, touched),
         touched <=> ~Unseen(evaluated)
  PROVE  /\ RfRest' /\ Versions' = Versions /\ cell = "log" /\ cell' \in {next, "raised"}
         /\ book' = book
<1>1. CASE Compute("log", next, NoNames) \/ Raise("log")
  BY <1>1, RfQuietly DEF NoNames, Raise
<1>2. CASE Compute("log", next, SetTags(evaluated, touched))
  <2>1. /\ Bind([run |-> [evaluated |-> evaluated, sealed_test_touched |-> touched]])
        /\ UNCHANGED disk /\ cell = "log" /\ cell' = next /\ book' = book
    BY <1>2 DEF Compute, SetTags, At, Goto, NoWrites
  <2>2. /\ "run" \in DOMAIN mem'
        /\ mem'["run"] = [evaluated |-> evaluated, sealed_test_touched |-> touched]
        /\ \A n \in RfKept \cup {"test_report"} :
             n \in DOMAIN mem' => n \in DOMAIN mem /\ mem'[n] = mem[n]
    BY <2>1 DEF Bind, Override, RfKept, RandomForestDecisions
  <2>3. RfUnseen' /\ RfReport'
    BY <2>2 DEF RfRest, RfUnseen, RfReport, Is
  <2>4. RfRun'
    BY <2>2 DEF RfRun, Unseen
  <2>5. QED
    BY <2>1, <2>3, <2>4, RfDiskKept DEF RfRest
<1>3. QED
  BY <1>1, <1>2 DEF log_rf_evaluation

\* a cell that asks for a validation partition
LEMMA RfNeedsVal ==
  ASSUME NEW c, NEW next, NEW new, NeedsVal(c, next, new)
  PROVE  Compute(c, next, new) \/ Raise(c)
BY DEF NeedsVal

\* colab_01 decides nothing
LEMMA Rf01Steps ==
  ASSUME RfInv, book = "colab_01", Next01
  PROVE  RfInv' /\ book' = "colab_01"
<1>1. SUFFICES RfRest' /\ book' = book
  BY DEF RfInv, RfCells, Rf02, Rf03, Rf04, Rf05, Rf06, RfTags
<1>2. RfRest
  BY DEF RfInv
<1>3. CASE connect_paysim
  <2>1. CASE Raise("frame")
    BY <1>2, <2>1, RfQuietly DEF Raise, NoNames
  <2>2. ASSUME NEW steps, Compute("frame", "overall", [con |-> steps, MAX_STEPS |-> steps])
        PROVE  RfRest' /\ book' = book
    <3> DEFINE new == [con |-> steps, MAX_STEPS |-> steps]
    <3>1. Compute("frame", "overall", new) /\ DOMAIN new = {"con", "MAX_STEPS"}
      BY <2>2
    <3> HIDE DEF new
    <3>2. QED
      BY <1>2, <3>1, RfQuietly DEF RfTracked
  <2>3. QED
    BY <1>3, <2>1, <2>2 DEF connect_paysim, NoCsv
<1>4. CASE Overall01
  <2> DEFINE new == [overall |-> Y("whole")]
  <2>1. Compute("overall", "track", new) /\ DOMAIN new = {"overall"}
    BY <1>4 DEF Overall01
  <2> HIDE DEF new
  <2>2. QED
    BY <1>2, <2>1, RfQuietly DEF RfTracked
<1>5. CASE Track01
  BY <1>2, <1>5, RfTracks DEF Track01
<1>6. CASE Profile01
  <2> DEFINE new == [profile |-> data_version("whole")]
  <2>1. DOMAIN new = {"profile"} /\ DOMAIN NoNames = {}
    BY DEF NoNames
  <2>2. \/ Compute("log", "done", NoNames) \/ Compute("log", "done", new)
        \/ Compute("log", "raised", NoNames)
    BY <1>6 DEF Profile01, Raise
  <2> HIDE DEF new
  <2>3. QED
    BY <1>2, <2>1, <2>2, RfQuietly DEF RfTracked
<1>7. QED
  BY <1>3, <1>4, <1>5, <1>6 DEF Next01

LEMMA Rf02Steps ==
  ASSUME RfInv, book = "colab_02", Next02
  PROVE  RfInv' /\ book' = "colab_02"
<1>1. ASSUME RfRest', Rf02', book' = book
      PROVE  RfInv' /\ book' = "colab_02"
  BY <1>1 DEF RfInv, RfCells, Rf03, Rf04, Rf05, Rf06, RfTags
<1>2. RfRest /\ Rf02 /\ RfUnseen
  BY DEF RfInv, RfCells, RfRest
<1>3. CASE Load02
  BY <1>1, <1>2, <1>3, RfReadsFrame DEF Load02, Rf02
<1>4. CASE train_eval_cm
  <2> DEFINE base == Mix({Forest("static", Default, {"train"}), X("val"), Y("val")})
             hist == Mix({Forest("all", Default, {"train"}), X("val"), Y("val")})
             new == [res_base |-> base, res_hist |-> hist]
  <2>1. CASE Raise("arms")
    BY <2>1, RfRaises
  <2>2. CASE Compute("arms", "choose", new)
    <3>1. Unseen(base) /\ Unseen(hist)
      BY Forests, OnValRows
    <3> HIDE DEF base, hist
    <3>2. /\ DOMAIN new = {"res_base", "res_hist"} /\ \A n \in DOMAIN new : Unseen(new[n])
      BY <3>1
    <3>3. Held({"res_base", "res_hist"})'
      BY <2>2, <3>2, Bound DEF Held, Compute
    <3> HIDE DEF new
    <3>4. QED
      BY <1>1, <1>2, <2>2, <3>2, <3>3, RfBinds DEF Rf02
  <2>3. QED
    BY <1>4, <2>1, <2>2, RfNeedsVal DEF train_eval_cm
<1>5. CASE Choose02 \/ save_selected_features
  <2>1. /\ RfRest' /\ mem' = mem /\ book' = book /\ cell \in {"choose", "save"}
    <3>1. CASE Choose02
      BY <1>2, <3>1, RfOpensFile DEF Choose02
    <3>2. CASE save_selected_features
      BY <1>2, <3>2, RfWritesFile DEF save_selected_features
    <3>3. QED
      BY <1>5, <3>1, <3>2
  <2>2. Held({"res_base", "res_hist"})'
    BY <1>2, <2>1 DEF Rf02, Held
  <2>3. QED
    BY <1>1, <2>1, <2>2 DEF Rf02
<1>6. CASE Track02
  <2>1. /\ RfRest' /\ cell = "track" /\ book' = book
        /\ \A n \in RfTracked : n \in DOMAIN mem' <=> n \in DOMAIN mem
    BY <1>2, <1>6, RfTracks DEF Track02
  <2>2. Held({"res_base", "res_hist"})'
    BY <1>2, <2>1 DEF Rf02, Held, RfTracked
  <2>3. QED
    BY <1>1, <2>1, <2>2 DEF Rf02
<1>7. CASE Log02
  <2> DEFINE evaluated == Mix({mem.res_base, mem.res_hist})
  <2>1. cell = "log"
    BY <1>7 DEF Log02, log_rf_evaluation
  <2>2. \A v \in {mem.res_base, mem.res_hist} : Unseen(v)
    BY <1>2, <2>1 DEF Rf02, Held, RfUnseen, RfKept
  <2>3. Unseen(evaluated)
    BY <2>2, UnseenMix
  <2>4. RfRest' /\ book' = book /\ cell' \in {"done", "raised"}
    BY <1>2, <1>7, <2>3, RfLogs DEF Log02
  <2>5. QED
    BY <1>1, <2>4 DEF Rf02
<1>8. QED
  BY <1>3, <1>4, <1>5, <1>6, <1>7 DEF Next02

LEMMA Rf03Steps ==
  ASSUME RfInv, book = "colab_03", Next03
  PROVE  RfInv' /\ book' = "colab_03"
<1>1. ASSUME RfRest', Rf03', book' = book
      PROVE  RfInv' /\ book' = "colab_03"
  BY <1>1 DEF RfInv, RfCells, Rf02, Rf04, Rf05, Rf06, RfTags
<1>2. RfRest /\ Rf03 /\ RfUnseen
  BY DEF RfInv, RfCells, RfRest
<1>3. CASE Load03
  BY <1>1, <1>2, <1>3, RfReadsFrame DEF Load03, Rf03
<1>4. CASE Features03
  <2>1. CASE Raise("features")
    BY <2>1, RfRaises
  <2>2. ASSUME NEW value, Compute("features", "fit", Override([FEATURES |-> value], NoNames))
        PROVE  RfInv' /\ book' = "colab_03"
    <3> DEFINE new == Override([FEATURES |-> value], NoNames)
    <3>1. DOMAIN new = {"FEATURES"} /\ Compute("features", "fit", new)
      BY <2>2 DEF Override, NoNames
    <3> HIDE DEF new
    <3>2. "FEATURES" \notin RfKept
      BY DEF RfKept, RandomForestDecisions
    <3>3. RfRest' /\ cell' = "fit" /\ book' = book
      BY <1>2, <3>1, <3>2, RfBinds
    <3>4. QED
      BY <1>1, <3>3 DEF Rf03
  <2>3. QED
    BY <1>4, <2>1, <2>2, RfReadsFeatures DEF Features03
<1>5. CASE Fit03
  <2> DEFINE model == Forest(mem.FEATURES, Default, {"train"}) new == [model |-> model]
  <2>1. CASE Raise("fit")
    BY <2>1, RfRaises
  <2>2. CASE Compute("fit", "threshold", new)
    <3>1. Unseen(model)
      BY Forests
    <3> HIDE DEF model
    <3>2. DOMAIN new = {"model"} /\ \A n \in DOMAIN new : Unseen(new[n])
      BY <3>1
    <3> HIDE DEF new
    <3>3. Held({"model"})'
      BY <2>2, <3>2, Bound DEF Held, Compute
    <3>4. RfRest' /\ cell' = "threshold" /\ book' = book
      BY <1>2, <2>2, <3>2, RfBinds
    <3>5. QED
      BY <1>1, <3>3, <3>4 DEF Rf03
  <2>3. QED
    BY <1>5, <2>1, <2>2, RfNeedsVal DEF Fit03
<1>6. CASE Threshold03
  <2> DEFINE thr == Mix({mem.model, X("val"), Y("val")}) new == [chosen_thr |-> thr]
  <2>1. Compute("threshold", "walk", new) /\ cell = "threshold"
    BY <1>6 DEF Threshold03, Compute, At
  <2>2. Unseen(mem.model) /\ Held({"model"})
    BY <1>2, <2>1 DEF Rf03, Held, RfUnseen, RfKept, RandomForestDecisions
  <2>3. Unseen(thr)
    BY <2>2, OnValRows
  <2> HIDE DEF thr
  <2>4. DOMAIN new = {"chosen_thr"} /\ \A n \in DOMAIN new : Unseen(new[n])
    BY <2>3
  <2> HIDE DEF new
  <2>5. Held({"model"})' /\ Held({"chosen_thr"})'
    BY <2>1, <2>2, <2>4, Bound DEF Held, Compute
  <2>6. RfRest' /\ cell' = "walk" /\ book' = book
    BY <1>2, <2>1, <2>4, RfBinds
  <2>7. QED
    BY <1>1, <2>5, <2>6 DEF Rf03
<1>7. CASE run_walkforward
  <2> DEFINE folds == Forest(mem.FEATURES, Default, FoldParts) new == [folds_result |-> folds]
  <2>1. Compute("walk", "cohorts", new) /\ cell = "walk"
    BY <1>7 DEF run_walkforward, Compute, At
  <2>2. Unseen(folds)
    BY Forests, FoldsEndBeforeTest
  <2> HIDE DEF folds
  <2>3. DOMAIN new = {"folds_result"} /\ \A n \in DOMAIN new : Unseen(new[n])
    BY <2>2
  <2> HIDE DEF new
  <2>4. Held({"model"})' /\ Held({"chosen_thr"})'
    BY <1>2, <2>1, Bound DEF Rf03, Held, Compute
  <2>5. RfRest' /\ cell' = "cohorts" /\ book' = book
    BY <1>2, <2>1, <2>3, RfBinds
  <2>6. QED
    BY <1>1, <2>4, <2>5 DEF Rf03
<1>8. CASE Cohorts03
  <2> DEFINE new == [rows |-> Mix({mem.model, X("val"), Y("val")})]
  <2>1. Compute("cohorts", "track", new) /\ cell = "cohorts" /\ DOMAIN new = {"rows"}
    BY <1>8 DEF Cohorts03, Compute, At
  <2> HIDE DEF new
  <2>2. Held({"model"})' /\ Held({"chosen_thr"})'
    BY <1>2, <2>1, Bound DEF Rf03, Held, Compute
  <2>3. RfRest' /\ cell' = "track" /\ book' = book
    BY <1>2, <2>1, RfQuietly DEF RfTracked
  <2>4. QED
    BY <1>1, <2>2, <2>3 DEF Rf03
<1>9. CASE Track03
  <2>1. /\ RfRest' /\ cell = "track" /\ cell' = "log" /\ book' = book
        /\ \A n \in RfTracked : n \in DOMAIN mem' <=> n \in DOMAIN mem
    BY <1>2, <1>9, RfTracks DEF Track03
  <2>2. Held({"model"})' /\ Held({"chosen_thr"})'
    BY <1>2, <2>1 DEF Rf03, Held, RfTracked
  <2>3. QED
    BY <1>1, <2>1, <2>2 DEF Rf03
<1>10. CASE Log03
  <2> DEFINE S == {mem.model, mem.chosen_thr, X("val"), Y("val")}
  <2>1. cell = "log"
    BY <1>10 DEF Log03, log_rf_evaluation
  <2>2. \A v \in S : Unseen(v)
    BY <1>2, <2>1, UnseenRows DEF Rf03, Held, RfUnseen, RfKept, RandomForestDecisions
  <2>3. Unseen(Mix(S))
    BY <2>2, UnseenMix
  <2>4. RfRest' /\ book' = book /\ cell' \in {"done", "raised"}
    BY <1>2, <1>10, <2>3, RfLogs DEF Log03
  <2>5. QED
    BY <1>1, <2>4 DEF Rf03
<1>11. QED
  BY <1>3, <1>4, <1>5, <1>6, <1>7, <1>8, <1>9, <1>10 DEF Next03

\* what stays and what is new
LEMMA RfHeldOn ==
  ASSUME NEW c, NEW next, NEW new, Compute(c, next, new)
  PROVE  /\ \A names : Held(names) => Held(names)'
         /\ \A n \in DOMAIN new : n \in DOMAIN mem' /\ mem'[n] = new[n]
         /\ \A n \in DOMAIN mem : n \notin DOMAIN new => mem'[n] = mem[n]
BY Bound DEF Held, Compute

\* tuning.json is written with a threshold of what it says
LEMMA RfTuningWritten ==
  ASSUME RfRest, UNCHANGED mem, NEW d, NEW value, Write(d, "tuning.json", value),
         value # Torn =>
           /\ value.chosen_threshold.of = {<<value.features, value.best_params>>}
           /\ Unseen(value.chosen_threshold)
  PROVE  RfRest' /\ Versions' = Versions
<1> DEFINE new == <<d, "tuning.json">>
<1>1. /\ DOMAIN disk' = DOMAIN disk \cup {new} /\ disk'[new] = value
      /\ \A k \in DOMAIN disk : k # new => disk'[k] = disk[k]
  BY DEF Write, Put
<1>2. new # <<"mlflow", "paysim-fraud-rf">>
  OBVIOUS
<1> HIDE DEF new
<1>3. RfFiles'
  BY <1>1 DEF RfRest, RfDisk, RfFiles
<1>4. Versions' = Versions
  BY <1>1, <1>2 DEF Versions, OnDisk
<1>5. RfVersions'
  BY <1>4 DEF RfRest, RfDisk, RfVersions
<1>6. RfUnseen' /\ RfReport' /\ RfRun'
  BY DEF RfRest, RfUnseen, RfReport, RfRun, Is
<1>7. QED
  BY <1>3, <1>4, <1>5, <1>6 DEF RfRest, RfDisk

\* in colab_04 only these parts are not trivial
LEMMA Rf04Enough ==
  ASSUME book = "colab_04", RfRest', Rf04', book' = book
  PROVE  RfInv' /\ book' = "colab_04"
BY DEF RfInv, RfCells, Rf02, Rf03, Rf05, Rf06, RfTags

\* the study and the model that come of the folds
LEMMA Rf04Searches ==
  ASSUME RfInv, book = "colab_04", Load04 \/ Features04 \/ objective \/ best_model
  PROVE  RfInv' /\ book' = "colab_04"
<1>1. RfRest /\ Rf04 /\ RfUnseen
  BY DEF RfInv, RfCells, RfRest
<1>2. CASE Load04
  <2>1. RfRest' /\ cell' \in {"raised", "cache", "features"} /\ book' = book
    BY <1>1, <1>2, RfReadsFrame DEF Load04
  <2>2. QED
    BY <2>1, Rf04Enough DEF Rf04
<1>3. CASE Features04
  <2>1. CASE Raise("features")
    BY <2>1, RfRaises
  <2>2. ASSUME NEW value, Compute("features", "tune", Override([FEATURES |-> value], NoNames))
        PROVE  RfInv' /\ book' = "colab_04"
    <3> DEFINE new == Override([FEATURES |-> value], NoNames)
    <3>1. DOMAIN new = {"FEATURES"} /\ Compute("features", "tune", new)
      BY <2>2 DEF Override, NoNames
    <3> HIDE DEF new
    <3>2. "FEATURES" \notin RfKept
      BY DEF RfKept, RandomForestDecisions
    <3>3. RfRest' /\ cell' = "tune" /\ book' = book
      BY <1>1, <3>1, <3>2, RfBinds
    <3>4. Held({"FEATURES"})'
      BY <3>1, RfHeldOn DEF Held
    <3>5. QED
      BY <3>3, <3>4, Rf04Enough DEF Rf04
  <2>3. QED
    BY <1>3, <2>1, <2>2, RfReadsFeatures DEF Features04
<1>4. CASE objective
  <2> DEFINE best == Best(mem.FEATURES)
             study == Forest(mem.FEATURES, best, FoldParts)
             new == [BEST_PARAMS |-> best, study |-> study]
  <2>1. CASE Raise("tune")
    BY <2>1, RfRaises
  <2>2. CASE Compute("tune", "best", new)
    <3>1. Unseen(study) /\ study.of = {<<mem.FEATURES, best>>}
      BY Forests, FoldsEndBeforeTest
    <3>2. Held({"FEATURES"})
      BY <1>1, <2>2 DEF Rf04, Compute, At
    <3> HIDE DEF study, best
    <3>3. /\ DOMAIN new = {"BEST_PARAMS", "study"}
          /\ new["BEST_PARAMS"] = best /\ new["study"] = study
      OBVIOUS
    <3> HIDE DEF new
    <3>4. \A n \in RfKept \cap DOMAIN new : Unseen(new[n])
      BY <3>1, <3>3 DEF RfKept, RandomForestDecisions
    <3>5. RfRest' /\ cell' = "best" /\ book' = book
      BY <1>1, <2>2, <3>3, <3>4, RfBinds
    <3>6. /\ Held({"FEATURES", "BEST_PARAMS", "study"})'
          /\ mem'["FEATURES"] = mem["FEATURES"] /\ mem'["BEST_PARAMS"] = best
          /\ mem'["study"] = study
      BY <2>2, <3>2, <3>3, RfHeldOn DEF Held
    <3>7. Held({"FEATURES", "BEST_PARAMS"})' /\ Held({"study"})'
      BY <3>6 DEF Held
    <3>8. OfThese(mem.study)'
      BY <3>1, <3>6 DEF OfThese
    <3>9. QED
      BY <3>5, <3>7, <3>8, Rf04Enough DEF Rf04
  <2>3. QED
    BY <1>4, <2>1, <2>2, RfNeedsVal DEF objective
<1>5. CASE best_model
  <2> DEFINE tree == Forest(mem.FEATURES, mem.BEST_PARAMS, {"train"})
             S == {mem.study, tree}
             best == Mix(S)
             new == [best_model |-> best]
  <2>1. Compute("best", "threshold", new) /\ cell = "best"
    BY <1>5 DEF best_model, Compute, At
  <2>2. Held({"FEATURES", "BEST_PARAMS"}) /\ Held({"study"}) /\ OfThese(mem.study)
    BY <1>1, <2>1 DEF Rf04
  <2>3. Unseen(tree) /\ tree.of = {<<mem.FEATURES, mem.BEST_PARAMS>>}
    BY Forests
  <2>4. Unseen(mem.study)
    BY <1>1, <2>2 DEF RfUnseen, RfKept, RandomForestDecisions, Held
  <2> HIDE DEF tree
  <2>5. \A v \in S : Unseen(v)
    BY <2>3, <2>4
  <2>6. UNION {v.of : v \in S} = {<<mem.FEATURES, mem.BEST_PARAMS>>}
    BY <2>2, <2>3 DEF OfThese
  <2> HIDE DEF S
  <2>7. Unseen(best) /\ best.of = {<<mem.FEATURES, mem.BEST_PARAMS>>}
    BY <2>5, <2>6, UnseenMix, Sources
  <2> HIDE DEF best
  <2>8. DOMAIN new = {"best_model"} /\ new["best_model"] = best
    OBVIOUS
  <2> HIDE DEF new
  <2>9. RfRest' /\ cell' = "threshold" /\ book' = book
    BY <1>1, <2>1, <2>7, <2>8, RfBinds
  <2>10. /\ mem'["FEATURES"] = mem["FEATURES"] /\ mem'["BEST_PARAMS"] = mem["BEST_PARAMS"]
         /\ mem'["best_model"] = best
         /\ Held({"FEATURES", "BEST_PARAMS"})' /\ Held({"best_model"})'
    BY <2>1, <2>2, <2>8, RfHeldOn DEF Held
  <2>11. OfThese(mem.best_model)'
    BY <2>7, <2>10 DEF OfThese
  <2>12. QED
    BY <2>9, <2>10, <2>11, Rf04Enough DEF Rf04
<1>6. QED
  BY <1>2, <1>3, <1>4, <1>5

\* the threshold, and the file that says what it goes with
LEMMA Rf04Saves ==
  ASSUME RfInv, book = "colab_04", Threshold04 \/ Save04 \/ tuning_out \/ Track04 \/ Log04
  PROVE  RfInv' /\ book' = "colab_04"
<1>1. RfRest /\ Rf04 /\ RfUnseen
  BY DEF RfInv, RfCells, RfRest
<1>2. CASE Threshold04
  <2> DEFINE thr == Mix({mem.best_model, X("val"), Y("val")})
             new == [CHOSEN_THRESHOLD |-> thr]
  <2>1. Compute("threshold", "save", new) /\ cell = "threshold"
    BY <1>2 DEF Threshold04, Compute, At
  <2>2. Held({"FEATURES", "BEST_PARAMS"}) /\ Held({"best_model"}) /\ OfThese(mem.best_model)
    BY <1>1, <2>1 DEF Rf04
  <2>3. Unseen(mem.best_model)
    BY <1>1, <2>2 DEF RfUnseen, RfKept, RandomForestDecisions, Held
  <2>4. Unseen(thr) /\ thr.of = {<<mem.FEATURES, mem.BEST_PARAMS>>}
    BY <2>2, <2>3, OnValRows DEF OfThese
  <2> HIDE DEF thr
  <2>5. DOMAIN new = {"CHOSEN_THRESHOLD"} /\ new["CHOSEN_THRESHOLD"] = thr
    OBVIOUS
  <2> HIDE DEF new
  <2>6. RfRest' /\ cell' = "save" /\ book' = book
    BY <1>1, <2>1, <2>4, <2>5, RfBinds
  <2>7. /\ mem'["FEATURES"] = mem["FEATURES"] /\ mem'["BEST_PARAMS"] = mem["BEST_PARAMS"]
        /\ mem'["CHOSEN_THRESHOLD"] = thr /\ Held({"FEATURES", "BEST_PARAMS"})'
        /\ Held({"best_model"})' /\ Held({"CHOSEN_THRESHOLD"})'
    BY <2>1, <2>2, <2>5, RfHeldOn DEF Held
  <2>8. OfThese(mem.CHOSEN_THRESHOLD)'
    BY <2>4, <2>7 DEF OfThese
  <2>9. QED
    BY <2>6, <2>7, <2>8, Rf04Enough DEF Rf04
<1>3. CASE Save04
  <2>1. /\ cell = "save" /\ cell' = "tuning" /\ book' = book /\ mem' = mem
        /\ Write(cwd, "tuning.json", Torn)
    BY <1>3 DEF Save04, Open, At, Goto
  <2>2. RfRest'
    BY <1>1, <2>1, RfTuningWritten
  <2>3. Rf04'
    BY <1>1, <2>1 DEF Rf04, Held, OfThese
  <2>4. QED
    BY <2>1, <2>2, <2>3, Rf04Enough
<1>4. CASE tuning_out
  <2> DEFINE value == [best_params |-> mem.BEST_PARAMS,
                       chosen_threshold |-> mem.CHOSEN_THRESHOLD, features |-> mem.FEATURES]
  <2>1. /\ cell = "tuning" /\ cell' = "track" /\ book' = book /\ mem' = mem
        /\ Write(cwd, "tuning.json", value)
    BY <1>4 DEF tuning_out, Close, At, Goto
  <2>2. Held({"CHOSEN_THRESHOLD"}) /\ OfThese(mem.CHOSEN_THRESHOLD)
    BY <1>1, <2>1 DEF Rf04
  <2>3. Unseen(mem.CHOSEN_THRESHOLD)
    BY <1>1, <2>2 DEF RfUnseen, RfKept, RandomForestDecisions, Held
  <2>4. /\ value.chosen_threshold.of = {<<value.features, value.best_params>>}
        /\ Unseen(value.chosen_threshold)
    BY <2>2, <2>3 DEF OfThese
  <2> HIDE DEF value
  <2>5. RfRest'
    BY <1>1, <2>1, <2>4, RfTuningWritten
  <2>6. Rf04'
    BY <1>1, <2>1 DEF Rf04, Held
  <2>7. QED
    BY <2>1, <2>5, <2>6, Rf04Enough
<1>5. CASE Track04
  <2>1. /\ RfRest' /\ cell = "track" /\ cell' = "log" /\ book' = book
        /\ \A n \in RfTracked : n \in DOMAIN mem' <=> n \in DOMAIN mem
    BY <1>1, <1>5, RfTracks DEF Track04
  <2>2. Held({"best_model"})' /\ Held({"CHOSEN_THRESHOLD"})'
    BY <1>1, <2>1 DEF Rf04, Held, RfTracked
  <2>3. QED
    BY <2>1, <2>2, Rf04Enough DEF Rf04
<1>6. CASE Log04
  <2> DEFINE S == {mem.best_model, mem.CHOSEN_THRESHOLD, X("val"), Y("val")}
  <2>1. cell = "log"
    BY <1>6 DEF Log04, log_rf_evaluation
  <2>2. \A v \in S : Unseen(v)
    BY <1>1, <2>1, UnseenRows DEF Rf04, Held, RfUnseen, RfKept, RandomForestDecisions
  <2>3. Unseen(Mix(S))
    BY <2>2, UnseenMix
  <2>4. RfRest' /\ book' = book /\ cell' \in {"done", "raised"}
    BY <1>1, <1>6, <2>3, RfLogs DEF Log04
  <2>5. QED
    BY <2>4, Rf04Enough DEF Rf04
<1>7. QED
  BY <1>2, <1>3, <1>4, <1>5, <1>6

LEMMA Rf04Steps ==
  ASSUME RfInv, book = "colab_04", Next04
  PROVE  RfInv' /\ book' = "colab_04"
BY Rf04Searches, Rf04Saves DEF Next04

\* a sequence, whatever it is a sequence of
LEMMA SeqOfItsOwn ==
  ASSUME NEW T, NEW s \in Seq(T)
  PROVE  IsSequence(s)
<1>1. DOMAIN s = 1..Len(s) /\ Len(s) \in Nat /\ s = [i \in 1..Len(s) |-> s[i]]
  OBVIOUS
<1>2. \A i \in 1..Len(s) : s[i] \in {s[j] : j \in DOMAIN s}
  BY <1>1
<1>3. QED
  BY <1>1, <1>2 DEF IsSequence

\* a new version has not all of its tags yet
LEMMA AppendSound ==
  ASSUME NEW versions, NEW v, SoundRegistry(versions), ~Tagged(v)
  PROVE  SoundRegistry(Append(versions, v))
<1> DEFINE S == {versions[i] : i \in DOMAIN versions} new == Append(versions, v)
           n == Len(versions)
<1>1. versions \in Seq(S \cup {v})
  BY DEF SoundRegistry, IsSequence
<1>2. /\ n \in Nat /\ DOMAIN versions = 1..n /\ DOMAIN new = 1..(n + 1)
      /\ new \in Seq(S \cup {v}) /\ new[n + 1] = v /\ \A i \in 1..n : new[i] = versions[i]
  BY <1>1
<1> HIDE DEF S, new, n
<1>3. IsSequence(new)
  BY <1>2, SeqOfItsOwn
<1>4. ASSUME NEW i \in DOMAIN new, Tagged(new[i])
      PROVE  i \in DOMAIN versions /\ new[i] = versions[i]
  <2>1. i # n + 1
    BY <1>2, <1>4
  <2>2. QED
    BY <1>2, <2>1
<1>5. \A i \in DOMAIN new : Tagged(new[i]) =>
        TestedWith(new[i].model, new[i].decision_threshold)
  BY <1>4 DEF SoundRegistry
<1>6. \A i, j \in DOMAIN new :
        /\ Tagged(new[i]) /\ Tagged(new[j])
        /\ new[i].decision_threshold = new[j].decision_threshold
        => i = j
  BY <1>4 DEF SoundRegistry
<1>7. QED
  BY <1>3, <1>5, <1>6 DEF SoundRegistry, new

\* another sound registry takes its place
LEMMA RfRegistryWritten ==
  ASSUME RfRest, UNCHANGED mem, NEW versions, Write("mlflow", "paysim-fraud-rf", versions),
         SoundRegistry(versions)
  PROVE  RfRest' /\ Versions' = versions
<1> DEFINE new == <<"mlflow", "paysim-fraud-rf">>
<1>1. /\ DOMAIN disk' = DOMAIN disk \cup {new} /\ disk'[new] = versions
      /\ \A k \in DOMAIN disk : k # new => disk'[k] = disk[k]
  BY DEF Write, Put
<1>2. new[2] # "tuning.json"
  OBVIOUS
<1>3. Versions' = versions
  BY <1>1 DEF Versions, OnDisk
<1> HIDE DEF new
<1>4. RfFiles'
  BY <1>1, <1>2 DEF RfRest, RfDisk, RfFiles
<1>5. RfVersions'
  BY <1>3 DEF RfVersions
<1>6. RfUnseen' /\ RfReport' /\ RfRun'
  BY DEF RfRest, RfUnseen, RfReport, RfRun, Is
<1>7. QED
  BY <1>3, <1>4, <1>5, <1>6 DEF RfRest, RfDisk

\* a cell that tests
LEMMA RfTests ==
  ASSUME RfRest, NEW c, NEW next, NEW new, Compute(c, next, new),
         \A n \in RfKept \cap DOMAIN new : Unseen(new[n]),
         "run" \notin DOMAIN new, "test_report" \in DOMAIN new,
         OneConfig(new["test_report"]), ~Unseen(new["test_report"])
  PROVE  /\ RfRest' /\ Versions' = Versions /\ cell' = next /\ cell = c /\ book' = book
<1>1. Bind(new) /\ UNCHANGED disk /\ cell' = next /\ cell = c /\ book' = book
  BY DEF Compute, At, Goto, NoWrites
<1>2. RfDisk' /\ Versions' = Versions
  BY <1>1, RfDiskKept DEF RfRest
<1>3. RfUnseen'
  BY <1>1, RfBindUnseen DEF RfRest
<1>4. RfReport'
  BY <1>1, Bound DEF RfReport
<1>5. "run" \in DOMAIN mem' => "run" \in DOMAIN mem /\ mem'["run"] = mem["run"]
  BY <1>1, Bound
<1>6. RfRun'
  BY <1>5 DEF RfRest, RfRun, Is
<1>7. QED
  BY <1>1, <1>2, <1>3, <1>4, <1>6 DEF RfRest

\* in colab_05 only these parts are not trivial
LEMMA Rf05Enough ==
  ASSUME book = "colab_05", RfRest', Rf05', book' = book
  PROVE  RfInv' /\ book' = "colab_05"
BY DEF RfInv, RfCells, Rf02, Rf03, Rf04, Rf06, RfTags

\* the threshold comes with the features and parameters it was chosen for
LEMMA Rf05Loads ==
  ASSUME RfInv, book = "colab_05", Load05 \/ Tuning05 \/ Auto05
  PROVE  RfInv' /\ book' = "colab_05"
<1>1. RfRest /\ Rf05 /\ RfUnseen /\ RfFiles
  BY DEF RfInv, RfCells, RfRest, RfDisk
<1>2. CASE Load05
  <2>1. RfRest' /\ cell' \in {"raised", "cache", "tuning"} /\ book' = book
    BY <1>1, <1>2, RfReadsFrame DEF Load05
  <2>2. QED
    BY <2>1, Rf05Enough DEF Rf05
<1>3. CASE Tuning05
  <2> DEFINE file == <<cwd, "tuning.json">> tuning == disk[file]
             f == tuning.features p == tuning.best_params t == tuning.chosen_threshold
             new == [FEATURES |-> f, BEST_PARAMS |-> p, CHOSEN_THRESHOLD |-> t]
  <2>1. CASE Raise("tuning")
    BY <2>1, RfRaises
  <2>2. CASE file \in DOMAIN disk /\ tuning # Torn /\ Compute("tuning", "refit", new)
    <3>1. file[2] = "tuning.json"
      OBVIOUS
    <3>2. t.of = {<<f, p>>} /\ Unseen(t)
      BY <1>1, <2>2, <3>1 DEF RfFiles
    <3> HIDE DEF f, p, t
    <3>3. /\ DOMAIN new = {"FEATURES", "BEST_PARAMS", "CHOSEN_THRESHOLD"}
          /\ new["FEATURES"] = f /\ new["BEST_PARAMS"] = p /\ new["CHOSEN_THRESHOLD"] = t
      OBVIOUS
    <3> HIDE DEF new
    <3>4. \A n \in RfKept \cap DOMAIN new : Unseen(new[n])
      BY <3>2, <3>3 DEF RfKept, RandomForestDecisions
    <3>5. RfRest' /\ cell' = "refit" /\ book' = book
      BY <1>1, <2>2, <3>3, <3>4, RfBinds
    <3>6. /\ mem'["FEATURES"] = f /\ mem'["BEST_PARAMS"] = p /\ mem'["CHOSEN_THRESHOLD"] = t
          /\ {"FEATURES", "BEST_PARAMS", "CHOSEN_THRESHOLD"} \subseteq DOMAIN mem'
      BY <2>2, <3>3, RfHeldOn
    <3>7. /\ Held({"FEATURES", "BEST_PARAMS"})' /\ Held({"CHOSEN_THRESHOLD"})'
          /\ OfThese(mem.CHOSEN_THRESHOLD)'
      BY <3>2, <3>6 DEF Held, OfThese
    <3>8. QED
      BY <3>5, <3>7, Rf05Enough DEF Rf05
  <2>3. ASSUME NEW value,
               Compute("tuning", "auto", Override([FEATURES |-> value], [BEST_PARAMS |-> Default]))
        PROVE  RfInv' /\ book' = "colab_05"
    <3> DEFINE read == Override([FEATURES |-> value], [BEST_PARAMS |-> Default])
    <3>1. DOMAIN read = {"FEATURES", "BEST_PARAMS"} /\ Compute("tuning", "auto", read)
      BY <2>3 DEF Override
    <3> HIDE DEF read
    <3>2. RfKept \cap {"FEATURES", "BEST_PARAMS"} = {}
      BY DEF RfKept, RandomForestDecisions
    <3>3. RfRest' /\ cell' = "auto" /\ book' = book
      BY <1>1, <3>1, <3>2, RfBinds
    <3>4. Held({"FEATURES", "BEST_PARAMS"})'
      BY <3>1, RfHeldOn DEF Held
    <3>5. QED
      BY <3>3, <3>4, Rf05Enough DEF Rf05
  <2>4. \/ Raise("tuning")
        \/ file \in DOMAIN disk /\ tuning # Torn /\ Compute("tuning", "refit", new)
        \/ ReadFeatures("tuning", "auto", [BEST_PARAMS |-> Default])
    BY <1>3 DEF Tuning05, TunedFeatures, OnDisk
  <2>5. QED
    BY <2>1, <2>2, <2>3, <2>4, RfReadsFeatures
<1>4. CASE Auto05
  <2> DEFINE tree == Forest(mem.FEATURES, mem.BEST_PARAMS, {"train"})
             thr == Mix({tree, X("val"), Y("val")})
             new == [CHOSEN_THRESHOLD |-> thr]
  <2>1. CASE Raise("auto")
    BY <2>1, RfRaises
  <2>2. CASE Compute("auto", "refit", new)
    <3>1. Held({"FEATURES", "BEST_PARAMS"})
      BY <1>1, <2>2 DEF Rf05, Compute, At
    <3>2. Unseen(tree) /\ tree.of = {<<mem.FEATURES, mem.BEST_PARAMS>>}
      BY Forests
    <3> HIDE DEF tree
    <3>3. Unseen(thr) /\ thr.of = {<<mem.FEATURES, mem.BEST_PARAMS>>}
      BY <3>2, OnValRows
    <3> HIDE DEF thr
    <3>4. DOMAIN new = {"CHOSEN_THRESHOLD"} /\ new["CHOSEN_THRESHOLD"] = thr
      OBVIOUS
    <3> HIDE DEF new
    <3>5. RfRest' /\ cell' = "refit" /\ book' = book
      BY <1>1, <2>2, <3>3, <3>4, RfBinds
    <3>6. /\ mem'["FEATURES"] = mem["FEATURES"] /\ mem'["BEST_PARAMS"] = mem["BEST_PARAMS"]
          /\ mem'["CHOSEN_THRESHOLD"] = thr /\ Held({"FEATURES", "BEST_PARAMS"})'
          /\ Held({"CHOSEN_THRESHOLD"})'
      BY <2>2, <3>1, <3>4, RfHeldOn DEF Held
    <3>7. OfThese(mem.CHOSEN_THRESHOLD)'
      BY <3>3, <3>6 DEF OfThese
    <3>8. QED
      BY <3>5, <3>6, <3>7, Rf05Enough DEF Rf05
  <2>3. QED
    BY <1>4, <2>1, <2>2, RfNeedsVal DEF Auto05
<1>5. QED
  BY <1>2, <1>3, <1>4

\* the refitted model, and its test
LEMMA Rf05Tests ==
  ASSUME RfInv, book = "colab_05", Refit05 \/ Test05 \/ Explain05 \/ Report05 \/ final_report
  PROVE  RfInv' /\ book' = "colab_05"
<1>1. RfRest /\ Rf05 /\ RfUnseen
  BY DEF RfInv, RfCells, RfRest
<1>2. CASE Refit05
  <2> DEFINE model == Forest(mem.FEATURES, mem.BEST_PARAMS, {"train", "val"})
             new == [final_model |-> model]
  <2>1. Compute("refit", "test", new) /\ cell = "refit"
    BY <1>2 DEF Refit05, Compute, At
  <2>2. Held({"CHOSEN_THRESHOLD"}) /\ OfThese(mem.CHOSEN_THRESHOLD)
    BY <1>1, <2>1 DEF Rf05
  <2>3. Unseen(model)
    BY Forests
  <2>4. TestedWith(model, mem.CHOSEN_THRESHOLD)
    BY <2>2 DEF TestedWith, OfThese
  <2> HIDE DEF model
  <2>5. DOMAIN new = {"final_model"} /\ new["final_model"] = model
    OBVIOUS
  <2> HIDE DEF new
  <2>6. RfRest' /\ cell' = "test" /\ book' = book
    BY <1>1, <2>1, <2>3, <2>5, RfBinds
  <2>7. /\ mem'["CHOSEN_THRESHOLD"] = mem["CHOSEN_THRESHOLD"] /\ mem'["final_model"] = model
        /\ Held({"CHOSEN_THRESHOLD"})' /\ Held({"final_model"})'
    BY <2>1, <2>2, <2>5, RfHeldOn DEF Held
  <2>8. TestedWith(mem.final_model, mem.CHOSEN_THRESHOLD)'
    BY <2>4, <2>7
  <2>9. QED
    BY <2>6, <2>7, <2>8, Rf05Enough DEF Rf05
<1>3. CASE Test05
  <2> DEFINE new == [test_report |-> TestReport]
  <2>1. CASE Raise("test")
    BY <2>1, RfRaises
  <2>2. CASE Compute("test", "explain", new)
    <3>1. TestedWith(mem.final_model, mem.CHOSEN_THRESHOLD)
      BY <1>1, <2>2 DEF Rf05, Compute, At
    <3>2. OneConfig(TestReport) /\ ~Unseen(TestReport)
      BY <3>1, Reported DEF TestReport
    <3>3. DOMAIN new = {"test_report"} /\ new["test_report"] = TestReport
      OBVIOUS
    <3> HIDE DEF new
    <3>4. "test_report" \notin RfKept
      BY DEF RfKept, RandomForestDecisions
    <3>5. RfRest' /\ cell' = "explain" /\ book' = book
      BY <1>1, <2>2, <3>2, <3>3, <3>4, RfTests
    <3>6. Held({"test_report"})'
      BY <2>2, <3>3, RfHeldOn DEF Held
    <3>7. QED
      BY <3>5, <3>6, Rf05Enough DEF Rf05
  <2>3. QED
    BY <1>3, <2>1, <2>2, RfNeedsVal DEF Test05
<1>4. CASE Explain05
  <2> DEFINE new == [cmp |-> Mix({mem.final_model, X("test"), X("val"), Y("val")})]
  <2>1. Compute("explain", "report", new) /\ cell = "explain" /\ DOMAIN new = {"cmp"}
    BY <1>4 DEF Explain05, Compute, At
  <2> HIDE DEF new
  <2>2. RfRest' /\ cell' = "report" /\ book' = book
    BY <1>1, <2>1, RfQuietly DEF RfTracked
  <2>3. Held({"test_report"})'
    BY <1>1, <2>1, RfHeldOn DEF Rf05
  <2>4. QED
    BY <2>2, <2>3, Rf05Enough DEF Rf05
<1>5. CASE Report05
  <2>1. RfRest' /\ cell = "report" /\ cell' = "final" /\ book' = book /\ mem' = mem
    BY <1>1, <1>5, RfOpensFile DEF Report05
  <2>2. Held({"test_report"})'
    BY <1>1, <2>1 DEF Rf05, Held
  <2>3. QED
    BY <2>1, <2>2, Rf05Enough DEF Rf05
<1>6. CASE final_report
  <2>1. RfRest' /\ cell = "final" /\ cell' = "track" /\ book' = book /\ mem' = mem
    BY <1>1, <1>6, RfWritesFile DEF final_report
  <2>2. Held({"test_report"})'
    BY <1>1, <2>1 DEF Rf05, Held
  <2>3. QED
    BY <2>1, <2>2, Rf05Enough DEF Rf05
<1>7. QED
  BY <1>2, <1>3, <1>4, <1>5, <1>6

LEMMA Rf05Steps ==
  ASSUME RfInv, book = "colab_05", Next05
  PROVE  RfInv' /\ book' = "colab_05"
<1>1. RfRest /\ Rf05 /\ RfReport
  BY DEF RfInv, RfCells, RfRest
<1>2. CASE Track05
  <2>1. /\ RfRest' /\ cell = "track" /\ cell' = "log" /\ book' = book
        /\ \A n \in RfTracked : n \in DOMAIN mem' <=> n \in DOMAIN mem
    BY <1>1, <1>2, RfTracks DEF Track05
  <2>2. Held({"test_report"})'
    BY <1>1, <2>1 DEF Rf05, Held, RfTracked
  <2>3. QED
    BY <2>1, <2>2, Rf05Enough DEF Rf05
<1>3. CASE Log05
  <2>1. cell = "log"
    BY <1>3 DEF Log05, log_rf_evaluation
  <2>2. ~Unseen(mem.test_report)
    BY <1>1, <2>1 DEF Rf05, Held, RfReport, Is
  <2>3. RfRest' /\ book' = book /\ cell' \in {"register", "raised"}
    BY <1>1, <1>3, <2>2, RfLogs DEF Log05
  <2>4. QED
    BY <2>3, Rf05Enough DEF Rf05
<1>4. CASE Register05
  <2>1. CASE Raise("register")
    BY <2>1, RfRaises
  <2>2. CASE Compute("register", "done", NoNames)
    <3>1. RfRest' /\ cell' = "done" /\ book' = book
      BY <1>1, <2>2, RfQuietly DEF NoNames
    <3>2. QED
      BY <3>1, Rf05Enough DEF Rf05
  <2>3. CASE Close("register", "done", "mlflow", "paysim-fraud-rf",
                   Append(Versions, Untagged(mem.final_model)))
    <3>1. ~Tagged(Untagged(mem.final_model))
      BY DEF Tagged, Untagged
    <3>2. SoundRegistry(Append(Versions, Untagged(mem.final_model)))
      BY <1>1, <3>1, AppendSound DEF RfRest, RfDisk, RfVersions
    <3>3. /\ mem' = mem /\ cell' = "done" /\ book' = book
          /\ Write("mlflow", "paysim-fraud-rf", Append(Versions, Untagged(mem.final_model)))
      BY <2>3 DEF Close, At, Goto
    <3>4. RfRest'
      BY <1>1, <3>2, <3>3, RfRegistryWritten
    <3>5. QED
      BY <3>3, <3>4, Rf05Enough DEF Rf05
  <2>4. QED
    BY <1>4, <2>1, <2>2, <2>3 DEF Register05
<1>5. CASE Load05 \/ Tuning05 \/ Auto05
  BY <1>5, Rf05Loads
<1>6. CASE Refit05 \/ Test05 \/ Explain05 \/ Report05 \/ final_report
  BY <1>6, Rf05Tests
<1>7. QED
  BY <1>2, <1>3, <1>4, <1>5, <1>6 DEF Next05

\* a version as its tags are set
Version(m, t, p, b) ==
  [model |-> m, decision_threshold |-> t, threshold_policy |-> p, beta |-> b]
VersionFields == {"model", "decision_threshold", "threshold_policy", "beta"}

\* a version is its four fields
LEMMA VersionIs ==
  ASSUME NEW f, f = [n \in VersionFields |-> f[n]]
  PROVE  f = Version(f["model"], f["decision_threshold"], f["threshold_policy"], f["beta"])
<1> DEFINE v == Version(f["model"], f["decision_threshold"], f["threshold_policy"], f["beta"])
<1>1. v = [n \in VersionFields |-> v[n]]
  BY DEF Version, VersionFields
<1>2. \A n \in VersionFields : v[n] = f[n]
  BY DEF Version, VersionFields
<1> HIDE DEF v
<1>3. QED
  BY <1>1, <1>2 DEF v

\* the versions that have the policy of a threshold
ExistingIn(versions, t) ==
  {i \in DOMAIN versions : Tagged(versions[i]) /\ versions[i].decision_threshold = t}

LEMMA ExistingAre ==
  /\ Existing = ExistingIn(Versions, mem.CHOSEN_THRESHOLD)
  /\ Existing' = ExistingIn(Versions', mem'.CHOSEN_THRESHOLD)
BY DEF Existing, IsExisting, ExistingIn, Tagged

\* nor does the guard find it
LEMMA AppendedIs ==
  ASSUME NEW versions, NEW v, SoundRegistry(versions), ~Tagged(v)
  PROVE  /\ \A t : ExistingIn(Append(versions, v), t) = ExistingIn(versions, t)
         /\ Append(versions, v) # <<>>
         /\ Append(versions, v)[Len(Append(versions, v))] = v
<1> DEFINE S == {versions[i] : i \in DOMAIN versions} new == Append(versions, v)
           n == Len(versions)
<1>1. versions \in Seq(S \cup {v})
  BY DEF SoundRegistry, IsSequence
<1>2. /\ n \in Nat /\ DOMAIN versions = 1..n /\ DOMAIN new = 1..(n + 1) /\ Len(new) = n + 1
      /\ new[n + 1] = v /\ \A i \in 1..n : new[i] = versions[i]
  BY <1>1
<1>3. new # <<>>
  BY <1>1
<1> HIDE DEF S, new, n
<1>4. \A t : ExistingIn(new, t) = ExistingIn(versions, t)
  BY <1>2 DEF ExistingIn
<1>5. QED
  BY <1>2, <1>3, <1>4 DEF new

\* another last version
WithLast(versions, change) == [versions EXCEPT ![Len(versions)] = change]

\* the other versions stay
LEMMA WithLastIs ==
  ASSUME NEW versions, NEW change, SoundRegistry(versions), versions # <<>>
  PROVE  /\ Len(versions) \in DOMAIN versions
         /\ DOMAIN WithLast(versions, change) = DOMAIN versions
         /\ Len(WithLast(versions, change)) = Len(versions)
         /\ WithLast(versions, change) # <<>>
         /\ IsSequence(WithLast(versions, change))
         /\ WithLast(versions, change)[Len(versions)] = change
         /\ \A i \in DOMAIN versions :
              i # Len(versions) => WithLast(versions, change)[i] = versions[i]
<1> DEFINE S == {versions[i] : i \in DOMAIN versions} \cup {change}
           new == WithLast(versions, change) n == Len(versions)
<1>1. versions \in Seq(S)
  BY DEF SoundRegistry, IsSequence
<1>2. n \in Nat /\ n # 0 /\ DOMAIN versions = 1..n /\ \A i \in 1..n : versions[i] \in S
  BY <1>1
<1>3. change \in S
  OBVIOUS
<1> HIDE DEF S
<1>4. new \in Seq(S) /\ DOMAIN new = 1..n /\ Len(new) = n
  BY <1>1, <1>2, <1>3 DEF WithLast
<1>5. new[n] = change /\ \A i \in 1..n : i # n => new[i] = versions[i]
  BY <1>2 DEF WithLast
<1> HIDE DEF new
<1>6. IsSequence(new)
  BY <1>4, SeqOfItsOwn
<1>7. new # <<>>
  BY <1>2, <1>4
<1>8. n \in DOMAIN versions /\ DOMAIN new = DOMAIN versions
  BY <1>2, <1>4
<1>9. \A i \in DOMAIN versions : i # n => new[i] = versions[i]
  BY <1>2, <1>5
<1>10. QED
  BY <1>4, <1>5, <1>6, <1>7, <1>8, <1>9 DEF new

\* a tag that is not the last one of a version
LEMMA WithLastUntagged ==
  ASSUME NEW versions, NEW change, SoundRegistry(versions), versions # <<>>,
         ~Tagged(change), ~Tagged(versions[Len(versions)])
  PROVE  /\ SoundRegistry(WithLast(versions, change))
         /\ \A t : ExistingIn(WithLast(versions, change), t) = ExistingIn(versions, t)
<1> DEFINE new == WithLast(versions, change) n == Len(versions)
<1>1. /\ n \in DOMAIN versions /\ DOMAIN new = DOMAIN versions
      /\ IsSequence(new) /\ new[n] = change
      /\ \A i \in DOMAIN versions : i # n => new[i] = versions[i]
  BY WithLastIs
<1> HIDE DEF new
<1>2. \A i \in DOMAIN new : Tagged(new[i]) => new[i] = versions[i]
  BY <1>1
<1>3. SoundRegistry(new)
  BY <1>1, <1>2 DEF SoundRegistry
<1>4. \A t : ExistingIn(new, t) = ExistingIn(versions, t)
  BY <1>1 DEF ExistingIn
<1>5. QED
  BY <1>3, <1>4 DEF new

\* the last tag: a version with the policy, when there was none
LEMMA WithLastTagged ==
  ASSUME NEW versions, NEW change, SoundRegistry(versions), versions # <<>>,
         TestedWith(change.model, change.decision_threshold), Tagged(change),
         ExistingIn(versions, change.decision_threshold) = {}
  PROVE  /\ SoundRegistry(WithLast(versions, change))
         /\ ExistingIn(WithLast(versions, change), change.decision_threshold) # {}
<1> DEFINE new == WithLast(versions, change) n == Len(versions)
<1>1. /\ n \in DOMAIN versions /\ DOMAIN new = DOMAIN versions
      /\ IsSequence(new) /\ new[n] = change
      /\ \A i \in DOMAIN versions : i # n => new[i] = versions[i]
  BY WithLastIs
<1> HIDE DEF new, n
<1>2. \A i \in DOMAIN versions :
        Tagged(versions[i]) => versions[i].decision_threshold # change.decision_threshold
  BY DEF ExistingIn
<1>3. \A i \in DOMAIN new : Tagged(new[i]) => TestedWith(new[i].model, new[i].decision_threshold)
  BY <1>1 DEF SoundRegistry
<1>4. \A i, j \in DOMAIN new :
        /\ Tagged(new[i]) /\ Tagged(new[j])
        /\ new[i].decision_threshold = new[j].decision_threshold
        => i = j
  <2> SUFFICES ASSUME NEW i \in DOMAIN new, NEW j \in DOMAIN new,
                      Tagged(new[i]), Tagged(new[j]),
                      new[i].decision_threshold = new[j].decision_threshold
               PROVE  i = j
    OBVIOUS
  <2>1. CASE i = n
    BY <1>1, <1>2, <2>1
  <2>2. CASE j = n
    BY <1>1, <1>2, <2>2
  <2>3. CASE i # n /\ j # n
    BY <1>1, <2>3 DEF SoundRegistry
  <2>4. QED
    BY <2>1, <2>2, <2>3
<1>5. SoundRegistry(new)
  BY <1>1, <1>3, <1>4 DEF SoundRegistry
<1>6. n \in ExistingIn(new, change.decision_threshold)
  BY <1>1 DEF ExistingIn
<1>7. QED
  BY <1>5, <1>6 DEF new

\* in colab_06 only these parts are not trivial
LEMMA Rf06Enough ==
  ASSUME book = "colab_06", RfRest', Rf06', RfTags', book' = book
  PROVE  RfInv' /\ book' = "colab_06"
BY DEF RfInv, RfCells, Rf02, Rf03, Rf04, Rf05

\* cells before the guard
LEMMA Rf06Quiet ==
  ASSUME book' = "colab_06", cell' \notin Tags \cup {"log_model", "done"}
  PROVE  RfTags'
BY DEF RfTags, Tags

\* the frame and what colab_03 and colab_04 left are read
LEMMA Rf06Loads ==
  ASSUME RfInv, book = "colab_06", Cache06 \/ Load06
  PROVE  RfInv' /\ book' = "colab_06"
<1>1. RfRest
  BY DEF RfInv
<1>2. CASE Raise("frame") \/ Raise("load")
  BY <1>2, RfRaises
<1>3. CASE Cache06 /\ ~Raise("frame")
  <2> DEFINE new == [CACHE_DIR |-> IF cwd \in CacheDirs THEN cwd ELSE "sub"]
  <2>1. Compute("frame", "load", new) /\ DOMAIN new = {"CACHE_DIR"}
    BY <1>3 DEF Cache06
  <2> HIDE DEF new
  <2>2. RfRest' /\ cell' = "load" /\ book' = book
    BY <1>1, <2>1, RfQuietly DEF RfTracked
  <2>3. Rf06' /\ RfTags'
    BY <2>2, Rf06Quiet DEF Rf06, Tested06, Tags
  <2>4. QED
    BY <2>2, <2>3, Rf06Enough
<1>4. CASE Load06 /\ ~Raise("load")
  <2> DEFINE frame == disk[<<mem.CACHE_DIR, "modeling_frame.parquet">>]
             tuning == disk[<<mem.CACHE_DIR, "tuning.json">>]
             new == [frame |-> frame.steps, FEATURES |-> tuning.features,
                     BEST_PARAMS |-> tuning.best_params]
  <2>1. Compute("load", "select", new)
    BY <1>4 DEF Load06
  <2>2. DOMAIN new = {"frame", "FEATURES", "BEST_PARAMS"}
    OBVIOUS
  <2> HIDE DEF new
  <2>3. RfKept \cap DOMAIN new = {}
    BY <2>2 DEF RfKept, RandomForestDecisions
  <2>4. RfRest' /\ cell' = "select" /\ book' = book
    BY <1>1, <2>1, <2>2, <2>3, RfBinds
  <2>5. Held({"FEATURES", "BEST_PARAMS"})'
    BY <2>1, <2>2, RfHeldOn DEF Held
  <2>6. Rf06' /\ RfTags'
    BY <2>4, <2>5, Rf06Quiet DEF Rf06, Tested06, Tags
  <2>7. QED
    BY <2>4, <2>6, Rf06Enough
<1>5. QED
  BY <1>2, <1>3, <1>4

\* the threshold is chosen with a model of the features and parameters tested
LEMMA Rf06Selects ==
  ASSUME RfInv, book = "colab_06", selection_model \/ Threshold06
  PROVE  RfInv' /\ book' = "colab_06"
<1>1. RfRest /\ Rf06 /\ RfUnseen
  BY DEF RfInv, RfCells, RfRest
<1>2. CASE selection_model
  <2> DEFINE model == Forest(mem.FEATURES, mem.BEST_PARAMS, {"train"})
             new == [selection_model |-> model]
  <2>1. CASE Raise("select")
    BY <2>1, RfRaises
  <2>2. CASE Compute("select", "threshold", new)
    <3>1. Held({"FEATURES", "BEST_PARAMS"})
      BY <1>1, <2>2 DEF Rf06, Compute, At
    <3>2. Unseen(model) /\ model.of = {<<mem.FEATURES, mem.BEST_PARAMS>>}
      BY Forests
    <3> HIDE DEF model
    <3>3. DOMAIN new = {"selection_model"} /\ new["selection_model"] = model
      OBVIOUS
    <3> HIDE DEF new
    <3>4. RfRest' /\ cell' = "threshold" /\ book' = book
      BY <1>1, <2>2, <3>2, <3>3, RfBinds
    <3>5. /\ mem'["FEATURES"] = mem["FEATURES"] /\ mem'["BEST_PARAMS"] = mem["BEST_PARAMS"]
          /\ mem'["selection_model"] = model /\ Held({"FEATURES", "BEST_PARAMS"})'
          /\ Held({"selection_model"})'
      BY <2>2, <3>1, <3>3, RfHeldOn DEF Held
    <3>6. OfThese(mem.selection_model)'
      BY <3>2, <3>5 DEF OfThese
    <3>7. Rf06' /\ RfTags'
      BY <3>4, <3>5, <3>6, Rf06Quiet DEF Rf06, Tested06, Tags
    <3>8. QED
      BY <3>4, <3>7, Rf06Enough
  <2>3. QED
    BY <1>2, <2>1, <2>2, RfNeedsVal DEF selection_model
<1>3. CASE Threshold06
  <2> DEFINE thr == Mix({mem.selection_model, X("val"), Y("val")})
             new == [CHOSEN_THRESHOLD |-> thr]
  <2>1. Compute("threshold", "test", new) /\ cell = "threshold"
    BY <1>3 DEF Threshold06, Compute, At
  <2>2. /\ Held({"FEATURES", "BEST_PARAMS"}) /\ Held({"selection_model"})
        /\ OfThese(mem.selection_model)
    BY <1>1, <2>1 DEF Rf06
  <2>3. Unseen(mem.selection_model)
    BY <1>1, <2>2 DEF RfUnseen, RfKept, RandomForestDecisions, Held
  <2>4. Unseen(thr) /\ thr.of = {<<mem.FEATURES, mem.BEST_PARAMS>>}
    BY <2>2, <2>3, OnValRows DEF OfThese
  <2> HIDE DEF thr
  <2>5. DOMAIN new = {"CHOSEN_THRESHOLD"} /\ new["CHOSEN_THRESHOLD"] = thr
    OBVIOUS
  <2> HIDE DEF new
  <2>6. RfRest' /\ cell' = "test" /\ book' = book
    BY <1>1, <2>1, <2>4, <2>5, RfBinds
  <2>7. /\ mem'["FEATURES"] = mem["FEATURES"] /\ mem'["BEST_PARAMS"] = mem["BEST_PARAMS"]
        /\ mem'["CHOSEN_THRESHOLD"] = thr /\ Held({"FEATURES", "BEST_PARAMS"})'
        /\ Held({"CHOSEN_THRESHOLD"})'
    BY <2>1, <2>2, <2>5, RfHeldOn DEF Held
  <2>8. OfThese(mem.CHOSEN_THRESHOLD)'
    BY <2>4, <2>7 DEF OfThese
  <2>9. Rf06' /\ RfTags'
    BY <2>6, <2>7, <2>8, Rf06Quiet DEF Rf06, Tested06, Tags
  <2>10. QED
    BY <2>6, <2>9, Rf06Enough
<1>4. QED
  BY <1>2, <1>3

\* what the guard and the tags go on with
Tested ==
  /\ Held({"CHOSEN_THRESHOLD", "final_model", "test_report"})
  /\ TestedWith(mem.final_model, mem.CHOSEN_THRESHOLD)

\* the model is refitted and tested with its threshold
LEMMA Rf06Tests ==
  ASSUME RfInv, book = "colab_06", Test06
  PROVE  RfInv' /\ book' = "colab_06"
<1> DEFINE final == Forest(mem.FEATURES, mem.BEST_PARAMS, {"train", "val"})
           report == Mix({final, mem.CHOSEN_THRESHOLD, X("test"), Y("test")})
           new == [final_model |-> final, test_report |-> report]
<1>1. RfRest /\ Rf06
  BY DEF RfInv, RfCells
<1>2. Compute("test", "report", new) /\ cell = "test"
  BY DEF Test06, Compute, At
<1>3. Held({"CHOSEN_THRESHOLD"}) /\ OfThese(mem.CHOSEN_THRESHOLD)
  BY <1>1, <1>2 DEF Rf06
<1>4. TestedWith(final, mem.CHOSEN_THRESHOLD)
  BY <1>3 DEF TestedWith, OfThese
<1>5. Unseen(final)
  BY Forests
<1> HIDE DEF final
<1>6. OneConfig(report) /\ ~Unseen(report)
  BY <1>4, Reported
<1> HIDE DEF report
<1>7. /\ DOMAIN new = {"final_model", "test_report"}
      /\ new["final_model"] = final /\ new["test_report"] = report
  OBVIOUS
<1> HIDE DEF new
<1>8. \A n \in RfKept \cap DOMAIN new : Unseen(new[n])
  BY <1>5, <1>7 DEF RfKept, RandomForestDecisions
<1>9. RfRest' /\ cell' = "report" /\ book' = book
  BY <1>1, <1>2, <1>6, <1>7, <1>8, RfTests
<1>10. /\ mem'["CHOSEN_THRESHOLD"] = mem["CHOSEN_THRESHOLD"] /\ mem'["final_model"] = final
       /\ Held({"CHOSEN_THRESHOLD", "final_model", "test_report"})'
  BY <1>2, <1>3, <1>7, RfHeldOn DEF Held
<1>11. TestedWith(mem.final_model, mem.CHOSEN_THRESHOLD)'
  BY <1>4, <1>10
<1>12. Rf06' /\ RfTags'
  BY <1>9, <1>10, <1>11, Rf06Quiet DEF Rf06, Tested06, Tags
<1>13. QED
  BY <1>9, <1>12, Rf06Enough

\* the report and its files
LEMMA Rf06Reports ==
  ASSUME RfInv, book = "colab_06", Report06 \/ artifact
  PROVE  RfInv' /\ book' = "colab_06"
<1>1. RfRest /\ Rf06
  BY DEF RfInv, RfCells
<1>2. /\ RfRest' /\ cell \in {"report", "artifact"} /\ cell' \in {"artifact", "guard"}
      /\ book' = book /\ mem' = mem
  <2>1. CASE Report06
    BY <1>1, <2>1, RfOpensFile DEF Report06
  <2>2. CASE artifact
    BY <1>1, <2>2, RfWritesFile DEF artifact
  <2>3. QED
    BY <2>1, <2>2
<1>3. Tested
  BY <1>1, <1>2 DEF Rf06, Tested06, Tested
<1>4. Tested'
  BY <1>2, <1>3 DEF Tested, Held
<1>5. Rf06' /\ RfTags'
  BY <1>2, <1>4, Rf06Quiet DEF Rf06, Tested06, Tags, Tested
<1>6. QED
  BY <1>2, <1>5, Rf06Enough

\* a version is registered when none has the policy
LEMMA Rf06Guards ==
  ASSUME RfInv, book = "colab_06", Guard06
  PROVE  RfInv' /\ book' = "colab_06"
<1>1. RfRest /\ Rf06 /\ RfReport
  BY DEF RfInv, RfCells, RfRest
<1>2. Tested
  BY <1>1 DEF Guard06, Rf06, Tested06, Tested
<1>3. CASE Raise("guard")
  BY <1>3, RfRaises
<1>4. CASE Existing # {} /\ Compute("guard", "done", NoNames)
  <2>1. /\ RfRest' /\ Versions' = Versions /\ cell' = "done" /\ book' = book
        /\ \A n \in RfTracked : n \in DOMAIN mem' <=> n \in DOMAIN mem
        /\ \A n \in RfTracked \cap DOMAIN mem : mem'[n] = mem[n]
    BY <1>1, <1>4, RfQuietly DEF NoNames
  <2>2. /\ mem'["CHOSEN_THRESHOLD"] = mem["CHOSEN_THRESHOLD"]
        /\ mem'["final_model"] = mem["final_model"]
        /\ Held({"CHOSEN_THRESHOLD", "final_model", "test_report"})'
    BY <1>2, <2>1 DEF Tested, Held, RfTracked
  <2>3. Tested'
    BY <1>2, <2>2 DEF Tested
  <2>4. Existing' # {}
    BY <1>4, <2>1, <2>2, ExistingAre
  <2>5. Rf06' /\ RfTags'
    BY <2>1, <2>3, <2>4 DEF Rf06, RfTags, Tested06, Tags, Tested
  <2>6. QED
    BY <2>1, <2>5, Rf06Enough
<1>5. CASE Existing = {} /\ Compute("guard", "log_model", SetTags(mem.test_report, TRUE))
  <2> DEFINE run == [evaluated |-> mem.test_report, sealed_test_touched |-> TRUE]
             new == [run |-> run]
  <2>1. ~Unseen(mem.test_report)
    BY <1>1, <1>2 DEF Tested, Held, RfReport, Is
  <2>2. /\ Compute("guard", "log_model", new)
        /\ cell' = "log_model" /\ book' = book /\ UNCHANGED disk
    BY <1>5 DEF SetTags, Compute, At, Goto, NoWrites
  <2>3. ~Unseen(run.evaluated) /\ run.sealed_test_touched
    BY <2>1
  <2> HIDE DEF run
  <2>4. DOMAIN new = {"run"} /\ new["run"] = run
    OBVIOUS
  <2> HIDE DEF new
  <2>5. /\ mem'["run"] = run /\ \A n \in DOMAIN mem : n # "run" => mem'[n] = mem[n]
        /\ DOMAIN mem' = DOMAIN mem \cup {"run"}
    BY <2>2, <2>4, Bound DEF Compute
  <2>6. RfUnseen' /\ RfReport'
    BY <1>1, <2>5 DEF RfRest, RfUnseen, RfReport, Is, RfKept, RandomForestDecisions
  <2>7. RfRun'
    BY <2>3, <2>5 DEF RfRun
  <2>8. RfDisk' /\ Versions' = Versions
    BY <1>1, <2>2, RfDiskKept DEF RfRest
  <2>9. /\ mem'["CHOSEN_THRESHOLD"] = mem["CHOSEN_THRESHOLD"]
        /\ mem'["final_model"] = mem["final_model"]
        /\ Held({"CHOSEN_THRESHOLD", "final_model", "test_report"})'
    BY <1>2, <2>5 DEF Tested, Held
  <2>10. Tested'
    BY <1>2, <2>9 DEF Tested
  <2>11. Existing' = {}
    BY <1>5, <2>8, <2>9, ExistingAre
  <2>12. Rf06' /\ RfTags'
    BY <2>2, <2>10, <2>11 DEF Rf06, RfTags, Tested06, Tags, Tested
  <2>13. QED
    BY <2>2, <2>6, <2>7, <2>8, <2>12, Rf06Enough DEF RfRest
<1>6. QED
  BY <1>3, <1>4, <1>5 DEF Guard06

\* a version, and its tags one by one
LEMMA Rf06Registers ==
  ASSUME RfInv, book = "colab_06", LogModel06
  PROVE  RfInv' /\ book' = "colab_06"
<1> DEFINE v == Untagged(mem.final_model) new == Append(Versions, v)
<1>1. RfRest /\ Rf06 /\ RfTags /\ SoundRegistry(Versions)
  BY DEF RfInv, RfCells, RfRest, RfDisk, RfVersions
<1>2. /\ cell = "log_model" /\ cell' = "tag_threshold" /\ book' = book /\ mem' = mem
      /\ Write("mlflow", "paysim-fraud-rf", new)
  BY DEF LogModel06, Close, At, Goto
<1>3. Tested /\ Existing = {}
  BY <1>1, <1>2 DEF Rf06, RfTags, Tested06, Tested
<1>4. ~Tagged(v)
  BY DEF Tagged, Untagged
<1>5. v = Being'
  BY <1>2 DEF Untagged, Being
<1> HIDE DEF v
<1>6. SoundRegistry(new)
  BY <1>1, <1>4, AppendSound
<1>7. /\ new # <<>> /\ new[Len(new)] = v
      /\ ExistingIn(new, mem.CHOSEN_THRESHOLD) = ExistingIn(Versions, mem.CHOSEN_THRESHOLD)
  BY <1>1, <1>4, AppendedIs
<1> HIDE DEF new
<1>8. RfRest' /\ Versions' = new
  BY <1>1, <1>2, <1>6, RfRegistryWritten
<1>9. Existing' = {}
  BY <1>2, <1>3, <1>7, <1>8, ExistingAre
<1>10. Tested'
  BY <1>2, <1>3 DEF Tested, Held
<1>11. Rf06'
  BY <1>2, <1>10 DEF Rf06, Tested06, Tested
<1>12. RfTags'
  BY <1>2, <1>5, <1>7, <1>8, <1>9 DEF RfTags, Tags
<1>13. QED
  BY <1>2, <1>8, <1>11, <1>12, Rf06Enough

\* a tag that is not the last one
LEMMA Rf06Tags ==
  ASSUME RfInv, book = "colab_06", cell \in {"tag_threshold", "tag_policy"},
         cell' \in {"tag_policy", "tag_beta"}, UNCHANGED <<book, mem>>,
         Write("mlflow", "paysim-fraud-rf", WithLast(Versions, Being'))
  PROVE  RfInv' /\ book' = "colab_06"
<1> DEFINE new == WithLast(Versions, Being')
<1>1. RfRest /\ Rf06 /\ RfTags /\ SoundRegistry(Versions)
  BY DEF RfInv, RfCells, RfRest, RfDisk, RfVersions
<1>2. /\ Tested /\ Existing = {} /\ Versions # <<>> /\ Versions[Len(Versions)] = Being
  BY <1>1 DEF Rf06, RfTags, Tested06, Tested, Tags
<1>3. ~Tagged(Being) /\ ~Tagged(Being')
  BY DEF Tagged, Being
<1>4. SoundRegistry(new)
      /\ ExistingIn(new, mem.CHOSEN_THRESHOLD) = ExistingIn(Versions, mem.CHOSEN_THRESHOLD)
  BY <1>1, <1>2, <1>3, WithLastUntagged
<1>5. new # <<>> /\ new[Len(new)] = Being'
  BY <1>1, <1>2, WithLastIs
<1> HIDE DEF new
<1>6. RfRest' /\ Versions' = new
  BY <1>1, <1>4, RfRegistryWritten DEF new
<1>7. Existing' = {}
  BY <1>2, <1>4, <1>6, ExistingAre
<1>8. Tested'
  BY <1>2 DEF Tested, Held
<1>9. Rf06'
  BY <1>8 DEF Rf06, Tested06, Tested
<1>10. RfTags'
  BY <1>5, <1>6, <1>7 DEF RfTags, Tags
<1>11. QED
  BY <1>6, <1>9, <1>10, Rf06Enough

LEMMA Rf06TagsThresholdAndPolicy ==
  ASSUME RfInv, book = "colab_06", TagThreshold06 \/ TagPolicy06
  PROVE  RfInv' /\ book' = "colab_06"
<1> DEFINE last == Versions[Len(Versions)]
<1>1. cell \in Tags => last = Being
  BY DEF RfInv, RfTags
<1>2. CASE TagThreshold06
  <2> DEFINE change == [last EXCEPT !.decision_threshold = mem.CHOSEN_THRESHOLD]
  <2>1. /\ cell = "tag_threshold" /\ cell' = "tag_policy" /\ UNCHANGED <<book, mem>>
        /\ Write("mlflow", "paysim-fraud-rf", WithLast(Versions, change))
    BY <1>2 DEF TagThreshold06, Close, At, Goto, Newest, WithLast
  <2>2. last = Version(mem.final_model, Torn, FALSE, FALSE)
    BY <1>1, <2>1 DEF Being, Tags, Version
  <2> HIDE DEF last
  <2>3. change = Version(mem.final_model, mem.CHOSEN_THRESHOLD, FALSE, FALSE)
    <3>1. change = [n \in VersionFields |-> change[n]]
      BY <2>2 DEF Version, VersionFields
    <3>2. /\ change["model"] = mem.final_model /\ change["decision_threshold"] = mem.CHOSEN_THRESHOLD
          /\ change["threshold_policy"] = FALSE /\ change["beta"] = FALSE
      BY <2>2 DEF Version
    <3> HIDE DEF change
    <3>3. QED
      BY <3>1, <3>2, VersionIs
  <2> HIDE DEF change
  <2>4. change = Being'
    BY <2>1, <2>3 DEF Being, Version
  <2>5. QED
    BY <2>1, <2>4, Rf06Tags
<1>3. CASE TagPolicy06
  <2> DEFINE change == [last EXCEPT !.threshold_policy = TRUE]
  <2>1. /\ cell = "tag_policy" /\ cell' = "tag_beta" /\ UNCHANGED <<book, mem>>
        /\ Write("mlflow", "paysim-fraud-rf", WithLast(Versions, change))
    BY <1>3 DEF TagPolicy06, Close, At, Goto, Newest, WithLast
  <2>2. last = Version(mem.final_model, mem.CHOSEN_THRESHOLD, FALSE, FALSE)
    BY <1>1, <2>1 DEF Being, Tags, Version
  <2> HIDE DEF last
  <2>3. change = Version(mem.final_model, mem.CHOSEN_THRESHOLD, TRUE, FALSE)
    <3>1. change = [n \in VersionFields |-> change[n]]
      BY <2>2 DEF Version, VersionFields
    <3>2. /\ change["model"] = mem.final_model /\ change["decision_threshold"] = mem.CHOSEN_THRESHOLD
          /\ change["threshold_policy"] = TRUE /\ change["beta"] = FALSE
      BY <2>2 DEF Version
    <3> HIDE DEF change
    <3>3. QED
      BY <3>1, <3>2, VersionIs
  <2> HIDE DEF change
  <2>4. change = Being'
    BY <2>1, <2>3 DEF Being, Version
  <2>5. QED
    BY <2>1, <2>4, Rf06Tags
<1>4. QED
  BY <1>2, <1>3

\* the last tag gives the version its policy
LEMMA Rf06TagsBeta ==
  ASSUME RfInv, book = "colab_06", TagBeta06
  PROVE  RfInv' /\ book' = "colab_06"
<1> DEFINE last == Versions[Len(Versions)] change == [last EXCEPT !.beta = TRUE]
           new == WithLast(Versions, change)
<1>1. RfRest /\ Rf06 /\ RfTags /\ SoundRegistry(Versions)
  BY DEF RfInv, RfCells, RfRest, RfDisk, RfVersions
<1>2. /\ cell = "tag_beta" /\ cell' = "done" /\ UNCHANGED <<book, mem>>
      /\ Write("mlflow", "paysim-fraud-rf", new)
  BY DEF TagBeta06, Close, At, Goto, Newest, WithLast
<1>3. Tested /\ Existing = {} /\ Versions # <<>> /\ last = Being
  BY <1>1, <1>2 DEF Rf06, RfTags, Tested06, Tested, Tags
<1>4. change = Version(mem.final_model, mem.CHOSEN_THRESHOLD, TRUE, TRUE)
  <2>1. last = Version(mem.final_model, mem.CHOSEN_THRESHOLD, TRUE, FALSE)
    BY <1>2, <1>3 DEF Being, Version
  <2> HIDE DEF last
  <2>4. change = Version(mem.final_model, mem.CHOSEN_THRESHOLD, TRUE, TRUE)
    <3>1. change = [n \in VersionFields |-> change[n]]
      BY <2>1 DEF Version, VersionFields
    <3>2. /\ change["model"] = mem.final_model /\ change["decision_threshold"] = mem.CHOSEN_THRESHOLD
          /\ change["threshold_policy"] = TRUE /\ change["beta"] = TRUE
      BY <2>1 DEF Version
    <3> HIDE DEF change
    <3>3. QED
      BY <3>1, <3>2, VersionIs
  <2>5. QED
    BY <2>4
<1>5. /\ Tagged(change) /\ change.decision_threshold = mem.CHOSEN_THRESHOLD
      /\ change.model = mem.final_model
  BY <1>4 DEF Tagged, Version
<1> HIDE DEF last, change
<1>6. TestedWith(change.model, change.decision_threshold)
  BY <1>3, <1>5 DEF Tested
<1>7. ExistingIn(Versions, change.decision_threshold) = {}
  BY <1>3, <1>5, ExistingAre
<1>8. SoundRegistry(new) /\ ExistingIn(new, mem.CHOSEN_THRESHOLD) # {}
  BY <1>1, <1>3, <1>5, <1>6, <1>7, WithLastTagged
<1> HIDE DEF new
<1>9. RfRest' /\ Versions' = new
  BY <1>1, <1>2, <1>8, RfRegistryWritten
<1>10. Existing' # {}
  BY <1>2, <1>8, <1>9, ExistingAre
<1>11. Tested'
  BY <1>2, <1>3 DEF Tested, Held
<1>12. Rf06'
  BY <1>2, <1>11 DEF Rf06, Tested06, Tested
<1>13. RfTags'
  BY <1>2, <1>10 DEF RfTags, Tags
<1>14. QED
  BY <1>2, <1>9, <1>12, <1>13, Rf06Enough

LEMMA Rf06Steps ==
  ASSUME RfInv, book = "colab_06", Next06
  PROVE  RfInv' /\ book' = "colab_06"
BY Rf06Loads, Rf06Selects, Rf06Tests, Rf06Reports, Rf06Guards, Rf06Registers,
   Rf06TagsThresholdAndPolicy, Rf06TagsBeta DEF Next06

\* a fresh kernel, of this book or of another one
LEMMA RfRestarts ==
  ASSUME RfInv, NEW b, KernelRestart(b, "frame")
  PROVE  RfInv'
<1>1. cell' = "frame" /\ mem' = NoNames /\ UNCHANGED disk /\ DOMAIN NoNames = {}
  BY DEF KernelRestart, NoNames
<1>2. RfDisk'
  BY <1>1, RfDiskKept DEF RfInv, RfRest
<1>3. RfUnseen' /\ RfReport' /\ RfRun'
  BY <1>1 DEF RfUnseen, RfReport, RfRun, Is
<1>4. RfCells'
  BY <1>1 DEF RfCells, Rf02, Rf03, Rf04, Rf05, Rf06, Tested06
<1>5. RfTags'
  BY <1>1 DEF RfTags, Tags
<1>6. QED
  BY <1>2, <1>3, <1>4, <1>5 DEF RfInv, RfRest

LEMMA RfStarts ==
  ASSUME RandomForestInit
  PROVE  RfInv
<1>1. cell = "frame" /\ mem = NoNames /\ disk = NoNames /\ DOMAIN NoNames = {}
  BY DEF RandomForestInit, NotebookInit, NoNames
<1>2. Versions = <<>>
  BY <1>1 DEF Versions, OnDisk
<1>3. SoundRegistry(<<>>)
  <2>1. IsSequence(<<>>) /\ DOMAIN <<>> = {}
    BY DEF IsSequence
  <2>2. QED
    BY <2>1 DEF SoundRegistry
<1>4. RfDisk
  BY <1>1, <1>2, <1>3 DEF RfDisk, RfFiles, RfVersions
<1>5. RfUnseen /\ RfReport /\ RfRun
  BY <1>1 DEF RfUnseen, RfReport, RfRun, Is
<1>6. RfCells
  BY <1>1 DEF RfCells, Rf02, Rf03, Rf04, Rf05, Rf06, Tested06
<1>7. RfTags
  BY <1>1 DEF RfTags, Tags
<1>8. QED
  BY <1>4, <1>5, <1>6, <1>7 DEF RfInv, RfRest

LEMMA RfSteps ==
  ASSUME RfInv, RandomForestNext
  PROVE  RfInv' /\ book' \in RfBooks
<1>1. CASE book \in RfBooks /\ \E b \in RfBooks : KernelRestart(b, "frame")
  BY <1>1, RfRestarts DEF KernelRestart
<1>2. QED
  BY <1>1, Rf01Steps, Rf02Steps, Rf03Steps, Rf04Steps, Rf05Steps, Rf06Steps
     DEF RandomForestNext, RfBooks

\* the invariant has the random-forest parts of both properties
LEMMA RfConcludes ==
  ASSUME RfInv
  PROVE  /\ ReportIsOfOneConfig /\ RegisteredPolicy /\ SealedTestTold
         /\ \A n \in RandomForestDecisions \cap DOMAIN mem : Unseen(mem[n])
<1>1. ReportIsOfOneConfig
  <2> SUFFICES ASSUME Is("test_report")
               PROVE  Cardinality(mem.test_report.of) = 1
    BY DEF ReportIsOfOneConfig
  <2>1. PICK c : mem.test_report.of = {c}
    BY DEF RfInv, RfRest, RfReport, OneConfig
  <2>2. QED
    BY <2>1, FS_Singleton
<1>2. RegisteredPolicy
  <2> SUFFICES ASSUME book = "colab_06", cell = "done"
               PROVE  Cardinality(Existing) = 1
                      /\ \A i \in Existing : Versions[i].model = mem.final_model
    BY DEF RegisteredPolicy, Existing, IsExisting
  <2>1. Existing # {} /\ TestedWith(mem.final_model, mem.CHOSEN_THRESHOLD)
    BY DEF RfInv, RfTags, RfCells, Rf06, Tested06
  <2>2. SoundRegistry(Versions)
    BY DEF RfInv, RfRest, RfDisk, RfVersions
  <2>3. \A i \in Existing :
          /\ i \in DOMAIN Versions /\ Tagged(Versions[i])
          /\ Versions[i].decision_threshold = mem.CHOSEN_THRESHOLD
    BY ExistingAre DEF ExistingIn
  <2>4. \A i, j \in Existing : i = j
    BY <2>2, <2>3 DEF SoundRegistry
  <2>5. PICK i \in Existing : Existing = {i}
    <3>1. PICK i : i \in Existing
      BY <2>1
    <3>2. Existing = {i}
      BY <3>1, <2>4
    <3>3. QED
      BY <3>1, <3>2
  <2>6. \A j \in Existing : Versions[j].model = mem.final_model
    BY <2>1, <2>2, <2>3, OneModelPerThreshold DEF SoundRegistry
  <2>7. QED
    BY <2>5, <2>6, FS_Singleton
<1>3. SealedTestTold
  BY DEF RfInv, RfRest, RfRun, SealedTestTold, Unseen
<1>4. \A n \in RandomForestDecisions \cap DOMAIN mem : Unseen(mem[n])
  BY DEF RfInv, RfRest, RfUnseen, RfKept
<1>5. QED
  BY <1>1, <1>2, <1>3, <1>4

------------------------------------------------------------------------------

\* The notebooks together

(***************************************************************************)
(* Each book's own invariant while it is open.  The book never changes but *)
(* among the random-forest books, which share one invariant.               *)
(***************************************************************************)
BookInv ==
  /\ book = "enhanced" => EnhInv
  /\ book = "optimal" => OptInv
  /\ book \in RfBooks => RfInv
  /\ book = "master" => MasterInv
  /\ book = "tree" => TreeInv

LEMMA BooksAreDistinct ==
  {"enhanced", "optimal", "master", "tree", "ledger", "policy"} \cap RfBooks = {}
BY DEF RfBooks

\* whichever book is opened
LEMMA BooksStart ==
  ASSUME NotebooksInit
  PROVE  BookInv
<1>1. CASE EnhancedInit
  <2>1. book = "enhanced"
    BY <1>1 DEF EnhancedInit, NotebookInit
  <2>2. QED
    BY <1>1, <2>1, EnhStarts, BooksAreDistinct DEF BookInv
<1>2. CASE OptimalInit
  <2>1. book = "optimal"
    BY <1>2 DEF OptimalInit, NotebookInit
  <2>2. QED
    BY <1>2, <2>1, OptStarts, BooksAreDistinct DEF BookInv
<1>3. CASE RandomForestInit
  <2>1. book \in RfBooks
    BY <1>3 DEF RandomForestInit, NotebookInit
  <2>2. QED
    BY <1>3, <2>1, RfStarts, BooksAreDistinct DEF BookInv
<1>4. CASE MasterInit
  <2>1. book = "master"
    BY <1>4 DEF MasterInit, NotebookInit
  <2>2. QED
    BY <1>4, <2>1, MasterStarts, BooksAreDistinct DEF BookInv
<1>5. CASE TreeInit
  <2>1. book = "tree"
    BY <1>5 DEF TreeInit, NotebookInit
  <2>2. QED
    BY <1>5, <2>1, TreeStarts, BooksAreDistinct DEF BookInv
<1>6. CASE NotebookInit("ledger", "read", NoNames) \/ NotebookInit("policy", "score", NoNames)
  BY <1>6, BooksAreDistinct DEF NotebookInit, BookInv
<1>7. QED
  BY <1>1, <1>2, <1>3, <1>4, <1>5, <1>6 DEF NotebooksInit

\* what the invariant speaks of
LEMMA BooksRest ==
  ASSUME BookInv, UNCHANGED notebookVars
  PROVE  BookInv'
<1>1. /\ book' = book /\ cwd' = cwd /\ cell' = cell /\ mem' = mem /\ disk' = disk
      /\ fits' = fits /\ restarts' = restarts
  BY DEF notebookVars
<1>2. ASSUME EnhInv
      PROVE  EnhInv'
  BY <1>1, <1>2 DEF EnhInv, EnhKnown, DecidedBlind, Is
<1>3. ASSUME OptInv
      PROVE  OptInv'
  <2>1. OptRows' /\ OptScored' /\ OptReported' /\ DecidedBlind(OptimalDecisions, {"oot"})'
    BY <1>1, <1>3 DEF OptInv, OptRows, OptScored, OptReported, DecidedBlind, Is
  <2>2. OptFiles'
    BY <1>1, <1>3, OptDiskKept DEF OptInv
  <2>3. OptFitted'
    BY <1>1, <1>3 DEF OptInv, OptFitted, ModelFile, OnDisk, Is
  <2>4. QED
    BY <1>1, <1>3, <2>1, <2>2, <2>3 DEF OptInv
<1>4. ASSUME RfInv
      PROVE  RfInv'
  <2>1. RfCells'
    BY <1>1, <1>4 DEF RfInv, RfCells, Rf02, Rf03, Rf04, Rf05, Rf06, Held, OfThese
  <2>2. RfDisk' /\ Versions' = Versions
    BY <1>1, <1>4, RfDiskKept DEF RfInv, RfRest
  <2>3. Existing' = Existing
    BY <1>1, <2>2 DEF Existing, IsExisting
  <2>4. RfTags'
    BY <1>1, <1>4, <2>2, <2>3 DEF RfInv, RfTags, Being
  <2>5. RfUnseen' /\ RfReport' /\ RfRun'
    BY <1>1, <1>4 DEF RfInv, RfRest, RfUnseen, RfReport, RfRun, Is
  <2>6. QED
    BY <2>1, <2>2, <2>4, <2>5 DEF RfInv, RfRest
<1>5. ASSUME MasterInv
      PROVE  MasterInv'
  <2>1. MasterFiles'
    BY <1>1, <1>5, MasterDiskKept DEF MasterInv
  <2>2. MasterScores' /\ MasterTurn' /\ MasterCalibrated' /\ MasterUnseen'
    BY <1>1, <1>5 DEF MasterInv, MasterScores, MasterTurn, MasterCalibrated, MasterUnseen, Is
  <2>3. QED
    BY <2>1, <2>2 DEF MasterInv
<1>6. ASSUME TreeInv
      PROVE  TreeInv'
  BY <1>1, <1>6 DEF TreeInv, TreeVersionsOK, TreeFilesOK, TreeMeasured, TreeVersions, ResultsFile,
                    Measured, OnDisk, Is
<1>7. QED
  BY <1>1, <1>2, <1>3, <1>4, <1>5, <1>6 DEF BookInv

\* and whichever of its cells is run
LEMMA BooksStep ==
  ASSUME BookInv, RunBook
  PROVE  BookInv'
<1>1. CASE EnhancedNext
  <2>1. book = "enhanced"
    BY <1>1 DEF EnhancedNext
  <2>2. QED
    BY <1>1, <2>1, EnhSteps, BooksAreDistinct DEF BookInv
<1>2. CASE OptimalNext
  <2>1. book = "optimal"
    BY <1>2 DEF OptimalNext
  <2>2. QED
    BY <1>2, <2>1, OptSteps, BooksAreDistinct DEF BookInv
<1>3. CASE RandomForestNext
  <2>1. book \in RfBooks
    BY <1>3 DEF RandomForestNext, RfBooks
  <2>2. QED
    BY <1>3, <2>1, RfSteps, BooksAreDistinct DEF BookInv
<1>4. CASE MasterNext
  <2>1. book = "master"
    BY <1>4 DEF MasterNext
  <2>2. QED
    BY <1>4, <2>1, MasterSteps, BooksAreDistinct DEF BookInv
<1>5. CASE TreeNext
  <2>1. book = "tree"
    BY <1>5 DEF TreeNext
  <2>2. QED
    BY <1>5, <2>1, TreeSteps, BooksAreDistinct DEF BookInv
<1>6. QED
  BY <1>1, <1>2, <1>3, <1>4, <1>5 DEF RunBook

(***************************************************************************)
(* Whatever cells are run and rerun and wherever kernels die, the          *)
(* invariant of the open book holds: neither the files of an earlier       *)
(* kernel nor the registry break what its cells go on with.                *)
(***************************************************************************)
THEOREM BooksHold == NotebooksSpec => []BookInv
<1>1. NotebooksInit => BookInv
  BY BooksStart
<1>2. BookInv /\ [NotebooksNext]_notebooksVars => BookInv'
  <2> SUFFICES ASSUME BookInv, [NotebooksNext]_notebooksVars
               PROVE  BookInv'
    OBVIOUS
  <2>1. CASE RunBook
    BY <2>1, BooksStep
  <2>2. CASE UNCHANGED notebookVars
    BY <2>2, BooksRest
  <2>3. QED
    BY <2>1, <2>2 DEF NotebooksNext, ReadLedger, ScoreRows, notebooksVars
<1>3. QED
  BY <1>1, <1>2, PTL DEF NotebooksSpec

\* what the books' invariants say together
LEMMA BooksConclude ==
  ASSUME BookInv
  PROVE  DecisionsBlind /\ ArtifactsMatch
<1>1. TestRowsUnseen /\ ScoresAreOfTheirKey
  <2>1. CASE book = "master"
    BY <2>1, MasterConcludes DEF BookInv
  <2>2. CASE book # "master"
    BY <2>2 DEF TestRowsUnseen, ScoresAreOfTheirKey
  <2>3. QED
    BY <2>1, <2>2
<1>2. EvaluatedPairMatches
  <2> SUFFICES ASSUME book = "optimal", Is("df_fb_phase04_oot")
               PROVE  Cardinality(mem.df_fb_phase04_oot.of) = 1
    BY DEF EvaluatedPairMatches
  <2>1. PICK t : mem.df_fb_phase04_oot.of = {t}
    BY DEF BookInv, OptInv, OptReported
  <2>2. QED
    BY <2>1, FS_Singleton
<1>3. ReportIsOfOneConfig /\ RegisteredPolicy /\ SealedTestTold
  <2>1. CASE book \in RfBooks
    BY <2>1, RfConcludes DEF BookInv
  <2>2. CASE book \notin RfBooks
    BY <2>2 DEF ReportIsOfOneConfig, RegisteredPolicy, SealedTestTold, RfBooks
  <2>3. QED
    BY <2>1, <2>2
<1>4. ResultsNameTheirModel
  <2>1. CASE book = "tree"
    BY <2>1, TreeResultsMatch DEF BookInv
  <2>2. CASE book # "tree"
    BY <2>2 DEF ResultsNameTheirModel
  <2>3. QED
    BY <2>1, <2>2
<1>5. \A n \in Decisions(book) \cap DOMAIN mem : Labels(mem[n]) \cap Reserved(book) = {}
  <2>1. CASE book = "enhanced"
    <3>1. Decisions(book) = EnhancedDecisions /\ Reserved(book) = {"test"}
      BY <2>1, BooksAreDistinct DEF Decisions, Reserved
    <3>2. DecidedBlind(EnhancedDecisions, {"test"})
      BY <2>1 DEF BookInv, EnhInv
    <3>3. QED
      BY <3>1, <3>2, BlindLabels DEF DecidedBlind
  <2>2. CASE book = "optimal"
    <3>1. Decisions(book) = OptimalDecisions /\ Reserved(book) = {"oot"}
      BY <2>2, BooksAreDistinct DEF Decisions, Reserved
    <3>2. DecidedBlind(OptimalDecisions, {"oot"})
      BY <2>2 DEF BookInv, OptInv
    <3>3. QED
      BY <3>1, <3>2, BlindLabels DEF DecidedBlind
  <2>3. CASE book \in RfBooks
    <3>1. Decisions(book) = RandomForestDecisions /\ Reserved(book) = {"test"}
      BY <2>3, BooksAreDistinct DEF Decisions, Reserved
    <3>2. \A n \in RandomForestDecisions \cap DOMAIN mem : Blind(mem[n], {"test"})
      BY <2>3, RfConcludes DEF BookInv, Unseen, Blind
    <3>3. QED
      BY <3>1, <3>2, BlindLabels
  <2>4. CASE book \notin {"enhanced", "optimal"} \cup RfBooks
    BY <2>4 DEF Decisions
  <2>5. QED
    BY <2>1, <2>2, <2>3, <2>4
<1>6. QED
  BY <1>1, <1>2, <1>3, <1>4, <1>5 DEF DecisionsBlind, ArtifactsMatch

(***************************************************************************)
(* DecisionsBlind: whatever cells are run and rerun, whatever files        *)
(* earlier kernels left and wherever they died, nothing the enhanced, the  *)
(* optimal and the RandomForest books decide with is a function of the     *)
(* labels they keep for their final evaluation; nothing the comparison     *)
(* decides with, for any models in any order, was fitted to test labels of *)
(* its universe, nor encoded with them outside EncodesTestRows.            *)
(***************************************************************************)
THEOREM DecisionsStayBlind == NotebooksSpec => []DecisionsBlind
BY BooksHold, BooksConclude, PTL

(***************************************************************************)
(* ArtifactsMatch: what is evaluated or published together was made        *)
(* together, for any number of restarts: model and calibrator, model and   *)
(* threshold and parameters, scores and their partition, results and their *)
(* version; and a published evaluation says whether it used the sealed     *)
(* test rows.                                                              *)
(***************************************************************************)
THEOREM ArtifactsDoMatch == NotebooksSpec => []ArtifactsMatch
BY BooksHold, BooksConclude, PTL

------------------------------------------------------------------------------

(***************************************************************************)
(* Whatever books are run and rerun, the feature tables settle, the        *)
(* threshold rules are those of LargerBetaAlertsMore,                      *)
(* ExpectedValueIsNetValue and ThresholdRulesAreSound, decisions stay      *)
(* blind and artifacts match.                                              *)
(***************************************************************************)
THEOREM NotebooksAreSafe ==
  NotebooksSpec =>
    /\ FeaturesSettle /\ []BetaMonotone /\ []EvIsExpectedNbv /\ []RulesAreSound
    /\ []DecisionsBlind /\ []ArtifactsMatch
<1> QED BY NotebooksShareAlgorithms, FeaturesDoSettle, LargerBetaAlertsMore,
           ExpectedValueIsNetValue, ThresholdRulesAreSound, DecisionsStayBlind,
           ArtifactsDoMatch, PTL
==============================================================================
