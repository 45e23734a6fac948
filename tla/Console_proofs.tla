---------------------------- MODULE Console_proofs -----------------------------
(***************************************************************************)
(* Theorems about the console, for any files, versions and labels, and any *)
(* number of clicks, sessions and interruptions.  That a promotion is      *)
(* acknowledged is liveness and stays with TLC.                            *)
(***************************************************************************)
EXTENDS Console, FiniteSetTheorems, SequenceTheorems,
        WellFoundedInduction, TLAPS

(***************************************************************************)
(* The ids of the form that are in the log were drawn before the one the   *)
(* form has now, and there are enough: each click draws at most one.       *)
(***************************************************************************)
FormPending == click = "form" /\ at \in {"sidebar", "info", "score"}

LogInv ==
  /\ log \in Seq(Ids) /\ rows \in Seq(Ids)
  /\ form \in Nat \ {0} /\ clicks \in 0..MaxClicks
  /\ form + (IF FormPending THEN 1 ELSE 0) <= 1 + clicks
  /\ \A i \in 1..Len(log) : log[i] \in FormIds => log[i] < form
  /\ FormIdsUnique

(***************************************************************************)
(* While the statements of a run are executed, each writes to an id what   *)
(* the user chose for it, or what is there already, unless another session *)
(* wrote it since; and a statement that comes after another on the same id *)
(* is one the user chose.                                                  *)
(***************************************************************************)
Justified(s, e) ==
  Chose(e, s.value) \/ e \in raced \/ labels[e] = s.value

ApplyInv ==
  at = "apply" =>
    /\ todo # <<>>
    /\ \A i \in 1..Len(todo) : /\ todo[i].ids \subseteq Ids
                               /\ \A e \in todo[i].ids : Justified(todo[i], e)
    /\ \A i, j \in 1..Len(todo) : i < j =>
         \A e \in todo[i].ids \cap todo[j].ids : Chose(e, todo[j].value)

EditInv ==
  /\ file \in {None} \cup (Ids \X {"fraud", "legit"})
  /\ \E S : todo \in Seq(S)
  /\ ApplyInv

ConsoleInv == LogInv /\ EditInv
------------------------------------------------------------------------------
\* What the helpers return

LEMMA HighestOf ==
  ASSUME NEW S, NEW n \in Nat, S \subseteq 1..n, S # {}
  PROVE  \E i \in S : \A j \in S : j <= i
<1> DEFINE T == {n - s : s \in S}
<1>1. \A s \in S : s \in Nat /\ s <= n
  OBVIOUS
<1>2. T \in SUBSET Nat /\ T # {}
  <2>1. \A s \in S : n - s \in Nat
    BY <1>1
  <2> QED BY <2>1
<1>3. PICK j \in T : \A k \in T : ~(<<k, j>> \in OpToRel(<, Nat))
  BY <1>2, NatLessThanWellFounded, WFMin, Zenon
<1>4. \A k \in T : ~(k < j)
  BY <1>2, <1>3, Zenon DEF OpToRel
<1>5. PICK i \in S : j = n - i
  BY <1>3
<1>6. ASSUME NEW s \in S PROVE s <= i
  <2>1. ~(n - s < n - i)
    BY <1>4, <1>5
  <2> QED BY <1>1, <2>1
<1> QED BY <1>6

LEMMA ListsAll ==
  ASSUME NEW S, IsFiniteSet(S)
  PROVE  LET s == SetToSeq(S) IN
         /\ Cardinality(S) \in Nat
         /\ s \in [1..Cardinality(S) -> S]
         /\ \A i, j \in 1..Cardinality(S) : s[i] = s[j] => i = j
<1>1. Cardinality(S) \in Nat /\ ExistsBijection(1..Cardinality(S), S)
  BY FS_CountingElements, FS_NatBijection, FS_CardinalityType
<1>2. \E f \in [1..Cardinality(S) -> S] : IsInjective(f)
  BY <1>1 DEF ExistsBijection, Bijection, Injection
<1>3. SetToSeq(S) \in [1..Cardinality(S) -> S] /\ IsInjective(SetToSeq(S))
  BY <1>2 DEF SetToSeq
<1> QED BY <1>1, <1>3 DEF IsInjective

LEMMA RecentIds ==
  ASSUME NEW events \in Seq(Ids)
  PROVE  Recent(events) \in Seq(Ids)
<1>1. Len(events) \in Nat /\ MaxRows \in Nat
  BY ConsoleAssumption
<1>2. Reverse(events) \in Seq(Ids) /\ Len(Reverse(events)) = Len(events)
  BY <1>1 DEF Reverse
<1> DEFINE m == IF Len(events) < MaxRows THEN Len(events) ELSE MaxRows
<1>3. m \in Nat /\ m <= Len(Reverse(events))
  BY <1>1, <1>2
<1> HIDE DEF m
<1>4. SubSeq(Reverse(events), 1, m) \in Seq(Ids)
  BY <1>2, <1>3, SubSeqProperties
<1> QED BY <1>4 DEF Recent, m

(***************************************************************************)
(* Of an id that the editor shows twice, the last row is the one Save      *)
(* writes; it is one that shows the id.                                    *)
(***************************************************************************)
LEMMA LastRowShows ==
  ASSUME rows \in Seq(Ids), NEW e \in Shown
  PROVE  LastRow(e) \in 1..Len(rows) /\ rows[LastRow(e)] = e
<1> DEFINE S == {i \in 1..Len(rows) : rows[i] = e}
<1>1. S # {} /\ S \subseteq 1..Len(rows) /\ Len(rows) \in Nat
  BY DEF Shown
<1>2. \E i \in S : \A j \in S : j <= i
  BY <1>1, HighestOf
<1>3. \E i \in 1..Len(rows) :
        rows[i] = e /\ \A j \in (i + 1)..Len(rows) : rows[j] # e
  <2>1. PICK i \in S : \A j \in S : j <= i
    BY <1>2
  <2>2. ASSUME NEW j \in (i + 1)..Len(rows), rows[j] = e PROVE FALSE
    BY <1>1, <2>1, <2>2
  <2> QED BY <2>1, <2>2
<1> QED BY <1>3, Zenon DEF LastRow

------------------------------------------------------------------------------
\* What the log and the form hold

(***************************************************************************)
(* Ids of a file are appended.                                             *)
(***************************************************************************)
LEMMA FileIdsAppend ==
  ASSUME log \in Seq(Ids), NEW ids \in Seq(CsvIds), log' = log \o ids,
         \A i \in 1..Len(log) : log[i] \in FormIds => log[i] < form,
         FormIdsUnique
  PROVE  /\ log' \in Seq(Ids)
         /\ \A i \in 1..Len(log') : log'[i] \in FormIds => log'[i] < form
         /\ FormIdsUnique'
<1>1. /\ log' \in Seq(Ids) /\ Len(log') = Len(log) + Len(ids)
      /\ \A i \in 1..Len(log') :
           \/ i \in 1..Len(log) /\ log'[i] = log[i]
           \/ i > Len(log) /\ log'[i] \in CsvIds
  BY DEF Ids
<1>2. \A i \in 1..Len(log') : log'[i] \in FormIds =>
        i \in 1..Len(log) /\ log'[i] = log[i]
  BY <1>1, IdsAssumption
<1>3. ASSUME NEW i \in 1..Len(log'), NEW j \in 1..Len(log'), i # j,
             log'[i] \in FormIds
      PROVE  log'[i] # log'[j]
  <2>1. i \in 1..Len(log) /\ log'[i] = log[i]
    BY <1>2, <1>3
  <2>2. ASSUME log'[j] = log'[i] PROVE FALSE
    <3>1. j \in 1..Len(log) /\ log'[j] = log[j]
      BY <1>2, <1>3, <2>2
    <3> QED BY <1>3, <2>1, <2>2, <3>1 DEF FormIdsUnique
  <2> QED BY <2>2
<1>4. FormIdsUnique'
  BY <1>3 DEF FormIdsUnique, FormIds
<1> QED BY <1>1, <1>2, <1>4

(***************************************************************************)
(* The id of the form is appended, and the form draws the next one.        *)
(***************************************************************************)
LEMMA FormIdAppends ==
  ASSUME log \in Seq(Ids), form \in FormIds, log' = Append(log, form),
         \A i \in 1..Len(log) : log[i] \in FormIds => log[i] < form,
         FormIdsUnique
  PROVE  /\ log' \in Seq(Ids)
         /\ \A i \in 1..Len(log') : log'[i] \in FormIds => log'[i] < form + 1
         /\ FormIdsUnique'
<1>0. MaxClicks \in Nat
  BY ConsoleAssumption
<1>1. /\ log' \in Seq(Ids) /\ Len(log') = Len(log) + 1
      /\ log'[Len(log')] = form
      /\ \A i \in 1..Len(log) : log'[i] = log[i]
  BY DEF Ids
<1>2. \A i \in 1..Len(log') : i \in 1..Len(log) \/ i = Len(log')
  BY <1>1
<1>3. \A i \in 1..Len(log) : log'[i] \in FormIds => log'[i] < form
  BY <1>1
<1>4. \A i \in 1..Len(log') : log'[i] \in FormIds => log'[i] < form + 1
  BY <1>0, <1>1, <1>2, <1>3 DEF FormIds
<1>5. ASSUME NEW i \in 1..Len(log'), NEW j \in 1..Len(log'), i # j,
             log'[i] \in FormIds, log'[i] = log'[j]
      PROVE  FALSE
  <2>1. form \in Nat /\ ~(form < form)
    BY <1>0 DEF FormIds
  <2>2. CASE i = Len(log')
    BY <1>1, <1>2, <1>3, <1>5, <2>1, <2>2
  <2>3. CASE j = Len(log')
    BY <1>1, <1>2, <1>3, <1>5, <2>1, <2>3
  <2>4. CASE i \in 1..Len(log) /\ j \in 1..Len(log)
    BY <1>1, <1>5, <2>4 DEF FormIdsUnique
  <2> QED BY <1>2, <2>2, <2>3, <2>4
<1>6. FormIdsUnique'
  BY <1>5 DEF FormIdsUnique, FormIds
<1> QED BY <1>1, <1>4, <1>6

LEMMA SubmitLog ==
  ASSUME LogInv, Submit
  PROVE  LogInv'
<1> USE ConsoleAssumption DEF LogInv
<1>1. /\ at = "score" /\ rows' = rows /\ clicks' = clicks /\ click' = click
      /\ at' \in {"idle", "registry"}
  BY DEF Submit, Goto, editorVars, boundVars
<1>2. ~FormPending'
  BY <1>1 DEF FormPending
<1>3. CASE click = "form"
  <2>1. /\ form' = form + 1 /\ form + 1 <= 1 + clicks
        /\ form \in FormIds
    BY <1>1, <1>3 DEF Submit, DrawId, FormPending, FormIds
  <2>2. PICK n \in 0..Len(<<form>>) : log' = log \o SubSeq(<<form>>, 1, n)
    BY <1>3 DEF Submit
  <2>3. n \in {0, 1}
    BY <2>2
  <2>4. CASE n = 0
    <3>1. SubSeq(<<form>>, 1, 0) = <<>>
      OBVIOUS
    <3>2. log' = log
      BY <2>2, <2>4, <3>1
    <3>3. /\ \A i \in 1..Len(log') : log'[i] \in FormIds => log'[i] < form'
          /\ FormIdsUnique'
      BY <2>1, <3>2 DEF FormIds, FormIdsUnique
    <3> QED BY <1>1, <1>2, <2>1, <3>2, <3>3
  <2>5. CASE n = 1
    <3>1. SubSeq(<<form>>, 1, 1) = <<form>>
      <4> DEFINE one == SubSeq(<<form>>, 1, 1)
      <4>1. /\ one \in Seq({form}) /\ Len(one) = 1
            /\ one[1] = <<form>>[1]
        <5>1. \A i \in 1..1 : <<form>>[i] \in {form}
          OBVIOUS
        <5> QED BY <5>1, SubSeqProperties
      <4> HIDE DEF one
      <4>2. <<form>> \in Seq({form}) /\ Len(<<form>>) = 1
        OBVIOUS
      <4>3. one = <<form>>
        BY <4>1, <4>2, SeqEqual
      <4> QED BY <4>3 DEF one
    <3>2. log' = Append(log, form)
      BY <2>2, <2>5, <3>1
    <3>3. /\ log' \in Seq(Ids)
          /\ \A i \in 1..Len(log') : log'[i] \in FormIds => log'[i] < form + 1
          /\ FormIdsUnique'
      BY <2>1, <3>2, FormIdAppends
    <3> QED BY <1>1, <1>2, <2>1, <3>3
  <2> QED BY <2>3, <2>4, <2>5
<1>4. CASE click # "form"
  <2>1. form' = form /\ ~FormPending
    BY <1>4 DEF Submit, DrawId, FormPending
  <2> DEFINE sent == SetToSeq(CsvIds)
  <2>2. PICK n \in 0..Len(sent) : log' = log \o SubSeq(sent, 1, n)
    BY <1>4 DEF Submit
  <2>3. sent \in Seq(CsvIds)
    <3>1. Cardinality(CsvIds) \in Nat /\ sent \in [1..Cardinality(CsvIds) -> CsvIds]
      BY IdsAssumption, ListsAll
    <3> HIDE DEF sent
    <3> QED BY <3>1
  <2> HIDE DEF sent
  <2>4. SubSeq(sent, 1, n) \in Seq(CsvIds)
    BY <2>2, <2>3, SubSeqProperties
  <2>5. /\ log' \in Seq(Ids)
        /\ \A i \in 1..Len(log') : log'[i] \in FormIds => log'[i] < form
        /\ FormIdsUnique'
    BY <2>2, <2>4, FileIdsAppend
  <2> QED BY <1>1, <1>2, <2>1, <2>5
<1> QED BY <1>3, <1>4

\* what changes neither the log nor the form
LEMMA LogStays ==
  ASSUME LogInv, UNCHANGED <<log, form>>, rows' \in Seq(Ids), clicks' \in 0..MaxClicks,
         \/ clicks' = clicks + 1
         \/ clicks' = clicks /\ (FormPending' => FormPending)
  PROVE  LogInv'
<1> USE ConsoleAssumption
<1>1. FormPending' \in BOOLEAN /\ FormPending \in BOOLEAN
  BY DEF FormPending
<1>2. form + (IF FormPending' THEN 1 ELSE 0) <= 1 + clicks'
  <2>1. /\ form \in Nat /\ clicks \in Nat /\ form <= 1 + clicks
        /\ FormPending => form + 1 <= 1 + clicks
    BY <1>1 DEF LogInv
  <2> HIDE DEF FormPending
  <2>2. CASE clicks' = clicks + 1
    BY <2>1, <2>2
  <2>3. CASE clicks' = clicks /\ (FormPending' => FormPending)
    BY <2>1, <2>3
  <2> QED BY <2>2, <2>3
<1> QED BY <1>2 DEF LogInv, FormIdsUnique

LEMMA UserLog ==
  ASSUME LogInv, User
  PROVE  LogInv'
<1> USE ConsoleAssumption
<1>1. UNCHANGED <<log, form, rows>>
  BY DEF User, Look, Click, EditCell, Upload, Rerun, scorerVars, sessionVars
<1>2. CASE Look
  BY <1>1, <1>2, LogStays DEF Look, Rerun, Goto, FormPending, LogInv
<1>3. CASE ~Look
  <2>1. Write
    BY <1>3 DEF User, Click, EditCell, Upload
  <2>2. clicks' = clicks + 1 /\ clicks' \in 0..MaxClicks
    BY <2>1 DEF Write, LogInv
  <2> QED BY <1>1, <2>2, LogStays DEF LogInv
<1> QED BY <1>2, <1>3

LEMMA FrameLog ==
  ASSUME LogInv, LoadFrame
  PROVE  LogInv'
<1>1. UNCHANGED <<log, form, clicks>> /\ ~FormPending'
  BY DEF LoadFrame, Goto, scorerVars, sessionVars, boundVars, FormPending
<1>2. PICK n \in 0..Len(log) : rows' = Recent(SubSeq(log, 1, n))
  BY DEF LoadFrame
<1>3. SubSeq(log, 1, n) \in Seq(Ids)
  BY <1>2, SubSeqProperties DEF LogInv
<1>4. rows' \in Seq(Ids)
  BY <1>2, <1>3, RecentIds
<1> QED BY <1>1, <1>4, LogStays DEF LogInv

LEMMA OtherScoresLog ==
  ASSUME LogInv, NEW e \in CsvIds, OtherScores(e)
  PROVE  LogInv'
<1>1. /\ log' = log \o <<e>> /\ <<e>> \in Seq(CsvIds)
      /\ UNCHANGED <<form, rows, clicks, at, click>>
  BY DEF OtherScores, SessionRests, editorVars, sessionVars, LogInv
<1>2. /\ log' \in Seq(Ids)
      /\ \A i \in 1..Len(log') : log'[i] \in FormIds => log'[i] < form
      /\ FormIdsUnique'
  BY <1>1, FileIdsAppend DEF LogInv
<1> QED BY <1>1, <1>2 DEF LogInv, FormPending

\* the scorer and its supervisor touch neither the log nor a page
LEMMA ScorerLeavesPage ==
  ASSUME ScorerStops \/ ScorerUnconfirmed \/ ScorerStep
  PROVE  UNCHANGED <<log, at, click, clicks, labelVars, editorVars, sessionVars>>
BY DEF ScorerStops, ScorerUnconfirmed, ScorerStep, ScorerBoots, ScorerPolls,
       ScorerServes, ScorerConfirms, SessionRests

LEMMA OtherLog ==
  ASSUME LogInv,
         \/ ScorerStops \/ ScorerUnconfirmed \/ ScorerStep
         \/ \E v \in Compatible : OtherPromotes(v)
         \/ \E e \in Ids, v \in Truth : OtherLabels(e, v)
         \/ Sidebar \/ SidebarInfo \/ Registry \/ RegistryFails \/ CheckPromotion
         \/ LoadFails \/ ReadAndEdit \/ Statement \/ StatementFails
         \/ UNCHANGED consoleVars
  PROVE  LogInv'
<1> USE DEF FormPending, Goto, editorVars, sessionVars, boundVars, scorerVars
<1>1. UNCHANGED <<log, form, rows, clicks>> /\ (FormPending' => FormPending)
  <2>1. CASE ScorerStops \/ ScorerUnconfirmed \/ ScorerStep
    BY <2>1, ScorerLeavesPage
  <2>2. CASE \/ \E v \in Compatible : OtherPromotes(v)
             \/ \E e \in Ids, v \in Truth : OtherLabels(e, v)
    BY <2>2 DEF OtherPromotes, OtherLabels
  <2>3. CASE Sidebar \/ SidebarInfo
    BY <2>3 DEF Sidebar, SidebarInfo
  <2>4. CASE Registry \/ RegistryFails \/ CheckPromotion
    BY <2>4 DEF Registry, RegistryFails, CheckPromotion
  <2>5. CASE LoadFails \/ ReadAndEdit \/ Statement \/ StatementFails
    BY <2>5 DEF LoadFails, ReadAndEdit, Statement, StatementFails
  <2>6. CASE UNCHANGED consoleVars
    BY <2>6 DEF consoleVars
  <2> QED BY <2>1, <2>2, <2>3, <2>4, <2>5, <2>6
<1> QED BY <1>1, LogStays DEF LogInv

LEMMA LogStep ==
  ASSUME LogInv, [ConsoleNext]_consoleVars
  PROVE  LogInv'
BY SubmitLog, UserLog, FrameLog, OtherScoresLog, OtherLog
   DEF ConsoleNext, ScriptStep, Others
------------------------------------------------------------------------------
\* What the statements of a run do

(***************************************************************************)
(* apply_label_edits writes to each edited id its edited value, and to no  *)
(* id twice.                                                               *)
(***************************************************************************)
LEMMA StatementsWriteEdits ==
  ASSUME NEW edits, IsFiniteSet(DOMAIN edits)
  PROVE  LET s == Statements(edits) IN
         /\ \E S : s \in Seq(S)
         /\ \A i \in 1..Len(s) : \A e \in s[i].ids :
              e \in DOMAIN edits /\ s[i].value = edits[e]
         /\ \A i, j \in 1..Len(s) : i < j => s[i].ids \cap s[j].ids = {}
<1> DEFINE upserts == {e \in DOMAIN edits : edits[e] # "unlabeled"}
           deletes == DOMAIN edits \ upserts
           n == Cardinality(upserts)
           list == SetToSeq(upserts)
           first == [i \in 1..n |-> [ids |-> {list[i]}, value |-> edits[list[i]]]]
           last == IF deletes = {} THEN <<>>
                   ELSE <<[ids |-> deletes, value |-> "unlabeled"]>>
           T == [ids : SUBSET DOMAIN edits,
                 value : {edits[e] : e \in DOMAIN edits} \cup {"unlabeled"}]
<1>1. /\ n \in Nat /\ list \in [1..n -> upserts]
      /\ \A i, j \in 1..n : list[i] = list[j] => i = j
  <2>1. IsFiniteSet(upserts)
    BY FS_Subset
  <2> HIDE DEF upserts
  <2> QED BY <2>1, ListsAll
<1>2. Statements(edits) = first \o last
  BY DEF Statements
<1> HIDE DEF list, n
<1>3. /\ first \in Seq(T) /\ Len(first) = n
      /\ \A i \in 1..n : /\ first[i].ids = {list[i]} /\ list[i] \in upserts
                         /\ first[i].value = edits[list[i]]
  <2>1. \A i \in 1..n : list[i] \in upserts
    BY <1>1
  <2>2. \A i \in 1..n : [ids |-> {list[i]}, value |-> edits[list[i]]] \in T
    BY <2>1
  <2> HIDE DEF T
  <2> QED BY <1>1, <2>1, <2>2
<1>4. /\ last \in Seq(T) /\ Len(last) \in {0, 1}
      /\ Len(last) = 1 => last[1].ids = deletes /\ last[1].value = "unlabeled"
  <2>1. CASE deletes = {}
    BY <2>1
  <2>2. CASE deletes # {}
    <3>1. [ids |-> deletes, value |-> "unlabeled"] \in T
      OBVIOUS
    <3> HIDE DEF T, deletes
    <3> QED BY <2>2, <3>1
  <2> QED BY <2>1, <2>2
<1> DEFINE s == first \o last
<1> HIDE DEF first, last, T
<1>5. /\ s \in Seq(T) /\ Len(s) = n + Len(last)
      /\ \A i \in 1..Len(s) : s[i] = IF i <= n THEN first[i] ELSE last[i - n]
  BY <1>1, <1>3, <1>4, ConcatProperties
<1> HIDE DEF s
<1>6. ASSUME NEW i \in 1..Len(s)
      PROVE  \/ /\ i \in 1..n /\ s[i].ids = {list[i]} /\ list[i] \in upserts
                /\ s[i].value = edits[list[i]]
             \/ /\ i = n + 1 /\ s[i].ids = deletes /\ s[i].value = "unlabeled"
  <2>1. CASE i <= n
    <3>1. i \in 1..n /\ s[i] = first[i]
      BY <1>1, <1>4, <1>5, <2>1
    <3> QED BY <1>3, <3>1
  <2>2. CASE ~(i <= n)
    <3>1. i = n + 1 /\ Len(last) = 1 /\ s[i] = last[1]
      BY <1>1, <1>4, <1>5, <2>2
    <3> QED BY <1>4, <3>1
  <2> QED BY <2>1, <2>2
<1>7. \A i \in 1..Len(s) : \A e \in s[i].ids :
        e \in DOMAIN edits /\ s[i].value = edits[e]
  BY <1>6
<1>8. ASSUME NEW i \in 1..Len(s), NEW j \in 1..Len(s), i < j
      PROVE  s[i].ids \cap s[j].ids = {}
  <2>1. i \in 1..n /\ s[i].ids = {list[i]} /\ list[i] \in upserts
    BY <1>1, <1>4, <1>5, <1>6, <1>8
  <2>2. CASE j \in 1..n /\ s[j].ids = {list[j]}
    BY <1>1, <1>8, <2>1, <2>2
  <2>3. CASE s[j].ids = deletes
    BY <2>1, <2>3
  <2> QED BY <1>6, <2>2, <2>3
<1> QED BY <1>2, <1>5, <1>7, <1>8 DEF s

(***************************************************************************)
(* The run that reads the labels and leaves statements to execute.         *)
(***************************************************************************)
LEMMA ReadAndEditJustifies ==
  ASSUME LogInv, EditInv, ReadAndEdit
  PROVE  EditInv'
<1> DEFINE ChoseNext(e, v) == file' = <<e, v>>
             \/ \E i \in DOMAIN cells' : rows'[i] = e /\ cells'[i] = v
<1> DEFINE given == ReadLabels
           kept == IF given = base THEN cells ELSE NoCells
           edits == [e \in Shown |-> CellIn(given, kept, LastRow(e))]
           saved == IF click = "save" THEN Statements(edits) ELSE <<>>
           one == [ids |-> {file[1]}, value |-> file[2]]
           imported == IF file = None THEN <<>> ELSE <<one>>
<1>1. /\ at = "labels" /\ cells' = kept /\ todo' = saved \o imported
      /\ at' = IF saved \o imported = <<>> THEN "idle" ELSE "apply"
      /\ UNCHANGED <<labels, rows, file>>
  BY DEF ReadAndEdit, Goto
<1>2. IsFiniteSet(Shown) /\ Shown \subseteq Ids
  <2>1. Len(rows) \in Nat /\ \A i \in 1..Len(rows) : rows[i] \in Ids
    BY DEF LogInv
  <2>2. IsFiniteSet(1..Len(rows))
    BY <2>1, FS_Interval
  <2> DEFINE f == [i \in 1..Len(rows) |-> rows[i]]
  <2>3. f \in Surjection(1..Len(rows), Shown)
    BY DEF Surjection, Shown
  <2> QED BY <2>1, <2>2, <2>3, FS_Surjection DEF Shown
<1>3. /\ \E S : saved \in Seq(S)
      /\ \A i \in 1..Len(saved) : \A e \in saved[i].ids :
           e \in Shown /\ saved[i].value = edits[e]
      /\ \A i, j \in 1..Len(saved) : i < j => saved[i].ids \cap saved[j].ids = {}
  <2>1. CASE click = "save"
    <3> HIDE DEF edits
    <3>1. DOMAIN edits = Shown
      BY DEF edits
    <3> QED BY <1>2, <2>1, <3>1, StatementsWriteEdits
  <2>2. CASE click # "save"
    <3>1. saved = <<>> /\ saved \in Seq({})
      BY <2>2
    <3> QED BY <3>1
  <2> QED BY <2>1, <2>2
<1>4. ASSUME NEW e \in Shown
      PROVE  ChoseNext(e, edits[e]) \/ edits[e] = labels[e]
  <2>1. LastRow(e) \in 1..Len(rows) /\ rows[LastRow(e)] = e
    BY LastRowShows DEF LogInv
  <2>2. edits[e] = CellIn(given, kept, LastRow(e))
    OBVIOUS
  <2>3. CASE LastRow(e) \in DOMAIN kept
    <3> HIDE DEF kept, edits, given
    <3>1. edits[e] = kept[LastRow(e)]
      BY <2>2, <2>3 DEF CellIn
    <3> QED BY <1>1, <2>1, <2>3, <3>1
  <2>4. CASE LastRow(e) \notin DOMAIN kept
    <3>1. given[e] = labels[e]
      BY <1>2 DEF ReadLabels
    <3> HIDE DEF kept, edits, given
    <3> QED BY <2>1, <2>2, <2>4, <3>1 DEF CellIn
  <2> QED BY <2>3, <2>4
<1>5. /\ \E S : imported \in Seq(S)
      /\ Len(imported) \in {0, 1}
      /\ Len(imported) = 1 =>
           /\ imported[1].ids \subseteq Ids
           /\ \A e \in imported[1].ids : ChoseNext(e, imported[1].value)
  <2>1. CASE file = None
    <3>1. imported = <<>> /\ <<>> \in Seq({})
      BY <2>1
    <3> QED BY <3>1
  <2>2. CASE file # None
    <3>1. imported = <<one>> /\ <<one>> \in Seq({one})
      BY <2>2
    <3>2. file \in Ids \X {"fraud", "legit"}
      BY <2>2 DEF EditInv
    <3>3. one.ids = {file[1]} /\ one.value = file[2] /\ file[1] \in Ids
      BY <3>2
    <3>4. file = <<file[1], file[2]>>
      BY <3>2
    <3>5. ChoseNext(file[1], file[2])
      BY <1>1, <3>4
    <3> HIDE DEF one
    <3>6. Len(imported) = 1 /\ imported[1] = one
      BY <3>1
    <3>7. \A e \in one.ids : ChoseNext(e, one.value)
      BY <3>3, <3>5
    <3> QED BY <3>1, <3>3, <3>6, <3>7
  <2> QED BY <2>1, <2>2
<1> HIDE DEF edits, saved, imported, kept, given
<1> HIDE DEF ChoseNext
<1>6. PICK S : saved \in Seq(S)
  BY <1>3
<1>7. PICK T : imported \in Seq(T)
  BY <1>5
<1>8. /\ todo' \in Seq(S \cup T)
      /\ Len(saved) \in Nat
      /\ Len(todo') = Len(saved) + Len(imported)
      /\ \A i \in 1..Len(todo') :
           todo'[i] = IF i <= Len(saved) THEN saved[i] ELSE imported[i - Len(saved)]
  <2>1. saved \in Seq(S \cup T) /\ imported \in Seq(S \cup T)
    BY <1>6, <1>7
  <2> QED BY <1>1, <2>1, ConcatProperties, LenProperties
<1>9. ASSUME NEW i \in 1..Len(todo')
      PROVE  \/ i \in 1..Len(saved) /\ todo'[i] = saved[i]
             \/ i = Len(saved) + 1 /\ Len(imported) = 1 /\ todo'[i] = imported[1]
  BY <1>5, <1>8
<1>10. ASSUME NEW i \in 1..Len(todo'), NEW e \in todo'[i].ids
       PROVE  e \in Ids /\ (ChoseNext(e, todo'[i].value) \/ labels'[e] = todo'[i].value)
  <2>1. CASE i \in 1..Len(saved) /\ todo'[i] = saved[i]
    <3>1. e \in Shown /\ todo'[i].value = edits[e]
      BY <1>3, <1>10, <2>1
    <3> QED BY <1>1, <1>2, <1>4, <3>1
  <2>2. CASE Len(imported) = 1 /\ todo'[i] = imported[1]
    BY <1>5, <1>10, <2>2
  <2> QED BY <1>9, <2>1, <2>2
<1>11. ASSUME NEW i \in 1..Len(todo'), NEW j \in 1..Len(todo'), i < j,
              NEW e \in todo'[i].ids \cap todo'[j].ids
       PROVE  ChoseNext(e, todo'[j].value)
  <2>1. CASE j \in 1..Len(saved) /\ todo'[j] = saved[j]
    <3>1. i \in 1..Len(saved) /\ todo'[i] = saved[i]
      BY <1>8, <1>11, <2>1
    <3> QED BY <1>3, <1>11, <2>1, <3>1
  <2>2. CASE Len(imported) = 1 /\ todo'[j] = imported[1]
    BY <1>5, <1>11, <2>2
  <2> QED BY <1>9, <2>1, <2>2
<1>12. at' = "apply" => todo' # <<>>
  BY <1>1
<1>13. ApplyInv'
  BY <1>10, <1>11, <1>12 DEF ApplyInv, Justified, Chose, ChoseNext
<1> QED BY <1>1, <1>8, <1>13 DEF EditInv

(***************************************************************************)
(* A statement writes the ids it names; of those, what comes later writes  *)
(* only what the user chose.                                               *)
(***************************************************************************)
LEMMA StatementWrites ==
  ASSUME EditInv, Statement
  PROVE  /\ todo # <<>> /\ Head(todo).ids \subseteq Ids
         /\ \A e \in Head(todo).ids :
              labels'[e] = Head(todo).value /\ Justified(Head(todo), e)
<1>1. PICK S : todo \in Seq(S)
  BY DEF EditInv
<1>2. at = "apply" /\ todo # <<>>
  BY DEF Statement, EditInv, ApplyInv
<1>3. 1 \in 1..Len(todo) /\ Head(todo) = todo[1]
  BY <1>1, <1>2
<1>4. todo[1].ids \subseteq Ids /\ \A e \in todo[1].ids : Justified(todo[1], e)
  BY <1>2, <1>3 DEF EditInv, ApplyInv
<1>5. \A e \in Head(todo).ids : labels'[e] = Head(todo).value
  BY <1>3, <1>4 DEF Statement
<1> QED BY <1>2, <1>3, <1>4, <1>5

LEMMA StatementEdit ==
  ASSUME EditInv, Statement
  PROVE  EditInv'
<1> DEFINE ChoseNext(e, v) == file' = <<e, v>>
             \/ \E i \in DOMAIN cells' : rows'[i] = e /\ cells'[i] = v
<1>1. PICK S : todo \in Seq(S)
  BY DEF EditInv
<1>2. /\ at = "apply" /\ todo # <<>>
      /\ todo' = Tail(todo) /\ UNCHANGED <<file, cells, rows, raced>>
      /\ labels' = [e \in Ids |-> IF e \in Head(todo).ids THEN Head(todo).value
                                                        ELSE labels[e]]
      /\ ~(Len(todo) > 1) => at' = "idle"
  BY DEF Statement, EditInv, ApplyInv, Goto, editorVars
<1>3. /\ Head(todo) = todo[1] /\ todo' \in Seq(S) /\ Len(todo') = Len(todo) - 1
      /\ Len(todo) \in Nat \ {0}
      /\ \A i \in 1..Len(todo') : todo'[i] = todo[i + 1]
  BY <1>1, <1>2
<1>4. \A i \in 1..Len(todo') : 1 \in 1..Len(todo) /\ i + 1 \in 1..Len(todo) /\ 1 < i + 1
  BY <1>3
<1>5. \A e, v : Chose(e, v) => ChoseNext(e, v)
  BY <1>2 DEF Chose
<1> HIDE DEF ChoseNext
<1>6. ASSUME NEW i \in 1..Len(todo')
      PROVE  /\ todo'[i].ids \subseteq Ids
             /\ \A e \in todo'[i].ids :
                  \/ ChoseNext(e, todo'[i].value) \/ e \in raced'
                  \/ labels'[e] = todo'[i].value
  <2>1. todo'[i] = todo[i + 1] /\ i + 1 \in 1..Len(todo) /\ 1 < i + 1 /\ 1 \in 1..Len(todo)
    BY <1>3, <1>4
  <2>2. todo[i + 1].ids \subseteq Ids
    BY <1>2, <2>1 DEF EditInv, ApplyInv
  <2>3. ASSUME NEW e \in todo[i + 1].ids
        PROVE  \/ ChoseNext(e, todo[i + 1].value) \/ e \in raced
               \/ labels'[e] = todo[i + 1].value
    <3>1. Justified(todo[i + 1], e)
      BY <1>2, <2>1, <2>3 DEF EditInv, ApplyInv
    <3>2. CASE e \in todo[1].ids
      <4>1. Chose(e, todo[i + 1].value)
        BY <1>2, <2>1, <2>3, <3>2 DEF EditInv, ApplyInv
      <4> QED BY <1>5, <4>1
    <3>3. CASE e \notin todo[1].ids
      <4>1. labels'[e] = labels[e]
        BY <1>2, <1>3, <2>2, <2>3, <3>3
      <4> QED BY <1>5, <3>1, <4>1 DEF Justified
    <3> QED BY <3>2, <3>3
  <2> QED BY <1>2, <2>1, <2>2, <2>3
<1>7. ASSUME NEW i \in 1..Len(todo'), NEW j \in 1..Len(todo'), i < j,
             NEW e \in todo'[i].ids \cap todo'[j].ids
      PROVE  ChoseNext(e, todo'[j].value)
  <2>1. /\ i + 1 \in 1..Len(todo) /\ j + 1 \in 1..Len(todo) /\ i + 1 < j + 1
        /\ e \in todo[i + 1].ids \cap todo[j + 1].ids /\ todo'[j] = todo[j + 1]
    BY <1>3, <1>4, <1>7
  <2>2. Chose(e, todo[j + 1].value)
    BY <1>2, <2>1 DEF EditInv, ApplyInv
  <2> QED BY <1>5, <2>1, <2>2
<1>8. at' = "apply" => todo' # <<>>
  <2>1. CASE Len(todo) > 1
    <3>1. Len(todo') # 0
      BY <1>3, <2>1
    <3> QED BY <3>1
  <2>2. CASE ~(Len(todo) > 1)
    BY <1>2, <2>2
  <2> QED BY <2>1, <2>2
<1>9. ApplyInv'
  BY <1>6, <1>7, <1>8 DEF ApplyInv, Justified, Chose, ChoseNext
<1>10. file' \in {None} \cup (Ids \X {"fraud", "legit"})
  BY <1>2 DEF EditInv
<1> QED BY <1>3, <1>9, <1>10 DEF EditInv

LEMMA OtherLabelsEdit ==
  ASSUME EditInv, NEW e \in Ids, NEW v \in Truth, OtherLabels(e, v)
  PROVE  EditInv'
<1>1. /\ UNCHANGED <<at, todo, file, cells, rows>> /\ raced' = raced \cup {e}
      /\ labels' = [labels EXCEPT ![e] = v]
  BY DEF OtherLabels, editorVars
<1>2. \A d : d # e => labels'[d] = labels[d]
  BY <1>1
<1>3. \A d, w : Chose(d, w)' <=> Chose(d, w)
  BY <1>1 DEF Chose
<1>4. \A s, d : Justified(s, d) => Justified(s, d)'
  BY <1>1, <1>2, <1>3 DEF Justified
<1>5. ApplyInv'
  BY <1>1, <1>3, <1>4 DEF EditInv, ApplyInv
<1> QED BY <1>1, <1>5 DEF EditInv

\* what leaves no statement to execute, or all as it is
LEMMA EditStays ==
  ASSUME EditInv, file' \in {None} \cup (Ids \X {"fraud", "legit"}), todo' = todo,
         at' # "apply" \/ UNCHANGED <<at, labels, raced, file, cells, rows>>
  PROVE  EditInv'
<1>1. ApplyInv'
  BY DEF EditInv, ApplyInv, Justified, Chose
<1> QED BY <1>1 DEF EditInv

LEMMA OtherEdit ==
  ASSUME EditInv,
         \/ ScorerStops \/ ScorerUnconfirmed \/ ScorerStep
         \/ \E v \in Compatible : OtherPromotes(v)
         \/ \E e \in CsvIds : OtherScores(e)
         \/ Sidebar \/ SidebarInfo \/ Submit
         \/ Registry \/ RegistryFails \/ CheckPromotion
         \/ LoadFrame \/ LoadFails \/ StatementFails
         \/ User
         \/ UNCHANGED consoleVars
  PROVE  EditInv'
<1> USE DEF Goto, labelVars, editorVars
<1>1. file \in {None} \cup (Ids \X {"fraud", "legit"})
  BY DEF EditInv
<1>2. CASE \/ ScorerStops \/ ScorerUnconfirmed \/ ScorerStep
           \/ \E v \in Compatible : OtherPromotes(v)
           \/ \E e \in CsvIds : OtherScores(e)
  <2>1. UNCHANGED <<at, todo, labels, raced, file, cells, rows>>
    BY <1>2, ScorerLeavesPage DEF OtherPromotes, OtherScores, SessionRests
  <2> QED BY <1>1, <2>1, EditStays
<1>3. CASE Sidebar \/ SidebarInfo \/ Submit
  <2>1. todo' = todo /\ file' = file /\ at' # "apply"
    BY <1>3 DEF Sidebar, SidebarInfo, Submit, NextTab
  <2> QED BY <1>1, <2>1, EditStays
<1>4. CASE Registry \/ RegistryFails \/ CheckPromotion
  <2>1. todo' = todo /\ file' = file /\ at' # "apply"
    BY <1>4 DEF Registry, RegistryFails, CheckPromotion
  <2> QED BY <1>1, <2>1, EditStays
<1>5. CASE LoadFrame \/ LoadFails \/ StatementFails
  <2>1. todo' = todo /\ file' = file /\ at' # "apply"
    BY <1>5 DEF LoadFrame, LoadFails, StatementFails
  <2> QED BY <1>1, <2>1, EditStays
<1>6. CASE User
  <2>1. todo' = todo /\ at' = "sidebar"
    BY <1>6 DEF User, Look, Click, EditCell, Upload, Rerun
  <2>2. file' \in {None} \cup (Ids \X {"fraud", "legit"})
    BY <1>1, <1>6 DEF User, Look, Click, EditCell, Upload
  <2> QED BY <2>1, <2>2, EditStays
<1>7. CASE UNCHANGED consoleVars
  <2>1. UNCHANGED <<at, todo, labels, raced, file, cells, rows>>
    BY <1>7 DEF consoleVars
  <2> QED BY <1>1, <2>1, EditStays
<1> QED BY <1>2, <1>3, <1>4, <1>5, <1>6, <1>7

LEMMA EditStep ==
  ASSUME LogInv, EditInv, [ConsoleNext]_consoleVars
  PROVE  EditInv'
BY ReadAndEditJustifies, StatementEdit, OtherLabelsEdit, OtherEdit
   DEF ConsoleNext, ScriptStep, Others
------------------------------------------------------------------------------
LEMMA ConsoleInitially ==
  ASSUME ConsoleInit
  PROVE  ConsoleInv
<1> USE ConsoleAssumption
<1>1. log \in Seq(Ids) /\ Len(log) \in {0, 1} /\ \A i \in 1..Len(log) : log[i] \in CsvIds
  <2>1. CASE log = <<>>
    BY <2>1
  <2>2. CASE \E e \in CsvIds : log = <<e>>
    BY <2>2 DEF Ids
  <2> QED BY <2>1, <2>2 DEF ConsoleInit
<1>2. FormIdsUnique /\ \A i \in 1..Len(log) : log[i] \notin FormIds
  BY <1>1, IdsAssumption DEF FormIdsUnique
<1>3. /\ form = 1 /\ clicks = 0 /\ at = "idle" /\ rows = <<>> /\ todo = <<>>
      /\ file = None
  BY DEF ConsoleInit
<1>4. LogInv
  BY <1>1, <1>2, <1>3 DEF LogInv, FormPending
<1>5. <<>> \in Seq({})
  OBVIOUS
<1> QED BY <1>3, <1>4, <1>5 DEF ConsoleInv, EditInv, ApplyInv

(***************************************************************************)
(* The log, the form and the statements of a run stay as ConsoleInv says,  *)
(* whatever other sessions and the scorer do in between.                   *)
(***************************************************************************)
THEOREM ConsoleInvariant == ConsoleSpec => []ConsoleInv
<1>1. ConsoleInit => ConsoleInv
  BY ConsoleInitially
<1>2. ConsoleInv /\ [ConsoleNext]_consoleVars => ConsoleInv'
  BY LogStep, EditStep DEF ConsoleInv
<1> QED BY <1>1, <1>2, PTL DEF ConsoleSpec

(***************************************************************************)
(* No id of the form is in the event log twice, however often the page is  *)
(* submitted again after an error (ui/inference.py).                       *)
(***************************************************************************)
THEOREM FormIdsOnce == ConsoleSpec => []FormIdsUnique
<1>1. ConsoleInv => FormIdsUnique
  BY DEF ConsoleInv, LogInv
<1> QED BY <1>1, ConsoleInvariant, PTL

\* only a statement takes one from those still to run and changes a label
LEMMA OnlyStatementsShrink ==
  ASSUME EditInv, [ConsoleNext]_consoleVars, todo # <<>>, todo' = Tail(todo)
  PROVE  Statement \/ labels' = labels
<1> USE DEF labelVars
<1>1. CASE Others
  <2>1. PICK S : todo \in Seq(S)
    BY DEF EditInv
  <2>2. Tail(todo) # todo
    BY <2>1
  <2>3. todo' = todo
    BY <1>1, ScorerLeavesPage DEF Others, OtherPromotes, OtherScores, SessionRests, OtherLabels
  <2> QED BY <2>2, <2>3
<1>2. CASE User
  BY <1>2 DEF User, Look, Click, EditCell, Upload, Rerun
<1>3. CASE ScorerStep \/ RegistryFails \/ LoadFails \/ StatementFails
  BY <1>3, ScorerLeavesPage DEF RegistryFails, LoadFails, StatementFails
<1>4. CASE ScriptStep
  BY <1>4 DEF ScriptStep, Sidebar, SidebarInfo, Submit, Registry, CheckPromotion,
              LoadFrame, ReadAndEdit
<1>5. CASE UNCHANGED consoleVars
  BY <1>5 DEF consoleVars
<1> QED BY <1>1, <1>2, <1>3, <1>4, <1>5 DEF ConsoleNext

(***************************************************************************)
(* Save and import change a label only to what the user chose, or where    *)
(* another session wrote since the script read it (ui/labels.py).          *)
(***************************************************************************)
THEOREM LabelsAreChosen == ConsoleSpec => OnlyChosenOrRaced
<1>1. ASSUME ConsoleInv, [ConsoleNext]_consoleVars, todo # <<>>, todo' = Tail(todo),
             NEW e \in Head(todo).ids, labels'[e] # labels[e]
      PROVE  Chose(e, labels'[e]) \/ e \in raced
  <2>1. Statement
    BY <1>1, OnlyStatementsShrink DEF ConsoleInv
  <2>2. labels'[e] = Head(todo).value /\ Justified(Head(todo), e)
    BY <1>1, <2>1, StatementWrites DEF ConsoleInv
  <2> QED BY <1>1, <2>2 DEF Justified
<1>2. ConsoleInv /\ [ConsoleNext]_consoleVars =>
        [todo # <<>> /\ todo' = Tail(todo) =>
           \A e \in Head(todo).ids :
             labels'[e] # labels[e] => Chose(e, labels'[e]) \/ e \in raced]_<<todo, labels>>
  BY <1>1
<1> QED BY <1>2, ConsoleInvariant, PTL DEF ConsoleSpec, OnlyChosenOrRaced
==============================================================================
