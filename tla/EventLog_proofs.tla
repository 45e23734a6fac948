--------------------------- MODULE EventLog_proofs ---------------------------
(***************************************************************************)
(* Proofs about EventLog, for any number of workers, threads, events and   *)
(* hours: the inductive invariant EventLogInv, and from it LineInItsHour   *)
(* and ConsumedIsStored.  Liveness stays with TLC.                         *)
(***************************************************************************)
EXTENDS EventLog, TLAPS

Task == [event : Events, hour : Hours]

\* what a step of a sink does to the files: they grow, and a line that
\* changes is the last one, still without its newline
Grown == \A f \in Files :
  /\ Len(file[f]) <= Len(file'[f])
  /\ \A i \in 1..Len(file[f]) :
       \/ file'[f][i] = file[f][i]
       \/ i = Len(file[f]) /\ ~file[f][i].whole

(***************************************************************************)
(* Offsets survive the sink: a growing file changes nothing before one,    *)
(* because the line under the writer's hands comes after every newline an  *)
(* offset was taken at.                                                    *)
(***************************************************************************)
LEMMA OffsetsKept ==
  ASSUME EventLogTypeOK, OffsetInv, ConsumedIsStored, Grown,
         UNCHANGED ingestVars
  PROVE  OffsetInv' /\ ConsumedIsStored'
<1>1. ASSUME NEW f \in Files, NEW n \in Nat, PastNewline(f, n)
      PROVE  /\ PastNewline(f, n)'
             /\ \A i \in 1..n : file'[f][i] = file[f][i]
             /\ \A i \in 1..n : Intact(f, i)' => Intact(f, i)
  <2>1. /\ Len(file[f]) \in Nat /\ Len(file'[f]) \in Nat
        /\ Len(file[f]) <= Len(file'[f])
    <3>1. file[f] \in Seq(Line)
      BY DEF EventLogTypeOK
    <3>2. QED
      BY <3>1 DEF Grown
  <2>2. n <= Len(file[f])
    BY <1>1, <2>1 DEF PastNewline
  <2>3. \A i \in 1..n : file'[f][i] = file[f][i]
    BY <1>1, <2>1, <2>2 DEF Grown, PastNewline
  <2>4. QED
    BY <1>1, <2>1, <2>2, <2>3 DEF PastNewline, Intact
<1>2. consumed' = consumed /\ reading' = reading /\ upto' = upto
      /\ todo' = todo /\ bronze' = bronze
  BY DEF ingestVars, tableVars
<1>3. \A f \in Files : consumed[f] \in Nat
  BY DEF EventLogTypeOK
<1>4. upto \in Nat /\ (reading # None => reading \in Files)
  BY DEF EventLogTypeOK
<1>5. ConsumedIsStored'
  BY <1>1, <1>2, <1>3 DEF ConsumedIsStored, OffsetInv
<1>6. OffsetInv'
  BY <1>1, <1>2, <1>3, <1>4 DEF OffsetInv
<1>7. QED
  BY <1>5, <1>6

\* a step that leaves the files alone keeps all that is said of them
LEMMA FilesKept ==
  ASSUME EventLogInv, UNCHANGED <<file, ingestVars>>
  PROVE  LineInItsHour' /\ OffsetInv' /\ ConsumedIsStored'
<1>1. Grown
  <2>1. \A f \in Files : file[f] \in Seq(Line)
    BY DEF EventLogInv, EventLogTypeOK
  <2>2. QED
    BY <2>1 DEF Grown
<1>2. LineInItsHour'
  BY DEF EventLogInv, LineInItsHour
<1>3. QED
  BY <1>1, <1>2, OffsetsKept DEF EventLogInv

LEMMA EventLogInitially == EventLogInit => EventLogInv
<1> SUFFICES ASSUME EventLogInit PROVE EventLogInv
  OBVIOUS
<1> USE EventLogAssumption DEF EventLogInit
<1>1. 0 \in Hours
  BY DEF Hours
<1>2. EventLogTypeOK
  <2>1. created \in BOOLEAN /\ raised \in BOOLEAN
    OBVIOUS
  <2>2. \A w \in Workers : fd[w] = "none" <=> current[w] = None
    OBVIOUS
  <2>3. QED
    BY <1>1, <2>1, <2>2 DEF EventLogTypeOK
<1>3. LineInItsHour
  BY DEF LineInItsHour
<1>4. WritingInv
  BY DEF WritingInv
<1>5. OffsetInv
  BY DEF OffsetInv, PastNewline
<1>6. ConsumedIsStored
  BY DEF ConsumedIsStored
<1>7. QED
  BY <1>2, <1>3, <1>4, <1>5, <1>6 DEF EventLogInv

(***************************************************************************)
(* The sink's steps.                                                       *)
(***************************************************************************)
LEMMA TickKeeps == EventLogInv /\ Tick => EventLogInv'
<1> SUFFICES ASSUME EventLogInv, Tick PROVE EventLogInv'
  OBVIOUS
<1>1. EventLogTypeOK'
  <2>1. hour' \in Hours
    BY EventLogAssumption DEF Tick, EventLogInv, EventLogTypeOK, Hours
  <2>2. QED
    BY <2>1 DEF Tick, EventLogInv, EventLogTypeOK, ingestVars, tableVars
<1>2. WritingInv'
  BY DEF Tick, EventLogInv, WritingInv
<1>3. QED
  BY <1>1, <1>2, FilesKept DEF Tick, EventLogInv, ingestVars, tableVars

LEMMA EnterKeeps ==
  ASSUME NEW w \in Workers, NEW t \in Threads, NEW e \in Events,
         EventLogInv, Enter(w, t, e)
  PROVE  EventLogInv'
<1>1. EventLogTypeOK'
  <2>1. [event |-> e, hour |-> hour] \in Task
    BY DEF EventLogInv, EventLogTypeOK, Task
  <2>2. task' \in [Workers -> [Threads -> Task \cup {None}]]
    BY <2>1 DEF Enter, EventLogInv, EventLogTypeOK, Task
  <2>3. QED
    BY <2>2 DEF Enter, EventLogInv, EventLogTypeOK, ingestVars, tableVars, Task
<1>2. WritingInv'
  <2> SUFFICES ASSUME NEW v \in Workers, lock[v] # None
               PROVE  /\ task'[v][lock[v]] = task[v][lock[v]]
                      /\ task[v][lock[v]] # None
    BY DEF Enter, EventLogInv, WritingInv
  <2>1. task[v][lock[v]] # None
    BY DEF EventLogInv, WritingInv
  <2>2. ~(v = w /\ lock[v] = t)
    BY <2>1 DEF Enter
  <2>3. lock[v] \in Threads
    BY DEF EventLogInv, EventLogTypeOK
  <2>4. QED
    BY <2>1, <2>2, <2>3 DEF Enter, EventLogInv, EventLogTypeOK
<1>3. QED
  BY <1>1, <1>2, FilesKept DEF Enter, EventLogInv

LEMMA BeginWriteKeeps ==
  ASSUME NEW w \in Workers, NEW t \in Threads, EventLogInv, BeginWrite(w, t)
  PROVE  EventLogInv'
<1> DEFINE h == task[w][t].hour
           f0 == <<w, h>>
<1>1. task[w][t] \in Task
  BY DEF BeginWrite, EventLogInv, EventLogTypeOK, Task
<1>2. h \in Hours /\ NewLine(w, t) \in Line /\ NewLine(w, t).hour = h
      /\ ~NewLine(w, t).whole
  BY <1>1 DEF Task, NewLine, Line
<1>3. f0 \in Files
  BY <1>2 DEF Files
<1>4. \A f \in Files : file[f] \in Seq(Line)
  BY DEF EventLogInv, EventLogTypeOK
<1>5. file' = [file EXCEPT ![f0] = Append(@, NewLine(w, t))]
  BY DEF BeginWrite
<1>6. /\ file'[f0] = Append(file[f0], NewLine(w, t))
      /\ \A f \in Files : f # f0 => file'[f] = file[f]
      /\ file' \in [Files -> Seq(Line)]
  <2>1. Append(file[f0], NewLine(w, t)) \in Seq(Line)
    BY <1>2, <1>3, <1>4
  <2>2. file \in [Files -> Seq(Line)]
    BY DEF EventLogInv, EventLogTypeOK
  <2> HIDE DEF f0
  <2>3. QED
    BY <1>3, <1>5, <2>1, <2>2
<1>7. /\ Len(file'[f0]) = Len(file[f0]) + 1
      /\ Len(file[f0]) \in Nat
      /\ file'[f0][Len(file[f0]) + 1] = NewLine(w, t)
      /\ \A i \in 1..Len(file[f0]) : file'[f0][i] = file[f0][i]
  BY <1>2, <1>3, <1>4, <1>6
<1> HIDE DEF f0
<1>8. EventLogTypeOK'
  <2>1. None \notin Hours
    BY EventLogAssumption DEF Hours
  <2>2. /\ current' = [current EXCEPT ![w] = h]
        /\ fd' = [fd EXCEPT ![w] = "open"]
        /\ marked' \in SUBSET Hours
    BY <1>2 DEF BeginWrite, EventLogInv, EventLogTypeOK
  <2> HIDE DEF h
  <2>3. /\ current' \in [Workers -> Hours \cup {None}]
        /\ fd' \in [Workers -> {"none", "open", "closed"}]
        /\ \A v \in Workers : fd'[v] = "none" <=> current'[v] = None
    BY <1>2, <2>1, <2>2 DEF EventLogInv, EventLogTypeOK
  <2>4. lock' \in [Workers -> Threads \cup {None}]
    BY DEF BeginWrite, EventLogInv, EventLogTypeOK
  <2>5. QED
    BY <1>6, <2>2, <2>3, <2>4 DEF BeginWrite, EventLogInv, EventLogTypeOK, ingestVars, tableVars
<1>9. LineInItsHour'
  <2>1. f0[2] = h
    BY DEF f0
  <2>2. \A i \in 1..Len(file'[f0]) : file'[f0][i].hour = f0[2]
    <3> TAKE i \in 1..Len(file'[f0])
    <3>1. CASE i \in 1..Len(file[f0])
      <4>1. file[f0][i].hour = f0[2]
        BY <1>3, <3>1 DEF EventLogInv, LineInItsHour
      <4>2. QED
        BY <1>7, <3>1, <4>1
    <3>2. CASE i = Len(file[f0]) + 1
      BY <1>2, <1>7, <2>1, <3>2
    <3>3. QED
      BY <1>7, <3>1, <3>2
  <2>3. QED
    BY <1>6, <2>2 DEF EventLogInv, LineInItsHour
<1>10. WritingInv'
  <2> SUFFICES ASSUME NEW v \in Workers, lock'[v] # None
               PROVE  /\ fd'[v] = "open"
                      /\ task'[v][lock'[v]] # None
                      /\ task'[v][lock'[v]].hour = current'[v]
                      /\ Len(file'[<<v, current'[v]>>]) > 0
                      /\ ~file'[<<v, current'[v]>>][Len(file'[<<v, current'[v]>>])].whole
    BY DEF WritingInv
  <2>1. CASE v = w
    <3>1. /\ fd'[w] = "open" /\ lock'[w] = t /\ current'[w] = h
          /\ task' = task /\ task[w][t] # None
      BY DEF BeginWrite, EventLogInv, EventLogTypeOK
    <3>2. <<v, current'[v]>> = f0
      BY <2>1, <3>1 DEF f0
    <3>3. QED
      BY <1>2, <1>7, <2>1, <3>1, <3>2
  <2>2. CASE v # w
    <3>1. /\ fd'[v] = fd[v] /\ lock'[v] = lock[v] /\ current'[v] = current[v]
          /\ task' = task
      BY <2>2 DEF BeginWrite, EventLogInv, EventLogTypeOK
    <3>2. <<v, current[v]>> # f0
      BY <2>2 DEF f0
    <3>3. <<v, current[v]>> \in Files
      BY <3>1, EventLogAssumption
      DEF EventLogInv, EventLogTypeOK, WritingInv, Files, Hours
    <3>4. QED
      BY <1>6, <3>1, <3>2, <3>3 DEF EventLogInv, WritingInv
  <2>3. QED
    BY <2>1, <2>2
<1>11. Grown
  <2>1. \A f \in Files : Len(file[f]) \in Nat
    BY <1>4
  <2>2. QED
    BY <1>6, <1>7, <2>1 DEF Grown
<1>12. QED
  BY <1>8, <1>9, <1>10, <1>11, OffsetsKept DEF BeginWrite, EventLogInv

(* Replacing the last element of a sequence gives a sequence of the same
   length that agrees with it everywhere else. *)
LEMMA LastReplaced ==
  ASSUME NEW S, NEW s \in Seq(S), NEW e \in S, NEW n \in Nat, n = Len(s),
         n \in 1..n,
         NEW t, t = [i \in 1..n |-> IF i = n THEN e ELSE s[i]]
  PROVE  /\ t \in Seq(S)
         /\ Len(t) = n
         /\ \A i \in 1..n : i # n => t[i] = s[i]
         /\ t[n] = e
<1>1. \A i \in 1..n : s[i] \in S
  OBVIOUS
<1>2. t \in [1..n -> S]
  BY <1>1
<1>3. t \in Seq(S)
  BY <1>2
<1>4. Len(t) = n
  BY <1>2, <1>3
<1>5. QED
  BY <1>3, <1>4

LEMMA EndWriteKeeps ==
  ASSUME NEW w \in Workers, EventLogInv, EndWrite(w)
  PROVE  EventLogInv'
<1> DEFINE f0 == <<w, current[w]>>
           n == Len(file[f0])
<1>1. /\ lock[w] \in Threads /\ current[w] \in Hours
      /\ n > 0 /\ ~file[f0][n].whole
  BY EventLogAssumption
  DEF EndWrite, EventLogInv, EventLogTypeOK, WritingInv, Hours
<1>2. f0 \in Files
  BY <1>1 DEF Files
<1>3. \A f \in Files : file[f] \in Seq(Line)
  BY DEF EventLogInv, EventLogTypeOK
<1>4. n \in Nat /\ n \in 1..n /\ file[f0] \in Seq(Line)
  BY <1>1, <1>2, <1>3
<1>5. file' = [file EXCEPT ![f0] = Completed(@)]
  BY DEF EndWrite
<1> DEFINE l == [file[f0][n] EXCEPT !.whole = TRUE]
<1>6. file[f0][n] \in Line /\ l \in Line /\ l.hour = file[f0][n].hour
  <2>1. file[f0][n] \in Line
    BY <1>4
  <2>2. QED
    BY <2>1 DEF Line
<1>7. /\ Completed(file[f0]) \in Seq(Line)
      /\ Len(Completed(file[f0])) = n
      /\ \A i \in 1..n : i # n => Completed(file[f0])[i] = file[f0][i]
      /\ Completed(file[f0])[n] = l
  <2>1. \A i \in 1..n : file[f0][i] \in Line
    BY <1>4
  <2>2. Completed(file[f0]) = [i \in 1..n |-> IF i = n THEN l ELSE file[f0][i]]
    BY <1>4 DEF Completed
  <2> DEFINE s == file[f0]
             c == Completed(file[f0])
  <2>3. /\ s \in Seq(Line) /\ l \in Line /\ n \in Nat /\ n = Len(s) /\ n \in 1..n
        /\ c = [i \in 1..n |-> IF i = n THEN l ELSE s[i]]
    BY <1>4, <1>6, <2>2
  <2> HIDE DEF l, n, s, c
  <2>4. /\ c \in Seq(Line)
        /\ Len(c) = n
        /\ \A i \in 1..n : i # n => c[i] = s[i]
        /\ c[n] = l
    BY ONLY <2>3, LastReplaced
  <2>5. QED
    BY <2>4 DEF s, c
<1> HIDE DEF l
<1>8. /\ file'[f0] = Completed(file[f0])
      /\ \A f \in Files : f # f0 => file'[f] = file[f]
      /\ file' \in [Files -> Seq(Line)]
  <2>1. file' = [file EXCEPT ![f0] = Completed(file[f0])]
    BY <1>5
  <2>2. file \in [Files -> Seq(Line)]
    BY DEF EventLogInv, EventLogTypeOK
  <2> HIDE DEF f0, n
  <2>3. QED
    BY <1>2, <1>7, <2>1, <2>2
<1> HIDE DEF f0, n
<1>9. EventLogTypeOK'
  <2>1. task' \in [Workers -> [Threads -> Task \cup {None}]]
    BY DEF EndWrite, Leave, EventLogInv, EventLogTypeOK, Task
  <2>2. lock' \in [Workers -> Threads \cup {None}]
    BY DEF EndWrite, EventLogInv, EventLogTypeOK
  <2>3. QED
    BY <1>8, <2>1, <2>2
    DEF EndWrite, EventLogInv, EventLogTypeOK, ingestVars, tableVars, Task
<1>10. LineInItsHour'
  <2>1. \A i \in 1..Len(file'[f0]) : file'[f0][i].hour = f0[2]
    <3> TAKE i \in 1..Len(file'[f0])
    <3>1. i \in 1..n /\ file[f0][i].hour = f0[2]
      BY <1>2, <1>7, <1>8 DEF EventLogInv, LineInItsHour, n
    <3>2. QED
      BY <1>6, <1>7, <1>8, <3>1
  <2>2. QED
    BY <1>8, <2>1 DEF EventLogInv, LineInItsHour
<1>11. WritingInv'
  <2> SUFFICES ASSUME NEW v \in Workers, lock'[v] # None
               PROVE  /\ fd'[v] = "open"
                      /\ task'[v][lock'[v]] # None
                      /\ task'[v][lock'[v]].hour = current'[v]
                      /\ Len(file'[<<v, current'[v]>>]) > 0
                      /\ ~file'[<<v, current'[v]>>][Len(file'[<<v, current'[v]>>])].whole
    BY DEF WritingInv
  <2>1. v # w
    BY DEF EndWrite, EventLogInv, EventLogTypeOK
  <2>2. /\ fd'[v] = fd[v] /\ lock'[v] = lock[v] /\ current'[v] = current[v]
        /\ task'[v] = task[v]
    BY <2>1 DEF EndWrite, Leave, EventLogInv, EventLogTypeOK
  <2>3. <<v, current[v]>> # f0
    BY <2>1 DEF f0
  <2>4. <<v, current[v]>> \in Files
    BY <2>2, EventLogAssumption
    DEF EventLogInv, EventLogTypeOK, WritingInv, Files, Hours
  <2>5. QED
    BY <1>8, <2>2, <2>3, <2>4 DEF EventLogInv, WritingInv
<1>12. Grown
  <2>1. \A f \in Files : Len(file[f]) \in Nat
    BY <1>3
  <2>2. n = Len(file[f0])
    BY DEF n
  <2>3. ~file[f0][n].whole
    BY <1>1 DEF f0, n
  <2>4. QED
    BY <1>7, <1>8, <2>1, <2>2, <2>3 DEF Grown
<1>13. QED
  BY <1>9, <1>10, <1>11, <1>12, OffsetsKept DEF EndWrite, EventLogInv

\* steps after which fewer threads hold a lock and no file has changed
LEMMA ReleaseKeeps ==
  ASSUME EventLogInv, EventLogTypeOK',
         UNCHANGED <<file, ingestVars>>,
         \A v \in Workers : lock'[v] # None =>
           /\ lock'[v] = lock[v] /\ fd'[v] = fd[v] /\ current'[v] = current[v]
           /\ task'[v][lock[v]] = task[v][lock[v]]
  PROVE  EventLogInv'
<1>1. WritingInv'
  BY DEF EventLogInv, WritingInv
<1>2. QED
  BY <1>1, FilesKept DEF EventLogInv

LEMMA ShortWriteKeeps ==
  ASSUME NEW w \in Workers, EventLogInv, ShortWrite(w)
  PROVE  EventLogInv'
<1>1. EventLogTypeOK'
  <2>1. task' \in [Workers -> [Threads -> Task \cup {None}]]
    BY DEF ShortWrite, Leave, EventLogInv, EventLogTypeOK, Task
  <2>2. lock' \in [Workers -> Threads \cup {None}] /\ faults' \in Nat
    BY DEF ShortWrite, Fault, EventLogInv, EventLogTypeOK
  <2>3. QED
    BY <2>1, <2>2 DEF ShortWrite, EventLogInv, EventLogTypeOK, ingestVars, tableVars, Task
<1>2. \A v \in Workers : lock'[v] # None =>
        /\ lock'[v] = lock[v] /\ fd'[v] = fd[v] /\ current'[v] = current[v]
        /\ task'[v][lock[v]] = task[v][lock[v]]
  BY DEF ShortWrite, Leave, EventLogInv, EventLogTypeOK
<1>3. QED
  BY <1>1, <1>2, ReleaseKeeps DEF ShortWrite

LEMMA RotateFailsKeeps ==
  ASSUME NEW w \in Workers, NEW t \in Threads, EventLogInv, RotateFails(w, t)
  PROVE  EventLogInv'
<1>1. EventLogTypeOK'
  <2>1. task' \in [Workers -> [Threads -> Task \cup {None}]]
    BY DEF RotateFails, Leave, EventLogInv, EventLogTypeOK, Task
  <2>2. current[w] \in Hours
    BY DEF RotateFails, EventLogInv, EventLogTypeOK
  <2>3. /\ marked' \in SUBSET Hours /\ faults' \in Nat
        /\ fd' \in [Workers -> {"none", "open", "closed"}]
        /\ \A v \in Workers : fd'[v] = "none" <=> current'[v] = None
    BY <2>2 DEF RotateFails, Fault, EventLogInv, EventLogTypeOK
  <2>4. QED
    BY <2>1, <2>3 DEF RotateFails, EventLogInv, EventLogTypeOK, ingestVars, tableVars, Task
<1>2. \A v \in Workers : lock'[v] # None =>
        /\ lock'[v] = lock[v] /\ fd'[v] = fd[v] /\ current'[v] = current[v]
        /\ task'[v][lock[v]] = task[v][lock[v]]
  BY DEF RotateFails, Leave, EventLogInv, EventLogTypeOK
<1>3. QED
  BY <1>1, <1>2, ReleaseKeeps DEF RotateFails

LEMMA AppendRaisesKeeps ==
  ASSUME NEW w \in Workers, NEW t \in Threads, EventLogInv, AppendRaises(w, t)
  PROVE  EventLogInv'
<1>1. EventLogTypeOK'
  <2>1. task' \in [Workers -> [Threads -> Task \cup {None}]]
    BY DEF AppendRaises, Leave, EventLogInv, EventLogTypeOK, Task
  <2>2. faults' \in Nat
    BY DEF AppendRaises, Fault, EventLogInv, EventLogTypeOK
  <2>3. QED
    BY <2>1, <2>2 DEF AppendRaises, EventLogInv, EventLogTypeOK, ingestVars, tableVars, Task
<1>2. \A v \in Workers : lock'[v] # None =>
        /\ lock'[v] = lock[v] /\ fd'[v] = fd[v] /\ current'[v] = current[v]
        /\ task'[v][lock[v]] = task[v][lock[v]]
  BY DEF AppendRaises, Leave, EventLogInv, EventLogTypeOK
<1>3. QED
  BY <1>1, <1>2, ReleaseKeeps DEF AppendRaises

LEMMA StopKeeps ==
  ASSUME NEW w \in Workers, EventLogInv, Stop(w)
  PROVE  EventLogInv'
<1>1. EventLogTypeOK'
  <2>1. task' \in [Workers -> [Threads -> Task \cup {None}]]
    BY DEF Stop, EventLogInv, EventLogTypeOK, Task
  <2>2. /\ lock' \in [Workers -> Threads \cup {None}] /\ faults' \in Nat
        /\ fd' \in [Workers -> {"none", "open", "closed"}]
        /\ current' \in [Workers -> Hours \cup {None}]
        /\ \A v \in Workers : fd'[v] = "none" <=> current'[v] = None
    BY DEF Stop, Fault, EventLogInv, EventLogTypeOK
  <2>3. QED
    BY <2>1, <2>2 DEF Stop, EventLogInv, EventLogTypeOK, ingestVars, tableVars, Task
<1>2. \A v \in Workers : lock'[v] # None =>
        /\ lock'[v] = lock[v] /\ fd'[v] = fd[v] /\ current'[v] = current[v]
        /\ task'[v][lock[v]] = task[v][lock[v]]
  BY DEF Stop, EventLogInv, EventLogTypeOK
<1>3. QED
  BY <1>1, <1>2, ReleaseKeeps DEF Stop

(***************************************************************************)
(* The ingest's steps.                                                     *)
(***************************************************************************)
LEMMA IngestReadKeeps ==
  ASSUME NEW f \in Files, EventLogInv, IngestRead(f)
  PROVE  EventLogInv'
<1>1. PICK n \in (consumed[f] + 1)..Len(file[f]) :
        /\ LastNewline(f, n)
        /\ upto' = n
        /\ todo' = {file[f][i].event : i \in {j \in (consumed[f] + 1)..n :
                                               Intact(f, j)}}
  BY DEF IngestRead, Take, tableVars
<1>2. /\ consumed[f] \in Nat /\ Len(file[f]) \in Nat /\ file[f] \in Seq(Line)
  BY DEF EventLogInv, EventLogTypeOK
<1>3. n \in Nat /\ n \in 1..Len(file[f]) /\ file[f][n].whole
  BY <1>1, <1>2 DEF LastNewline
<1>4. todo' \in SUBSET Events
  <2>1. \A i \in 1..Len(file[f]) : file[f][i].event \in Events
    <3>1. \A i \in 1..Len(file[f]) : file[f][i] \in Line
      BY <1>2
    <3>2. QED
      BY <3>1 DEF Line
  <2>2. QED
    BY <1>1, <1>2, <2>1 DEF Intact
<1>5. /\ reading' = f /\ consumed' = consumed /\ bronze' = bronze
      /\ UNCHANGED <<sinkVars, created, raised>>
  BY DEF IngestRead, Take, tableVars
<1>6. EventLogTypeOK'
  BY <1>1, <1>3, <1>4, <1>5 DEF EventLogInv, EventLogTypeOK, sinkVars
<1>7. LineInItsHour' /\ WritingInv' /\ ConsumedIsStored'
  BY <1>5 DEF EventLogInv, LineInItsHour, WritingInv, ConsumedIsStored, Intact,
              sinkVars
<1>8. \A i \in 1..n : Intact(f, i) => file[f][i].event \in bronze \cup todo'
  <2> TAKE i \in 1..n
  <2>1. CASE i \in 1..consumed[f]
    BY <2>1 DEF EventLogInv, ConsumedIsStored
  <2>2. CASE i \in (consumed[f] + 1)..n
    BY <1>1, <2>2
  <2>3. QED
    BY <1>2, <1>3, <2>1, <2>2
<1>9. OffsetInv'
  <2>1. file' = file
    BY <1>5 DEF sinkVars
  <2>2. \A g \in Files : PastNewline(g, consumed[g])'
    BY <1>5, <2>1 DEF EventLogInv, OffsetInv, PastNewline
  <2>3. PastNewline(reading, upto)'
    BY <1>1, <1>3, <1>5, <2>1 DEF PastNewline
  <2>4. \A i \in 1..upto' : Intact(reading, i)' =>
          file'[reading'][i].event \in bronze' \cup todo'
    BY <1>1, <1>5, <1>8, <2>1 DEF Intact
  <2>5. QED
    BY <2>2, <2>3, <2>4 DEF OffsetInv
<1>10. QED
  BY <1>6, <1>7, <1>9 DEF EventLogInv

LEMMA IngestInsertKeeps == EventLogInv /\ IngestInsert => EventLogInv'
<1> SUFFICES ASSUME EventLogInv, IngestInsert PROVE EventLogInv'
  OBVIOUS
<1>1. PICK e \in todo : bronze' = bronze \cup {e} /\ todo' = todo \ {e}
  BY DEF IngestInsert
<1>2. /\ bronze \cup todo = bronze' \cup todo' /\ bronze \subseteq bronze'
      /\ UNCHANGED <<sinkVars, consumed, reading, upto, created, raised>>
  BY <1>1 DEF IngestInsert
<1>3. EventLogTypeOK'
  BY <1>1, <1>2 DEF EventLogInv, EventLogTypeOK, sinkVars
<1>4. LineInItsHour' /\ WritingInv'
  BY <1>2 DEF EventLogInv, LineInItsHour, WritingInv, sinkVars
<1>5. ConsumedIsStored'
  BY <1>2 DEF EventLogInv, ConsumedIsStored, Intact, sinkVars
<1>6. OffsetInv'
  BY <1>2 DEF EventLogInv, OffsetInv, PastNewline, Intact, sinkVars
<1>7. QED
  BY <1>3, <1>4, <1>5, <1>6 DEF EventLogInv

LEMMA IngestRecordKeeps == EventLogInv /\ IngestRecord => EventLogInv'
<1> SUFFICES ASSUME EventLogInv, IngestRecord PROVE EventLogInv'
  OBVIOUS
<1>1. /\ reading \in Files /\ upto \in Nat /\ todo = {}
      /\ consumed' = [consumed EXCEPT ![reading] = upto]
      /\ reading' = None /\ UNCHANGED <<sinkVars, bronze, upto, todo, created>> /\ raised' = FALSE
  BY DEF IngestRecord, EventLogInv, EventLogTypeOK
<1>2. /\ consumed' \in [Files -> Nat] /\ consumed'[reading] = upto
      /\ \A f \in Files : f # reading => consumed'[f] = consumed[f]
  BY <1>1 DEF EventLogInv, EventLogTypeOK
<1>3. EventLogTypeOK'
  BY <1>1, <1>2 DEF EventLogInv, EventLogTypeOK, sinkVars
<1>4. LineInItsHour' /\ WritingInv'
  BY <1>1 DEF EventLogInv, LineInItsHour, WritingInv, sinkVars
<1>5. PastNewline(reading, upto) /\ \A i \in 1..upto : Intact(reading, i) =>
        file[reading][i].event \in bronze
  BY <1>1 DEF EventLogInv, OffsetInv, IngestRecord
<1>6. file' = file /\ bronze' = bronze
  BY <1>1 DEF sinkVars
<1>7. ConsumedIsStored'
  BY <1>2, <1>5, <1>6 DEF EventLogInv, ConsumedIsStored, Intact
<1>8. OffsetInv'
  BY <1>1, <1>2, <1>5, <1>6 DEF EventLogInv, OffsetInv, PastNewline
<1>9. QED
  BY <1>3, <1>4, <1>7, <1>8 DEF EventLogInv

LEMMA IngestCrashKeeps == EventLogInv /\ IngestCrash => EventLogInv'
<1> SUFFICES ASSUME EventLogInv, IngestCrash PROVE EventLogInv'
  OBVIOUS
<1>1. EventLogTypeOK'
  BY DEF IngestCrash, tableVars, Fault, EventLogInv, EventLogTypeOK
<1>2. LineInItsHour' /\ WritingInv' /\ ConsumedIsStored'
  BY DEF IngestCrash, tableVars, EventLogInv, LineInItsHour, WritingInv, ConsumedIsStored,
         Intact
<1>3. OffsetInv'
  BY DEF IngestCrash, tableVars, EventLogInv, OffsetInv, PastNewline
<1>4. QED
  BY <1>1, <1>2, <1>3 DEF EventLogInv

\* neither the error nor the tables change what the invariant speaks of
LEMMA TablesKeep == EventLogInv /\ (CreateTables \/ IngestRaises) => EventLogInv'
<1> SUFFICES ASSUME EventLogInv, CreateTables \/ IngestRaises PROVE EventLogInv'
  OBVIOUS
<1>1. /\ UNCHANGED <<sinkVars, tableVars, reading, upto, todo>>
      /\ created' \in BOOLEAN /\ raised' \in BOOLEAN
  BY DEF CreateTables, IngestRaises, EventLogInv, EventLogTypeOK
<1>2. QED
  BY <1>1 DEF sinkVars, tableVars, EventLogInv, EventLogTypeOK, LineInItsHour,
              WritingInv, OffsetInv, PastNewline, ConsumedIsStored, Intact

LEMMA EventLogStep == EventLogInv /\ [EventLogNext]_logVars => EventLogInv'
<1> SUFFICES ASSUME EventLogInv, [EventLogNext]_logVars PROVE EventLogInv'
  OBVIOUS
<1>1. ASSUME SinkStep PROVE EventLogInv'
  BY <1>1, TickKeeps, EnterKeeps, BeginWriteKeeps, RotateFailsKeeps,
     AppendRaisesKeeps, EndWriteKeeps, ShortWriteKeeps, StopKeeps DEF SinkStep
<1>2. ASSUME IngestStep PROVE EventLogInv'
  BY <1>2, IngestReadKeeps, IngestInsertKeeps, IngestRecordKeeps DEF IngestStep
<1>3. ASSUME UNCHANGED logVars PROVE EventLogInv'
  BY <1>3 DEF logVars, EventLogInv, EventLogTypeOK, LineInItsHour, WritingInv,
              OffsetInv, PastNewline, ConsumedIsStored, Intact
<1>4. QED
  BY <1>1, <1>2, <1>3, IngestCrashKeeps, TablesKeep DEF EventLogNext

(***************************************************************************)
(* Every reachable state of the event log and its ingest is well typed,    *)
(* offsets are just past newlines, and lines are where they belong.        *)
(***************************************************************************)
THEOREM EventLogInvariant == EventLogSpec => []EventLogInv
BY EventLogInitially, EventLogStep, PTL DEF EventLogSpec

(***************************************************************************)
(* However threads race around the turn of an hour (append computes the    *)
(* path before it takes the lock), a line is in its own hour's file.       *)
(***************************************************************************)
THEOREM EventsByHour == EventLogSpec => []LineInItsHour
<1>1. EventLogInv => LineInItsHour
  BY DEF EventLogInv
<1>2. QED
  BY <1>1, EventLogInvariant, PTL

(***************************************************************************)
(* The ingest never skips a line: what its offset is past is stored,       *)
(* whatever crashed and whatever was being written while it read.          *)
(***************************************************************************)
THEOREM IngestSkipsNothing == EventLogSpec => []ConsumedIsStored
<1>1. EventLogInv => ConsumedIsStored
  BY DEF EventLogInv
<1>2. QED
  BY <1>1, EventLogInvariant, PTL
==============================================================================
