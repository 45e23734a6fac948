------------------------------ MODULE EventLog -------------------------------
(***************************************************************************)
(* The scored-event log: JsonlEventSink in every scorer worker, whose      *)
(* request threads append one line per event to the worker's file of the   *)
(* hour, and ingest_events_jsonl, which copies complete lines into         *)
(* bronze.scored_events behind an offset per file.  A line being written   *)
(* is visible to the ingest before its newline is.  The hour is read       *)
(* before the sink's lock is taken, so it may be over when the lock comes. *)
(* No DDL of the repository creates bronze.scored_events or the ingest's   *)
(* ops.file_ingest_log: until somebody does so by hand, with the keys the  *)
(* ON CONFLICT clauses name (external), every run of the ingest raises.    *)
(***************************************************************************)
EXTENDS Naturals, Sequences

CONSTANTS
  Workers,      \* worker processes, by host name, pid and worker index
  Threads,      \* request threads of a worker
  Events,       \* event_ids
  None,         \* an unset value
  MaxHour,      \* bound: the clock
  MaxAppends,   \* bound: appends called
  MaxFaults     \* bound: failed writes and rotations, stops, ingest crashes

ASSUME EventLogAssumption ==
  /\ None \notin Workers \cup Threads \cup Events \cup Nat
  /\ None \notin [event : Events, hour : Nat]
  /\ None \notin Workers \X Nat
  /\ MaxHour \in Nat /\ MaxAppends \in Nat /\ MaxFaults \in Nat

Hours == 0..MaxHour
Files == Workers \X Hours   \* part-<host>-<pid>-<worker>.jsonl under dt=/hr=

\* a line of a file; it is whole once its newline is written
Line == [event : Events, hour : Hours, whole : BOOLEAN]

VARIABLES
  hour,       \* the clock's hour
  file,       \* file[f]: the lines of file f
  marked,     \* hours whose directory has a _SUCCESS
  fd,         \* fd[w]: _fd is None, open, or a descriptor already closed
  current,    \* current[w]: the hour of _current_relpath
  task,       \* task[w][t]: the event the thread appends, and its relpath's hour
  lock,       \* lock[w]: the thread inside os.write, under _lock
  appends,    \* appends called so far, for the bound
  faults,     \* faults so far, for the bound
  bronze,     \* event_ids in bronze.scored_events
  consumed,   \* ops.file_ingest_log, in lines
  reading,    \* the file the ingest has read, or None
  upto,       \* consumed_bytes, in lines
  todo,       \* payloads the ingest has not inserted yet
  created,    \* the ingest's two tables were created, by hand
  raised      \* the last step of the ingest raised, and ended its run

sinkVars == <<hour, file, marked, fd, current, task, lock, appends, faults>>
tableVars == <<bronze, consumed>>
ingestVars == <<tableVars, reading, upto, todo, created, raised>>
logVars == <<hour, file, marked, fd, current, task, lock, appends, faults,
             bronze, consumed, reading, upto, todo, created, raised>>

EventLogTypeOK ==
  /\ hour \in Hours
  /\ file \in [Files -> Seq(Line)]
  /\ marked \in SUBSET Hours
  /\ fd \in [Workers -> {"none", "open", "closed"}]
  /\ current \in [Workers -> Hours \cup {None}]
  /\ task \in [Workers -> [Threads -> [event : Events, hour : Hours] \cup {None}]]
  /\ lock \in [Workers -> Threads \cup {None}]
  /\ appends \in Nat
  /\ faults \in Nat
  /\ bronze \in SUBSET Events
  /\ consumed \in [Files -> Nat]
  /\ reading \in Files \cup {None}
  /\ upto \in Nat
  /\ todo \in SUBSET Events
  /\ created \in BOOLEAN /\ raised \in BOOLEAN
  /\ \A w \in Workers : fd[w] = "none" <=> current[w] = None

EventLogInit ==
  /\ hour = 0
  /\ file = [f \in Files |-> <<>>]
  /\ marked = {}
  /\ fd = [w \in Workers |-> "none"]
  /\ current = [w \in Workers |-> None]
  /\ task = [w \in Workers |-> [t \in Threads |-> None]]
  /\ lock = [w \in Workers |-> None]
  /\ appends = 0
  /\ faults = 0
  /\ bronze = {}
  /\ consumed = [f \in Files |-> 0]
  /\ reading = None
  /\ upto = 0
  /\ todo = {}
  /\ created = FALSE
  /\ raised = FALSE

\* the line is JSON on its own: whole, and not glued to a line cut short
Intact(f, i) ==
  /\ i \in 1..Len(file[f])
  /\ file[f][i].whole
  /\ i > 1 => file[f][i - 1].whole

\* content.rfind(b"\n"): n is the last line with a newline
LastNewline(f, n) ==
  /\ n \in 1..Len(file[f]) /\ file[f][n].whole
  /\ \A m \in (n + 1)..Len(file[f]) : ~file[f][m].whole

Fault == faults < MaxFaults /\ faults' = faults + 1

Leave(w, t) == task' = [task EXCEPT ![w][t] = None]
------------------------------------------------------------------------------

Tick ==
  /\ hour < MaxHour
  /\ hour' = hour + 1
  /\ UNCHANGED <<file, marked, fd, current, task, lock, appends, faults,
                 ingestVars>>

\* append() is called: scored_at_us, and from it relpath, are fixed
Enter(w, t, e) ==
  /\ task[w][t] = None
  /\ appends < MaxAppends
  /\ appends' = appends + 1
  /\ task' = [task EXCEPT ![w][t] = [event |-> e, hour |-> hour]]
  /\ UNCHANGED <<hour, file, marked, fd, current, lock, faults, ingestVars>>

\* what is visible of the thread's line while it is written
NewLine(w, t) == [event |-> task[w][t].event, hour |-> task[w][t].hour,
                  whole |-> FALSE]

\* mutant of BeginWrite: no rotation back to an hour
BeginWriteForward(w, t) ==
  LET h == task[w][t].hour
      to == IF current[w] # None /\ current[w] > h THEN current[w] ELSE h IN
  /\ task[w][t] # None /\ lock[w] = None /\ fd[w] # "closed"
  /\ lock' = [lock EXCEPT ![w] = t]
  /\ current' = [current EXCEPT ![w] = to]
  /\ marked' = marked \cup ({current[w]} \ {None, to})
  /\ fd' = [fd EXCEPT ![w] = "open"]
  /\ file' = [file EXCEPT ![<<w, to>>] = Append(@, NewLine(w, t))]
  /\ UNCHANGED <<hour, task, appends, faults, ingestVars>>

\* with self._lock: rotate if the hour differs (close the old file, mark its
\* directory, open the new one), then os.write; its newline is still to come
BeginWrite(w, t) ==
  /\ task[w][t] # None /\ lock[w] = None /\ fd[w] # "closed"
  /\ lock' = [lock EXCEPT ![w] = t]
  /\ current' = [current EXCEPT ![w] = task[w][t].hour]
  /\ marked' = marked \cup ({current[w]} \ {None, task[w][t].hour})
  /\ fd' = [fd EXCEPT ![w] = "open"]
  /\ file' = [file EXCEPT ![<<w, task[w][t].hour>>] = Append(@, NewLine(w, t))]
  /\ UNCHANGED <<hour, task, appends, faults, ingestVars>>

\* the last line got its newline
Completed(lines) ==
  [i \in 1..Len(lines) |-> IF i = Len(lines) THEN [lines[i] EXCEPT !.whole = TRUE]
                                             ELSE lines[i]]

\* os.write wrote all of it; an fsync that is due may still raise
EndWrite(w) ==
  /\ lock[w] # None
  /\ file' = [file EXCEPT ![<<w, current[w]>>] = Completed(@)]
  /\ Leave(w, lock[w])
  /\ lock' = [lock EXCEPT ![w] = None]
  /\ UNCHANGED <<hour, marked, fd, current, appends, faults, ingestVars>>

\* os.write returns less than the line (the disk is full): nobody looks
ShortWrite(w) ==
  /\ lock[w] # None
  /\ Fault
  /\ Leave(w, lock[w])
  /\ lock' = [lock EXCEPT ![w] = None]
  /\ UNCHANGED <<hour, file, marked, fd, current, appends, ingestVars>>

\* mutant of RotateFails: the descriptor is forgotten, the path is not
RotateFailsForgets(w, t) ==
  /\ task[w][t] # None /\ lock[w] = None
  /\ fd[w] = "open" /\ current[w] # task[w][t].hour
  /\ Fault
  /\ marked' = marked
  /\ fd' = [fd EXCEPT ![w] = "none"]
  /\ Leave(w, t)
  /\ UNCHANGED <<hour, file, current, lock, appends, ingestVars>>

\* _rotate raises after os.close: _fd keeps the number of a closed descriptor
RotateFails(w, t) ==
  /\ task[w][t] # None /\ lock[w] = None
  /\ fd[w] = "open" /\ current[w] # task[w][t].hour
  /\ Fault
  /\ marked' \in {marked, marked \cup {current[w]}}
  /\ fd' = [fd EXCEPT ![w] = "closed"]
  /\ Leave(w, t)
  /\ UNCHANGED <<hour, file, current, lock, appends, ingestVars>>

\* append raises and leaves no trace: always so on a closed descriptor
AppendRaises(w, t) ==
  /\ task[w][t] # None /\ lock[w] = None
  /\ IF fd[w] = "closed" THEN UNCHANGED faults ELSE Fault
  /\ Leave(w, t)
  /\ UNCHANGED <<hour, file, marked, fd, current, lock, appends, ingestVars>>

\* the worker is closed or killed; in a restarted container its successor may
\* have its host name and pid, and append to its files
Stop(w) ==
  /\ fd[w] # "none"
  /\ Fault
  /\ fd' = [fd EXCEPT ![w] = "none"]
  /\ current' = [current EXCEPT ![w] = None]
  /\ task' = [task EXCEPT ![w] = [t \in Threads |-> None]]
  /\ lock' = [lock EXCEPT ![w] = None]
  /\ UNCHANGED <<hour, file, marked, appends, ingestVars>>
------------------------------------------------------------------------------

\* somebody creates the two tables (external: nothing in the repository does)
CreateTables ==
  /\ ~created /\ created' = TRUE
  /\ UNCHANGED <<sinkVars, tableVars, reading, upto, todo, raised>>

\* the run looks up the offset of the first file there is: UndefinedTable
IngestRaises ==
  /\ ~created /\ reading = None
  /\ \E f \in Files : file[f] # <<>>
  /\ raised' = TRUE
  /\ UNCHANGED <<sinkVars, tableVars, reading, upto, todo, created>>

\* the lines of f after its offset, up to line n, wait to be inserted
Take(f, n) ==
  /\ upto' = n
  /\ todo' = {file[f][i].event : i \in {j \in (consumed[f] + 1)..n : Intact(f, j)}}
  /\ reading' = f
  /\ UNCHANGED <<sinkVars, tableVars, created, raised>>

\* mutants of IngestRead: a partial last line is taken; only closed hours are
IngestReadAll(f) ==
  /\ created /\ reading = None
  /\ consumed[f] < Len(file[f])
  /\ Take(f, Len(file[f]))
IngestReadMarked(f) ==
  /\ created /\ reading = None
  /\ f[2] \in marked
  /\ \E n \in (consumed[f] + 1)..Len(file[f]) : LastNewline(f, n) /\ Take(f, n)

\* read from bytes_consumed to the last newline; malformed lines are skipped
IngestRead(f) ==
  /\ created /\ reading = None
  /\ \E n \in (consumed[f] + 1)..Len(file[f]) : LastNewline(f, n) /\ Take(f, n)

\* INSERT ... ON CONFLICT (event_id) DO NOTHING, committed by itself
IngestInsert ==
  /\ \E e \in todo : bronze' = bronze \cup {e} /\ todo' = todo \ {e}
  /\ UNCHANGED <<sinkVars, consumed, reading, upto, created, raised>>

\* mutant of IngestRecord: the offset is recorded before the rows are inserted
IngestRecordFirst ==
  /\ reading # None /\ consumed[reading] # upto
  /\ consumed' = [consumed EXCEPT ![reading] = upto]
  /\ UNCHANGED <<sinkVars, bronze, reading, upto, todo, created, raised>>

\* the file's offset, once all its rows are in
IngestRecord ==
  /\ reading # None /\ todo = {}
  /\ consumed' = [consumed EXCEPT ![reading] = upto]
  /\ reading' = None
  /\ raised' = FALSE
  /\ UNCHANGED <<sinkVars, bronze, upto, todo, created>>

\* the task dies or Postgres raises; the next hourly run starts over
IngestCrash ==
  /\ reading # None
  /\ Fault
  /\ reading' = None
  /\ todo' = {}
  /\ raised' = TRUE
  /\ UNCHANGED <<hour, file, marked, fd, current, task, lock, appends, tableVars,
                 upto, created>>

SinkStep ==
  \/ Tick
  \/ \E w \in Workers, t \in Threads :
       \/ \E e \in Events : Enter(w, t, e)
       \/ BeginWrite(w, t) \/ RotateFails(w, t) \/ AppendRaises(w, t)
  \/ \E w \in Workers : EndWrite(w) \/ ShortWrite(w) \/ Stop(w)

IngestStep == (\E f \in Files : IngestRead(f)) \/ IngestInsert \/ IngestRecord

EventLogNext == SinkStep \/ IngestStep \/ IngestCrash \/ IngestRaises \/ CreateTables

EventLogSpec == EventLogInit /\ [][EventLogNext]_logVars

(***************************************************************************)
(* Fairness: dag_medallion_batch runs the ingest every hour over every     *)
(* file, whatever happened to the run before; a run that can read a file   *)
(* (there are tables to look its offset up in) again and again reads it.   *)
(* Nothing is assumed of the workers, and not that anybody creates the     *)
(* tables.                                                                 *)
(***************************************************************************)
IngestFairness ==
  /\ \A f \in Files : SF_logVars(IngestRead(f))
  /\ WF_logVars(IngestInsert)
  /\ WF_logVars(IngestRecord)

FairEventLogSpec == EventLogSpec /\ IngestFairness
------------------------------------------------------------------------------

(***************************************************************************)
(* Every line is in the file of the hour its event was scored in, however  *)
(* the threads raced for the lock around the turn of the hour.             *)
(***************************************************************************)
LineInItsHour == \A f \in Files : \A i \in 1..Len(file[f]) :
  file[f][i].hour = f[2]

(***************************************************************************)
(* What the offset is past is stored: despite crashes between inserts and  *)
(* offset, and reads while a line is written, no intact line before        *)
(* bytes_consumed is missing from bronze.scored_events.                    *)
(***************************************************************************)
ConsumedIsStored == \A f \in Files : \A i \in 1..consumed[f] :
  Intact(f, i) => file[f][i].event \in bronze

(***************************************************************************)
(* The strengthening that makes the above inductive.  A thread holds the   *)
(* lock only while the last line of the current file is its own and has no *)
(* newline; offsets, recorded or about to be, are just past a newline, so  *)
(* a line still being written is never before one.                         *)
(***************************************************************************)
WritingInv == \A w \in Workers : lock[w] # None =>
  /\ fd[w] = "open"
  /\ task[w][lock[w]] # None
  /\ task[w][lock[w]].hour = current[w]
  /\ Len(file[<<w, current[w]>>]) > 0
  /\ ~file[<<w, current[w]>>][Len(file[<<w, current[w]>>])].whole

PastNewline(f, n) == n = 0 \/ (n \in 1..Len(file[f]) /\ file[f][n].whole)

OffsetInv ==
  /\ \A f \in Files : PastNewline(f, consumed[f])
  /\ reading # None =>
       /\ PastNewline(reading, upto)
       /\ \A i \in 1..upto : Intact(reading, i) =>
            file[reading][i].event \in bronze \cup todo

EventLogInv == EventLogTypeOK /\ LineInItsHour /\ WritingInv /\ OffsetInv
                 /\ ConsumedIsStored

(***************************************************************************)
(* Where the two tables the ingest queries exist, which no DDL of the      *)
(* repository creates, every intact line reaches bronze.scored_events: one *)
(* written before there were tables, one whose run died, and one of an     *)
(* hour that never gets a _SUCCESS.  Without the tables none does (the     *)
(* finding of operations_scored).                                          *)
(***************************************************************************)
Stored(e) == \E f \in Files, i \in 1..MaxAppends : Intact(f, i) /\ file[f][i].event = e

EveryLineIngested == \A e \in Events : created /\ Stored(e) ~> e \in bronze

(***************************************************************************)
(* Claimed by success_marker_relpath: the marker tells "this hour is       *)
(* complete" from "still being written".  Read as: no file of a marked     *)
(* hour changes.                                                           *)
(***************************************************************************)
SuccessMeansComplete ==
  [][\A w \in Workers, h \in marked :
       file'[<<w, h>>] = file[<<w, h>>]]_<<file, marked>>
==============================================================================
