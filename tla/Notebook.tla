------------------------------- MODULE Notebook -------------------------------
(***************************************************************************)
(* What the training notebooks are made of.  A kernel runs the cells of    *)
(* one notebook from top to bottom; it may die anywhere, also between two  *)
(* writes of one cell, and a new one starts over with an empty memory and  *)
(* whatever is on disk.  A value is known by where it comes from: the      *)
(* partitions whose features ("x") or labels ("y") went into it, and the   *)
(* trainings whose model it was computed with.  Where training is not      *)
(* deterministic (CUDA histograms), each is told apart by its number.      *)
(***************************************************************************)
EXTENDS Naturals, Sequences, FiniteSets

CONSTANT MaxRestarts   \* bound: kernels after the first

ASSUME NotebookAssumption == MaxRestarts \in Nat

VARIABLES
  book,      \* the notebook that is run
  cwd,       \* the directory its kernel was started in
  cell,      \* the cell, or the write within it, that is next
  mem,       \* the kernel's names: a partial function to values
  disk,      \* files: a partial function from <<directory, name>>
  fits,      \* trainings so far
  restarts

notebookVars == <<book, cwd, cell, mem, disk, fits, restarts>>

NoNames == [n \in {} |-> {}]
Is(v) == v \in DOMAIN mem

\* what new says, and what old says of the rest
Override(new, old) ==
  [n \in DOMAIN new \cup DOMAIN old |-> IF n \in DOMAIN new THEN new[n] ELSE old[n]]
Put(f, key, value) ==
  [n \in DOMAIN f \cup {key} |-> IF n = key THEN value ELSE f[n]]

\* where a value comes from
From(facts, of) == [facts |-> facts, of |-> of]
Torn == From({}, {})   \* a file that was opened and not written to its end
X(part) == From({<<part, "x">>}, {})
Y(part) == From({<<part, "y">>}, {})
Mix(values) ==
  From(UNION {v.facts : v \in values}, UNION {v.of : v \in values})
Labels(v) == {f[1] : f \in {g \in v.facts : g[2] = "y"}}

\* a model: what it was fitted to, and which training it is
Trained(values) == From(Mix(values).facts, {fits + 1})

\* a row of q is seen by the features of a row of p, whose steps are w[q] and
\* w[p]: q begins no later than the day (step // 24) in which p ends
SeenFrom(w, p, q) == w[q][1] \div 24 <= w[p][2] \div 24

\* the features of the rows of p: rows before them, rows of their last day, and
\* what was fitted on training rows
Featured(w, p) ==
  Mix({X(q) : q \in {r \in DOMAIN w : SeenFrom(w, p, r)}} \cup {X("train"), Y("train")})

OnDisk(d, f) == <<d, f>> \in DOMAIN disk
Write(d, f, value) == disk' = Put(disk, <<d, f>>, value)

At(c) == cell = c /\ UNCHANGED <<book, cwd>>
Goto(c) == cell' = c
Bind(new) == mem' = Override(new, mem)
NoTraining == UNCHANGED fits
Training == fits' = fits + 1
NoWrites == UNCHANGED <<disk, restarts>>

\* a cell that only computes
Compute(c, next, new) ==
  At(c) /\ Goto(next) /\ Bind(new) /\ NoTraining /\ NoWrites

\* a cell that trains and keeps the model in memory
Train(c, next, new) ==
  At(c) /\ Goto(next) /\ Bind(new) /\ Training /\ NoWrites

\* a cell that may raise: the kernel waits for its user
Raise(c) == Compute(c, "raised", NoNames)

\* a cell that writes a file: the file is torn until the writer closes it
Open(c, next, d, f) ==
  /\ At(c) /\ Goto(next) /\ Write(d, f, Torn)
  /\ UNCHANGED <<mem, fits, restarts>>
Close(c, next, d, f, value) ==
  /\ At(c) /\ Goto(next) /\ Write(d, f, value)
  /\ UNCHANGED <<mem, fits, restarts>>

\* the kernel dies, or is restarted to run all cells again, perhaps elsewhere
KernelRestart(b, first) ==
  /\ restarts < MaxRestarts /\ restarts' = restarts + 1
  /\ mem' = NoNames
  /\ book' = b /\ cell' = first
  /\ cwd' \in {"root", "sub"}
  /\ UNCHANGED <<disk, fits>>

NotebookInit(b, first, files) ==
  /\ book = b /\ cell = first
  /\ cwd \in {"root", "sub"}
  /\ mem = NoNames
  /\ disk = files
  /\ fits = 0 /\ restarts = 0
==============================================================================
