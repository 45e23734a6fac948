----------------------------- MODULE Supervisor ------------------------------
(***************************************************************************)
(* conquer3.serving.supervisor: the main thread (boot, wait, shut down),   *)
(* the champion-poll thread (resolve, restart, confirm, record) and the    *)
(* signal handler, which Python runs on the main thread, around one child  *)
(* server.  holder.lock is held across steps only by a restart, so it is   *)
(* a state of the poll thread.  A Popen has a lock of its own: while main  *)
(* is inside child.wait() no other thread can see that child exit, and     *)
(* main cannot return from it while its signal handler waits for           *)
(* holder.lock.  The child's workers boot together and are one process.    *)
(***************************************************************************)
EXTENDS ModelRegistry

CONSTANTS
  MaxSpawns,    \* bound: children ever spawned
  MaxCrashes,   \* bound: children that crash and supervisors that are killed
  MaxSlow       \* bound: restarts not confirmed within scorer_timeout_s

ASSUME SupervisorBoundsAssumption ==
  MaxSpawns \in Nat /\ MaxCrashes \in Nat /\ MaxSlow \in Nat

Pids == 1..MaxSpawns
NoChild == 0

VARIABLES
  main,       \* where the main thread is in serve()
  poll,       \* where the poll thread is in _poll_champion
  handling,   \* main is in _forward, about to take holder.lock
  stop,       \* stop_event
  holder,     \* _ChildHolder._child
  waited,     \* the child main waits on
  served,     \* current_version of the poll thread
  child,      \* child[p]: the state of process p
  label,      \* label[p]: the version p's /model_info reports
  loaded,     \* loaded[p]: the model p actually loaded
  told,       \* told[p]: p was sent SIGTERM
  audit,      \* the last row of ops.model_deployments: its version, and
              \* whether a server was observed to serve it
  crashes,    \* crashes so far, for the bound
  slow        \* unconfirmed restarts so far, for the bound

childVars == <<child, label, loaded, told>>
countVars == <<audit, crashes, slow>>
supervisorVars == <<main, poll, handling, stop, holder, waited, served, child,
                    label, loaded, told, audit, crashes, slow>>
allVars == <<registryVars, supervisorVars>>

SupervisorTypeOK ==
  /\ main \in {"down", "boot", "spawn", "top", "wait", "check", "final",
               "stopping", "exited"}
  /\ poll \in {"none", "sleep", "resolve", "stopping", "spawn", "confirm"}
  /\ handling \in BOOLEAN
  /\ stop \in BOOLEAN
  /\ holder \in Pids \cup {NoChild}
  /\ waited \in Pids \cup {NoChild}
  /\ served \in Versions \cup {NoVersion}
  /\ child \in [Pids -> {"none", "booting", "serving", "dead"}]
  /\ label \in [Pids -> Versions \cup {NoVersion}]
  /\ loaded \in [Pids -> Versions \cup {NoVersion}]
  /\ told \in [Pids -> BOOLEAN]
  /\ audit \in (Versions \cup {NoVersion}) \X BOOLEAN
  /\ crashes \in 0..MaxCrashes
  /\ slow \in 0..MaxSlow

SupervisorInit ==
  /\ RegistryInit
  /\ main = "down"
  /\ poll = "none"
  /\ handling = FALSE
  /\ stop = FALSE
  /\ holder = NoChild
  /\ waited = NoChild
  /\ served = NoVersion
  /\ child = [p \in Pids |-> "none"]
  /\ label = [p \in Pids |-> NoVersion]
  /\ loaded = [p \in Pids |-> NoVersion]
  /\ told = [p \in Pids |-> FALSE]
  /\ audit = <<NoVersion, TRUE>>
  /\ crashes = 0
  /\ slow = 0

Alive(p) == child[p] \in {"booting", "serving"}

\* holder.lock is free: no restart is under way
Unlocked == poll \notin {"stopping", "spawn"}

\* main executes its next line: it is not inside the signal handler
Running == ~handling

\* Popen._waitpid_lock of p is held by main
Reaping(p) == main = "wait" /\ waited = p

Spawn(p) ==
  /\ child[p] = "none" /\ \A q \in 1..(p - 1) : child[q] # "none"
  /\ child' = [child EXCEPT ![p] = "booting"]
  /\ holder' = p
  /\ UNCHANGED <<label, loaded, told>>

\* child.terminate(), unless the caller already knows the child is dead
Terminate(p) == told' = [told EXCEPT ![p] = @ \/ Alive(p)]

\* a process ends, and what it had loaded with it
Die(p) ==
  /\ child' = [child EXCEPT ![p] = "dead"]
  /\ label' = [label EXCEPT ![p] = NoVersion]
  /\ loaded' = [loaded EXCEPT ![p] = NoVersion]
  /\ UNCHANGED told
------------------------------------------------------------------------------

\* _notify, then record_model_deployment; a failed write is only logged
Record ==
  \/ audit' = <<ref, \E p \in Pids : child[p] = "serving" /\ label[p] = ref>>
  \/ UNCHANGED audit

\* the container starts `conquer3 serve'
Start ==
  /\ main = "down"
  /\ \E p \in Pids : child[p] = "none"
  /\ main' = "boot"
  /\ Resolve
  /\ UNCHANGED <<remoteVars, fileVars, poll, handling, stop, holder, waited,
                 served, childVars, countVars>>

\* activate_champion raised at boot: serve() raises and the container exits
BootFails ==
  /\ main = "boot" /\ step = "failed"
  /\ main' = "exited"
  /\ Forget
  /\ UNCHANGED <<remoteVars, fileVars, poll, handling, stop, holder, waited, served,
                 childVars, countVars>>

\* _notify at boot, before there is a child
BootNotify ==
  /\ main = "boot" /\ step = "done"
  /\ main' = "spawn"
  /\ Record
  /\ UNCHANGED <<registryVars, poll, handling, stop, holder, waited, served,
                 childVars, crashes, slow>>

\* the first child, the signal handlers, the poll thread
BootSpawn ==
  /\ main = "spawn"
  /\ \E p \in Pids : Spawn(p)
  /\ main' = "top"
  /\ poll' = "sleep"
  /\ served' = ref
  /\ Forget
  /\ UNCHANGED <<remoteVars, fileVars, handling, stop, waited, countVars>>

\* child = holder.current; child.wait()
MainWait ==
  /\ main = "top" /\ Running /\ Unlocked
  /\ waited' = holder
  /\ main' = "wait"
  /\ UNCHANGED <<registryVars, poll, handling, stop, holder, served, childVars,
                 countVars>>

\* the child exited; a shutdown returns its code
MainWoken ==
  /\ main = "wait" /\ Running
  /\ child[waited] = "dead"
  /\ main' = IF stop THEN "final" ELSE "check"
  /\ UNCHANGED <<registryVars, poll, handling, stop, holder, waited, served,
                 childVars, countVars>>

\* mutant of MainCheck: the child exited, so the server is down
MainCheckNothing ==
  /\ main = "check" /\ Running
  /\ main' = "final"
  /\ UNCHANGED <<registryVars, poll, handling, stop, holder, waited, served,
                 childVars, countVars>>

\* with holder.lock: was the child replaced, or did it exit?
MainCheck ==
  /\ main = "check" /\ Running /\ Unlocked
  /\ main' = IF holder # waited THEN "top" ELSE "final"
  /\ UNCHANGED <<registryVars, poll, handling, stop, holder, waited, served,
                 childVars, countVars>>

\* finally: stop_event.set(); _terminate(holder.current)
MainFinal ==
  /\ main = "final" /\ Running /\ Unlocked
  /\ stop' = TRUE
  /\ waited' = holder
  /\ Terminate(holder)
  /\ main' = "stopping"
  /\ UNCHANGED <<registryVars, poll, handling, holder, served, child, label,
                 loaded, countVars>>

\* the child is gone, or is killed; the daemon poll thread ends with main
MainExit ==
  /\ main = "stopping" /\ Running
  /\ Die(waited)
  /\ main' = "exited"
  /\ poll' = "none"
  /\ Forget
  /\ UNCHANGED <<remoteVars, fileVars, handling, stop, holder, waited, served,
                 countVars>>

\* SIGTERM or SIGINT once the handlers are installed; bound: the first one
Signal ==
  /\ main \in {"top", "wait", "check", "final", "stopping"} /\ Running
  /\ ~stop
  /\ stop' = TRUE
  /\ handling' = TRUE
  /\ UNCHANGED <<registryVars, main, poll, holder, waited, served, childVars,
                 countVars>>

\* holder.current.send_signal(signum)
Forward ==
  /\ handling /\ Unlocked
  /\ Terminate(holder)
  /\ handling' = FALSE
  /\ UNCHANGED <<registryVars, main, poll, stop, holder, waited, served, child,
                 label, loaded, countVars>>
------------------------------------------------------------------------------

\* stop_event.wait(interval) is over: shut down, give up on a child that is
\* known to be dead, or resolve the champion again
PollTick ==
  /\ poll = "sleep"
  /\ IF stop \/ (child[holder] = "dead" /\ ~Reaping(holder))
     THEN poll' = "none" /\ UNCHANGED resolveVars
     ELSE poll' = "resolve" /\ Resolve
  /\ UNCHANGED <<remoteVars, fileVars, main, handling, stop, holder, waited,
                 served, childVars, countVars>>

\* the poll failed, or the champion has not changed
PollUnchanged ==
  /\ poll = "resolve"
  /\ step = "failed" \/ (step = "done" /\ ref = served)
  /\ poll' = "sleep"
  /\ Forget
  /\ UNCHANGED <<remoteVars, fileVars, main, handling, stop, holder, waited, served,
                 childVars, countVars>>

\* _restart takes the lock and terminates the current child
PollRestart ==
  /\ poll = "resolve" /\ step = "done" /\ ref # served
  /\ Terminate(holder)
  /\ poll' = "stopping"
  /\ UNCHANGED <<registryVars, main, handling, stop, holder, waited, served,
                 child, label, loaded, countVars>>

\* child.wait(timeout) sees the exit
PollDrained ==
  /\ poll = "stopping"
  /\ child[holder] = "dead" /\ ~Reaping(holder)
  /\ poll' = "spawn"
  /\ UNCHANGED <<registryVars, main, handling, stop, holder, waited, served,
                 childVars, countVars>>

\* mutant of PollDrainTimeout: wait() without a timeout
PollDrainForever ==
  /\ poll = "stopping"
  /\ child[holder] = "dead" /\ ~Reaping(holder)
  /\ poll' = "spawn"
  /\ UNCHANGED <<registryVars, main, handling, stop, holder, waited, served,
                 childVars, countVars>>

\* mutant of PollDrainTimeout: SIGKILL is not sent
PollDrainGivesUp ==
  /\ poll = "stopping"
  /\ poll' = "spawn"
  /\ UNCHANGED <<registryVars, main, handling, stop, holder, waited, served,
                 childVars, countVars>>

\* it does not within _DRAIN_TIMEOUT_S: SIGKILL, and a last wait of 10 s
PollDrainTimeout ==
  /\ poll = "stopping"
  /\ Die(holder)
  /\ poll' = "spawn"
  /\ UNCHANGED <<registryVars, main, handling, stop, holder, waited, served,
                 countVars>>

\* mutant of PollSpawn: stop_event is not looked at again
PollSpawnAlways ==
  /\ poll = "spawn"
  /\ (\E p \in Pids : Spawn(p)) /\ poll' = "confirm"
  /\ UNCHANGED <<registryVars, main, handling, stop, waited, served, countVars>>

\* the replacement, unless the supervisor is shutting down; the lock is free
PollSpawn ==
  /\ poll = "spawn"
  /\ IF stop THEN poll' = "none" /\ Forget /\ UNCHANGED <<childVars, holder>>
     ELSE /\ \E p \in Pids : Spawn(p)
          /\ poll' = "confirm"
          /\ UNCHANGED resolveVars
  /\ UNCHANGED <<remoteVars, fileVars, main, handling, stop, waited, served,
                 countVars>>

\* Popen raises: the lock is released and the poll thread dies
PollSpawnFails ==
  /\ poll = "spawn" /\ ~stop
  /\ crashes < MaxCrashes
  /\ crashes' = crashes + 1
  /\ poll' = "none"
  /\ Forget
  /\ UNCHANGED <<remoteVars, fileVars, main, handling, stop, holder, waited,
                 served, childVars, audit, slow>>

\* /model_info reports the version: the promotion is confirmed and recorded
PollConfirm ==
  /\ poll = "confirm"
  /\ \E p \in Pids : child[p] = "serving" /\ label[p] = ref
  /\ served' = ref
  /\ Record
  /\ poll' = "sleep"
  /\ Forget
  /\ UNCHANGED <<remoteVars, fileVars, main, handling, stop, holder, waited,
                 childVars, crashes, slow>>

\* scorer_timeout_s runs out: to be retried on the next tick
PollUnconfirmed ==
  /\ poll = "confirm"
  /\ \/ slow < MaxSlow /\ slow' = slow + 1
     \/ ~Alive(holder) /\ UNCHANGED slow
  /\ poll' = "sleep"
  /\ Forget
  /\ UNCHANGED <<remoteVars, fileVars, main, handling, stop, holder, waited,
                 served, childVars, audit, crashes>>
------------------------------------------------------------------------------

\* load_active_champion in the worker: the pointer, then that directory
Boot(p) ==
  /\ child[p] = "booting"
  /\ IF pointer # NoVersion /\ artifact[pointer] \in Versions
     THEN /\ child' = [child EXCEPT ![p] = "serving"]
          /\ label' = [label EXCEPT ![p] = pointer]
          /\ loaded' = [loaded EXCEPT ![p] = artifact[pointer]]
          /\ UNCHANGED told
     ELSE Die(p)
  /\ UNCHANGED <<registryVars, main, poll, handling, stop, holder, waited,
                 served, countVars>>

\* accepted requests are answered and the child exits; it may also never
Drain(p) ==
  /\ Alive(p) /\ told[p]
  /\ Die(p)
  /\ UNCHANGED <<registryVars, main, poll, handling, stop, holder, waited,
                 served, countVars>>

ChildCrash(p) ==
  /\ Alive(p)
  /\ crashes < MaxCrashes
  /\ crashes' = crashes + 1
  /\ Die(p)
  /\ UNCHANGED <<registryVars, main, poll, handling, stop, holder, waited,
                 served, audit, slow>>

\* the container is killed, with every process in it; its files stay
PowerLoss ==
  /\ main # "down"
  /\ crashes < MaxCrashes
  /\ crashes' = crashes + 1
  /\ main' = "down" /\ poll' = "none"
  /\ Forget
  /\ handling' = FALSE /\ stop' = FALSE
  /\ holder' = NoChild /\ waited' = NoChild /\ served' = NoVersion
  /\ child' = [p \in Pids |-> IF Alive(p) THEN "dead" ELSE child[p]]
  /\ label' = [p \in Pids |-> NoVersion]
  /\ loaded' = [p \in Pids |-> NoVersion]
  /\ UNCHANGED <<remoteVars, fileVars, told, audit, slow>>

MainStep ==
  \/ Start \/ BootFails \/ BootNotify \/ BootSpawn
  \/ MainWait \/ MainWoken \/ MainCheck \/ MainFinal \/ MainExit
  \/ Forward

PollStep ==
  \/ PollTick \/ PollUnchanged \/ PollRestart
  \/ PollDrained \/ PollDrainTimeout \/ PollSpawn
  \/ PollConfirm \/ PollUnconfirmed

SupervisorNext ==
  \/ MainStep
  \/ PollStep \/ PollSpawnFails
  \/ ResolveStep /\ UNCHANGED supervisorVars
  \/ RemoteStep /\ UNCHANGED supervisorVars
  \/ Signal
  \/ \E p \in Pids : Boot(p) \/ Drain(p) \/ ChildCrash(p)
  \/ PowerLoss

SupervisorSpec ==
  SupervisorInit /\ [][SupervisorNext]_allVars

(***************************************************************************)
(* Fairness: threads and children keep running, and a compatible champion  *)
(* that is resolved again and again is again and again resolved live, to   *)
(* the pointer: calls and writes do not fail for ever.  Signals, crashes,  *)
(* failures and promotions need not happen.  A child that was sent SIGTERM *)
(* need not exit unless Draining says so (BentoML drains on SIGTERM).      *)
(***************************************************************************)
ThreadFairness ==
  /\ WF_allVars(MainStep)
  /\ WF_allVars(PollStep)
  /\ WF_allVars(ResolveStep /\ UNCHANGED supervisorVars)
  /\ \A p \in Pids : WF_allVars(Boot(p))

RemoteFairness ==
  []<>(step = "alias" /\ alias \in Compatible)
    => []<><<WritePointer /\ ref = alias>>_allVars

Draining == \A p \in Pids : WF_allVars(Drain(p))

FairSupervisorSpec == SupervisorSpec /\ ThreadFairness /\ RemoteFairness
DrainingSupervisorSpec == FairSupervisorSpec /\ Draining
------------------------------------------------------------------------------

(***************************************************************************)
(* A worker that boots during a restart serves the version the poll thread *)
(* is about to confirm and no other: "it removes the boot race where a     *)
(* restarting worker could independently resolve a different champion".    *)
(***************************************************************************)
BootIsPinned ==
  poll = "confirm" => \A p \in Pids : child[p] = "serving" => label[p] = ref

(***************************************************************************)
(* A supervisor that exits leaves no server behind, wherever the poll      *)
(* thread was in a restart when the signal came.                           *)
(***************************************************************************)
NoOrphan == main = "exited" => \A p \in Pids : ~Alive(p)

(***************************************************************************)
(* At most one server is up: the replacement never overlaps the old child  *)
(* on the port, and /model_info is answered by the child that is current.  *)
(***************************************************************************)
OneServer == \A p \in Pids : Alive(p) => p = holder

(***************************************************************************)
(* A child the supervisor itself replaced is never taken for a crash: main *)
(* shuts down unasked only when a child exited on its own, or when its     *)
(* replacement could not be started.                                       *)
(***************************************************************************)
NoFalseExit ==
  main = "final" /\ ~stop => ~told[waited] \/ poll = "none"

(***************************************************************************)
(* A signal ends the supervisor, even while main's handler waits for the   *)
(* lock that a restart holds and the restart waits for an exit that only   *)
(* main could see: it does not stay told to stop (nothing but its end      *)
(* clears stop) and never end.                                             *)
(***************************************************************************)
ShutdownCompletes == []<>(stop => main \in {"exited", "down"})

(***************************************************************************)
(* A version change restarts the child so that the new workers pick it up, *)
(* and an unconfirmed restart is retried: once the alias rests on a        *)
(* compatible version, the scorer comes to serve it for good, whatever     *)
(* remote calls failed and boots were slow, unless it exits or is told to. *)
(* One case is excepted, because there it does not: after a restart that   *)
(* was not confirmed, an alias that moves back to the version confirmed    *)
(* last is taken for unchanged (see SkipOnlyWhenServed), and the other     *)
(* version stays served.                                                   *)
(***************************************************************************)
RolledBackUnconfirmed == slow > 0 /\ served = alias

EventuallyServesChampion ==
  <>[](alias \in Compatible =>
         \/ main = "exited" \/ stop
         \/ \E p \in Pids : p = holder /\ child[p] = "serving" /\ label[p] = alias
         \/ RolledBackUnconfirmed)

\* the version the server answers /model_info with
Answering == {p \in Pids : child[p] = "serving"}
ServedVersion ==
  IF Answering = {} THEN NoVersion ELSE label[CHOOSE p \in Answering : TRUE]

Abstract == INSTANCE Rollout WITH Down <- NoVersion, serving <- ServedVersion

(***************************************************************************)
(* The supervisor implements Rollout: through every restart, crash and     *)
(* fallback, clients see one version from the start of a server to its     *)
(* end, never two versions without an interruption between them, and only  *)
(* compatible versions that have been champion (a label is a ref's name;   *)
(* see LabelIsLoaded for what was loaded under it).                        *)
(***************************************************************************)
ImplementsRollout == Abstract!RolloutSpec

(***************************************************************************)
(* Claimed by supervisor.py: "an unconfirmed promotion is retried on the   *)
(* next poll tick rather than being forgotten".  Read as: a tick that      *)
(* leaves the server alone leaves it serving the version just resolved.    *)
(***************************************************************************)
SkipOnlyWhenServed ==
  poll = "resolve" /\ step = "done" /\ ref = served
    => \A p \in Pids : child[p] = "serving" => label[p] = ref

(***************************************************************************)
(* Claimed by supervisor.py of _DRAIN_TIMEOUT_S: a child that was sent     *)
(* SIGTERM and does not drain is killed.                                   *)
(***************************************************************************)
DrainEscalates == \A p \in Pids : told[p] ~> child[p] = "dead"

(***************************************************************************)
(* Claimed by supervisor.py of ops.model_deployments: "a row there means   *)
(* the switch was observed to actually happen, not merely attempted".      *)
(***************************************************************************)
AuditMeansObserved == audit[2]

(***************************************************************************)
(* Claimed by model_registry.py: "ModelRef always names the immutable      *)
(* version actually resolved", so what /model_info reports is what the     *)
(* worker loaded.                                                          *)
(***************************************************************************)
LabelIsLoaded == \A p \in Pids : child[p] = "serving" => label[p] = loaded[p]

(***************************************************************************)
(* Claimed by model_registry.py: a model of another feature schema is to   *)
(* "fail at load, not at inference".  Read as: what a worker loaded was    *)
(* itself verified, not only the ref it was loaded under.                  *)
(***************************************************************************)
LoadedIsVerified ==
  \A p \in Pids : child[p] = "serving" => loaded[p] \in Compatible
==============================================================================
