--------------------------- MODULE Supervisor_proofs ---------------------------
(***************************************************************************)
(* Proofs about ModelRegistry and Supervisor, for any versions and any     *)
(* number of promotions, restarts, crashes and slow boots: what workers    *)
(* are pointed at was verified, there is one server at a time and none     *)
(* left behind, a restart is not taken for a crash, and the supervisor     *)
(* implements Rollout.  Liveness stays with TLC.                           *)
(***************************************************************************)
EXTENDS Supervisor, TLAPS

USE CompatibleAssumption, FileAssumption

------------------------------------------------------------------------------
\* The model contract

(***************************************************************************)
(* What a resolution knows at each of its steps.  A ref was checked when   *)
(* it was read, and its directory has held something since the download    *)
(* began; the alias, the cache file and the pointer name former champions. *)
(***************************************************************************)
Verified == {"download", "write", "cache", "caching", "pointer", "done"}

RefInv ==
  /\ step \in Verified => ref \in Compatible \cap crowned
  /\ step \in {"cache", "caching", "pointer"} => artifact[ref] \in crowned
  /\ step = "done" => pointer = ref

FilesInv ==
  /\ alias # NoVersion => alias \in crowned
  /\ step \in {"download", "write"} => alias # NoVersion
  /\ step = "write" => fetching \in crowned
  /\ cacheFile \in Versions => cacheFile \in crowned
  /\ \A v \in Versions : artifact[v] \in crowned \cup {NoVersion, Torn}
  /\ step \in Verified \ {"download"} => artifact[ref] # NoVersion
  /\ ActiveRefIsVerified

RegistryInv == RegistryTypeOK /\ RefInv /\ FilesInv

\* every step of the registry or of one who uses it
Forgets == Forget /\ UNCHANGED <<remoteVars, fileVars>>
Resolves == Resolve /\ UNCHANGED <<remoteVars, fileVars>>
RegistryStep ==
  RemoteStep \/ ResolveStep \/ Resolves \/ Forgets \/ UNCHANGED registryVars

\* the model contract
LEMMA RegistryInitially == RegistryInit => RegistryInv
<1> SUFFICES ASSUME RegistryInit PROVE RegistryInv
  OBVIOUS
<1>1. RegistryTypeOK
  BY MaxMovesAssumption DEF RegistryInit, RegistryTypeOK
<1>2. RefInv /\ FilesInv
  BY DEF RegistryInit, RefInv, FilesInv, Verified, ActiveRefIsVerified
<1>3. QED
  BY <1>1, <1>2 DEF RegistryInv

\* publishers and promoters only add former champions
LEMMA RemoteKeeps ==
  ASSUME RegistryInv, RemoteStep
  PROVE  RegistryInv' /\ crowned \subseteq crowned' /\ UNCHANGED <<fileVars, resolveVars>>
<1> USE DEF RegistryInv, remoteVars, fileVars, resolveVars
<1>1. PICK v \in Versions : Promote(v) \/ \E c \in BOOLEAN : Publish(v, c)
  BY DEF RemoteStep
<1>2. /\ crowned' \in {crowned, crowned \cup {v}}
      /\ alias' \in {alias, v} /\ (alias' = v => v \in crowned' \/ alias = v)
      /\ UNCHANGED <<fileVars, resolveVars>>
  BY <1>1 DEF Promote, Publish, Alias
<1>3. RegistryTypeOK'
  <2> USE MaxMovesAssumption DEF RegistryTypeOK, Alias
  <2>1. CASE Promote(v)
    BY <2>1 DEF Promote
  <2>2. CASE Publish(v, TRUE)
    BY <2>2 DEF Publish
  <2>3. CASE Publish(v, FALSE)
    BY <2>3 DEF Publish
  <2>4. QED
    BY <1>1, <2>1, <2>2, <2>3
<1>4. RefInv' /\ FilesInv'
  BY <1>2 DEF RefInv, FilesInv, Verified, ActiveRefIsVerified, RegistryTypeOK
<1>5. QED
  BY <1>2, <1>3, <1>4

\* a resolution moves on only from the step it knows about
LEMMA ResolveKeeps ==
  ASSUME RegistryInv, ResolveStep
  PROVE  RegistryInv' /\ UNCHANGED remoteVars /\ step # "done" /\ step # "idle"
<1> USE DEF RegistryInv, remoteVars, fileVars
<1>1. CASE ReadAlias
  BY <1>1 DEF ReadAlias, Raise, RegistryTypeOK, RefInv, FilesInv, Verified,
     ActiveRefIsVerified
<1>2. CASE StartDownload
  BY <1>2 DEF StartDownload, RegistryTypeOK, RefInv, FilesInv, Verified,
     ActiveRefIsVerified
<1>3. CASE FinishDownload
  BY <1>3 DEF FinishDownload, RegistryTypeOK, RefInv, FilesInv, Verified,
     ActiveRefIsVerified
<1>4. CASE RemoteFails
  BY <1>4 DEF RemoteFails, RegistryTypeOK, RefInv, FilesInv, Verified, ActiveRefIsVerified
<1>5. CASE TruncateCache
  BY <1>5 DEF TruncateCache, RegistryTypeOK, RefInv, FilesInv, Verified,
     ActiveRefIsVerified
<1>6. CASE WriteCache
  BY <1>6 DEF WriteCache, RegistryTypeOK, RefInv, FilesInv, Verified, ActiveRefIsVerified
<1>7. CASE Fallback
  BY <1>7 DEF Fallback, Raise, RegistryTypeOK, RefInv, FilesInv, Verified,
     ActiveRefIsVerified
<1>8. CASE WritePointer
  BY <1>8 DEF WritePointer, RegistryTypeOK, RefInv, FilesInv, Verified, ActiveRefIsVerified
<1>9. CASE DiskFails
  BY <1>9 DEF DiskFails, Raise, RegistryTypeOK, RefInv, FilesInv, Verified,
     ActiveRefIsVerified
<1>10. QED
  BY <1>1, <1>2, <1>3, <1>4, <1>5, <1>6, <1>7, <1>8, <1>9 DEF ResolveStep

\* any step
LEMMA RegistryKeeps ==
  ASSUME RegistryInv, RegistryStep
  PROVE  RegistryInv' /\ crowned \subseteq crowned'
<1> USE DEF RegistryInv
<1>1. CASE RemoteStep
  BY <1>1, RemoteKeeps
<1>2. CASE ResolveStep
  BY <1>2, ResolveKeeps DEF remoteVars
<1>3. CASE Resolves \/ Forgets
  BY <1>3 DEF Resolves, Forgets, Resolve, Forget, remoteVars, fileVars, RegistryTypeOK,
     RefInv, FilesInv, Verified, ActiveRefIsVerified
<1>4. CASE UNCHANGED registryVars
  BY <1>4 DEF registryVars, RegistryTypeOK, RefInv, FilesInv, Verified, ActiveRefIsVerified
<1>5. QED
  BY <1>1, <1>2, <1>3, <1>4 DEF RegistryStep

(***************************************************************************)
(* The model contract by itself (resolve_champion, activate_champion):     *)
(* whatever is published, promoted, unreachable or cut short, the pointer  *)
(* names a former champion that was verified, and is written only over the *)
(* whole artifact of a former champion.                                    *)
(***************************************************************************)
THEOREM PointerIsVerifiedRef == RegistrySpec => []ActiveRefIsVerified
<1>1. RegistryInv /\ [RegistryNext]_registryVars => RegistryInv'
  BY RegistryKeeps DEF RegistryNext, RegistryStep, Return, Resolves, Forgets
<1>2. RegistryInv => ActiveRefIsVerified
  BY DEF RegistryInv, FilesInv
<1>3. QED
  BY RegistryInitially, <1>1, <1>2, PTL DEF RegistrySpec
------------------------------------------------------------------------------
\* The supervisor

USE SupervisorBoundsAssumption DEF Pids, NoChild

\* main is in serve() with a child to look after
Up == {"top", "wait", "check", "final", "stopping"}

MainInv ==
  /\ main \notin Up => poll = "none"
  /\ main \in Up => holder \in Pids
  /\ main \in Up \ {"top"} => waited \in Pids
  /\ main = "stopping" => stop /\ waited = holder
  /\ main = "spawn" => step = "done"
  /\ handling => stop /\ main \in Up

(***************************************************************************)
(* A restart works on a finished resolution; when it spawns, the child it  *)
(* stopped is gone; and outside a restart nobody but a shutdown has told   *)
(* the current child to end.                                               *)
(***************************************************************************)
PollInv ==
  /\ poll \in {"stopping", "spawn", "confirm"} => step = "done"
  /\ poll = "spawn" => \A p \in Pids : ~Alive(p)
  /\ ~stop /\ poll \in {"sleep", "resolve", "confirm"} => ~told[holder]

ServerInv ==
  /\ main \notin Up => \A p \in Pids : ~Alive(p)
  /\ OneServer
  /\ \A p \in Pids : child[p] = "none" => ~told[p]
  /\ \A p \in Pids : child[p] = "serving" => label[p] \in Compatible \cap crowned
  /\ BootIsPinned

ExitInv ==
  /\ main \in {"check", "final"} => child[waited] = "dead"
  /\ NoFalseExit

SupervisorInv ==
  RegistryInv /\ SupervisorTypeOK /\ MainInv /\ PollInv /\ ServerInv /\ ExitInv

ProcessInv == SupervisorTypeOK /\ MainInv /\ PollInv /\ ServerInv /\ ExitInv

\* nothing runs yet
LEMMA SupervisorInitially == SupervisorInit => SupervisorInv
<1> SUFFICES ASSUME SupervisorInit PROVE SupervisorInv
  OBVIOUS
<1>1. RegistryInv
  BY RegistryInitially DEF SupervisorInit
<1>2. SupervisorTypeOK
  <2>1. crashes \in 0..MaxCrashes /\ slow \in 0..MaxSlow
    BY SupervisorBoundsAssumption DEF SupervisorInit
  <2>2. audit \in (Versions \cup {NoVersion}) \X BOOLEAN
    BY DEF SupervisorInit
  <2>3. QED
    BY <2>1, <2>2 DEF SupervisorInit, SupervisorTypeOK
<1>3. MainInv /\ PollInv /\ ExitInv
  BY DEF SupervisorInit, MainInv, PollInv, ExitInv, NoFalseExit, Up
<1>4. ServerInv
  BY DEF SupervisorInit, ServerInv, Up, OneServer, BootIsPinned, Alive
<1>5. QED
  BY <1>1, <1>2, <1>3, <1>4 DEF SupervisorInv

\* every step of the supervisor is one of the registry, or uses it
LEMMA StepsOfTheRegistry == SupervisorNext => RegistryStep
<1> USE DEF RegistryStep, registryVars
<1>1. MainStep => RegistryStep
  BY DEF MainStep, Start, BootFails, BootNotify, BootSpawn, MainWait, MainWoken,
     MainCheck, MainFinal, MainExit, Forward, Forgets, Resolves, remoteVars, fileVars
<1>2. PollStep \/ PollSpawnFails => RegistryStep
  BY DEF PollStep, PollTick, PollUnchanged, PollRestart, PollDrained, PollDrainTimeout,
     PollSpawn, PollSpawnFails, PollConfirm, PollUnconfirmed, Forgets, Resolves,
     resolveVars, remoteVars, fileVars
<1>3. (Signal \/ \E p \in Pids : Boot(p) \/ Drain(p) \/ ChildCrash(p)) => RegistryStep
  BY DEF Signal, Boot, Drain, ChildCrash
<1>4. PowerLoss => RegistryStep
  BY DEF PowerLoss, Forgets
<1>5. QED
  BY <1>1, <1>2, <1>3, <1>4 DEF SupervisorNext

\* what a step of the supervisor starts from
LEMMA Typed ==
  ASSUME SupervisorInv
  PROVE  /\ ref \in Versions \cup {NoVersion}
         /\ pointer \in Versions \cup {NoVersion}
         /\ step = "done" => ref \in Compatible \cap crowned /\ pointer = ref
  BY DEF SupervisorInv, RegistryInv, RegistryTypeOK, RefInv, Verified

\* _notify and record_model_deployment
LEMMA RecordKeeps ==
  ASSUME SupervisorInv, Record
  PROVE  audit' \in (Versions \cup {NoVersion}) \X BOOLEAN
<1>1. PICK b \in BOOLEAN : b = (\E p \in Pids : child[p] = "serving" /\ label[p] = ref)
  OBVIOUS
<1>2. CASE UNCHANGED audit
  BY <1>2 DEF SupervisorInv, SupervisorTypeOK
<1>3. CASE ~UNCHANGED audit
  <2>1. audit' = <<ref, b>>
    BY <1>1, <1>3 DEF Record
  <2>2. QED
    BY <2>1, Typed
<1>4. QED
  BY <1>2, <1>3

\* the main thread, the signal and the loss of the container
LEMMA MainKeeps ==
  ASSUME SupervisorInv,
         \/ Start \/ BootFails \/ BootNotify \/ BootSpawn \/ MainWait \/ MainWoken
         \/ MainCheck \/ MainFinal \/ MainExit \/ Forward \/ Signal \/ PowerLoss
  PROVE  ProcessInv'
<1> USE Typed DEF ProcessInv, SupervisorInv, childVars, countVars, resolveVars,
   registryVars, remoteVars, fileVars, Running, Unlocked, Forget, Resolve
<1>1. CASE Start
  <2> USE <1>1 DEF Start
  <2>1. SupervisorTypeOK'
    BY DEF SupervisorTypeOK
  <2>2. MainInv'
    BY DEF MainInv, Up
  <2>3. PollInv'
    BY DEF PollInv
  <2>4. ServerInv'
    BY DEF ServerInv, Up, Alive, OneServer, BootIsPinned
  <2>5. ExitInv'
    BY DEF ExitInv, NoFalseExit
  <2>6. QED
    BY <2>1, <2>2, <2>3, <2>4, <2>5
<1>2. CASE BootFails
  <2> USE <1>2 DEF BootFails
  <2>1. SupervisorTypeOK'
    BY DEF SupervisorTypeOK
  <2>2. MainInv'
    BY DEF MainInv, Up
  <2>3. PollInv'
    BY DEF PollInv
  <2>4. ServerInv'
    BY DEF ServerInv, Up, Alive, OneServer, BootIsPinned
  <2>5. ExitInv'
    BY DEF ExitInv, NoFalseExit
  <2>6. QED
    BY <2>1, <2>2, <2>3, <2>4, <2>5
<1>3. CASE BootNotify
  <2> USE <1>3 DEF BootNotify
  <2>1. SupervisorTypeOK'
    <3>1. Record
      OBVIOUS
    <3>2. QED
      BY <3>1, RecordKeeps DEF SupervisorTypeOK
  <2>2. MainInv'
    BY DEF MainInv, Up
  <2>3. PollInv'
    BY DEF PollInv, Alive
  <2>4. ServerInv'
    BY DEF ServerInv, Up, Alive, OneServer, BootIsPinned
  <2>5. ExitInv'
    BY DEF ExitInv, NoFalseExit
  <2>6. QED
    BY <2>1, <2>2, <2>3, <2>4, <2>5
<1>4. CASE BootSpawn
  <2> USE <1>4 DEF BootSpawn
  <2>1. SupervisorTypeOK'
    BY DEF SupervisorTypeOK, Spawn
  <2>2. MainInv'
    BY DEF MainInv, Up, Spawn
  <2>3. PollInv'
    BY DEF PollInv, ServerInv, Spawn
  <2>4. ServerInv'
    BY DEF ServerInv, Up, Alive, OneServer, BootIsPinned, Spawn
  <2>5. ExitInv'
    BY DEF ExitInv, NoFalseExit
  <2>6. QED
    BY <2>1, <2>2, <2>3, <2>4, <2>5
<1>5. CASE MainWait
  <2> USE <1>5 DEF MainWait
  <2>1. SupervisorTypeOK'
    BY DEF SupervisorTypeOK
  <2>2. MainInv'
    BY DEF MainInv, Up
  <2>3. PollInv'
    BY DEF PollInv
  <2>4. ServerInv'
    BY DEF ServerInv, Up, Alive, OneServer, BootIsPinned
  <2>5. ExitInv'
    BY DEF ExitInv, NoFalseExit
  <2>6. QED
    BY <2>1, <2>2, <2>3, <2>4, <2>5
<1>6. CASE MainWoken
  <2> USE <1>6 DEF MainWoken
  <2>1. SupervisorTypeOK'
    BY DEF SupervisorTypeOK
  <2>2. MainInv'
    BY DEF MainInv, Up
  <2>3. PollInv'
    BY DEF PollInv, Alive
  <2>4. ServerInv'
    BY DEF ServerInv, Up, Alive, OneServer, BootIsPinned
  <2>5. ExitInv'
    BY DEF ExitInv, NoFalseExit
  <2>6. QED
    BY <2>1, <2>2, <2>3, <2>4, <2>5
<1>7. CASE MainCheck
  <2> USE <1>7 DEF MainCheck
  <2>1. SupervisorTypeOK'
    BY DEF SupervisorTypeOK
  <2>2. MainInv'
    BY DEF MainInv, Up
  <2>3. PollInv'
    BY DEF PollInv
  <2>4. ServerInv'
    BY DEF ServerInv, Up, Alive, OneServer, BootIsPinned
  <2>5. ExitInv'
    BY DEF SupervisorTypeOK, PollInv, ExitInv, NoFalseExit
  <2>6. QED
    BY <2>1, <2>2, <2>3, <2>4, <2>5
<1>8. CASE MainFinal
  <2> USE <1>8 DEF MainFinal
  <2>1. SupervisorTypeOK'
    BY DEF SupervisorTypeOK, Terminate
  <2>2. MainInv'
    BY DEF MainInv, Up
  <2>3. PollInv'
    BY DEF PollInv
  <2>4. ServerInv'
    BY DEF SupervisorTypeOK, ServerInv, Up, Alive, OneServer, BootIsPinned, Terminate
  <2>5. ExitInv'
    BY DEF ExitInv, NoFalseExit
  <2>6. QED
    BY <2>1, <2>2, <2>3, <2>4, <2>5
<1>9. CASE MainExit
  <2> USE <1>9 DEF MainExit
  <2>1. SupervisorTypeOK'
    BY DEF SupervisorTypeOK, Die
  <2>2. MainInv'
    BY DEF MainInv, Up
  <2>3. PollInv'
    BY DEF PollInv
  <2>4. ServerInv'
    BY DEF SupervisorTypeOK, MainInv, ServerInv, Alive, OneServer, BootIsPinned, Die
  <2>5. ExitInv'
    BY DEF ExitInv, NoFalseExit
  <2>6. QED
    BY <2>1, <2>2, <2>3, <2>4, <2>5
<1>10. CASE Forward
  <2> USE <1>10 DEF Forward
  <2>1. SupervisorTypeOK'
    BY DEF SupervisorTypeOK, Terminate
  <2>2. MainInv'
    BY DEF MainInv
  <2>3. PollInv'
    BY DEF MainInv, PollInv
  <2>4. ServerInv'
    BY DEF SupervisorTypeOK, ServerInv, Alive, OneServer, BootIsPinned, Terminate
  <2>5. ExitInv'
    BY DEF MainInv, ExitInv, NoFalseExit
  <2>6. QED
    BY <2>1, <2>2, <2>3, <2>4, <2>5
<1>11. CASE Signal
  <2> USE <1>11 DEF Signal
  <2>1. SupervisorTypeOK'
    BY DEF SupervisorTypeOK
  <2>2. MainInv'
    BY DEF MainInv, Up
  <2>3. PollInv'
    BY DEF PollInv, Alive
  <2>4. ServerInv'
    BY DEF ServerInv, Alive, OneServer, BootIsPinned
  <2>5. ExitInv'
    BY DEF ExitInv, NoFalseExit
  <2>6. QED
    BY <2>1, <2>2, <2>3, <2>4, <2>5
<1>12. CASE PowerLoss
  <2> USE <1>12 DEF PowerLoss
  <2>1. SupervisorTypeOK'
    <3>1. crashes' \in 0..MaxCrashes
      BY SupervisorBoundsAssumption DEF SupervisorTypeOK
    <3>2. child' \in [Pids -> {"none", "booting", "serving", "dead"}]
      BY DEF SupervisorTypeOK, Alive
    <3>3. label' \in [Pids -> Versions \cup {NoVersion}] /\ loaded' = label'
      OBVIOUS
    <3>4. QED
      BY <3>1, <3>2, <3>3 DEF SupervisorTypeOK
  <2>2. MainInv'
    BY DEF MainInv, Up
  <2>3. PollInv'
    BY DEF PollInv
  <2>4. ServerInv'
    BY DEF ServerInv, Alive, OneServer, BootIsPinned
  <2>5. ExitInv'
    BY DEF ExitInv, NoFalseExit
  <2>6. QED
    BY <2>1, <2>2, <2>3, <2>4, <2>5
<1>13. QED
  BY <1>1, <1>2, <1>3, <1>4, <1>5, <1>6, <1>7, <1>8, <1>9, <1>10, <1>11, <1>12

\* the poll thread
LEMMA PollKeeps ==
  ASSUME SupervisorInv,
         \/ PollTick \/ PollUnchanged \/ PollRestart \/ PollDrained \/ PollDrainTimeout
         \/ PollSpawn \/ PollSpawnFails \/ PollConfirm \/ PollUnconfirmed
  PROVE  ProcessInv'
<1> USE Typed DEF ProcessInv, SupervisorInv, childVars, countVars, resolveVars,
   registryVars, remoteVars, fileVars, Running, Unlocked, Forget, Resolve
<1>1. CASE PollTick
  <2> USE <1>1 DEF PollTick
  <2>1. SupervisorTypeOK'
    BY DEF SupervisorTypeOK
  <2>2. MainInv'
    BY DEF MainInv
  <2>3. PollInv'
    BY DEF PollInv
  <2>4. ServerInv'
    BY DEF ServerInv, Alive, OneServer, BootIsPinned
  <2>5. ExitInv'
    BY DEF ExitInv, NoFalseExit
  <2>6. QED
    BY <2>1, <2>2, <2>3, <2>4, <2>5
<1>2. CASE PollUnchanged
  <2> USE <1>2 DEF PollUnchanged
  <2>1. SupervisorTypeOK'
    BY DEF SupervisorTypeOK
  <2>2. MainInv'
    BY DEF MainInv, Up
  <2>3. PollInv'
    BY DEF PollInv
  <2>4. ServerInv'
    BY DEF ServerInv, Alive, OneServer, BootIsPinned
  <2>5. ExitInv'
    BY DEF ExitInv, NoFalseExit
  <2>6. QED
    BY <2>1, <2>2, <2>3, <2>4, <2>5
<1>3. CASE PollRestart
  <2> USE <1>3 DEF PollRestart
  <2>1. SupervisorTypeOK'
    BY DEF SupervisorTypeOK, Terminate
  <2>2. MainInv'
    BY DEF MainInv
  <2>3. PollInv'
    BY DEF PollInv
  <2>4. ServerInv'
    BY DEF SupervisorTypeOK, ServerInv, Alive, OneServer, BootIsPinned, Terminate
  <2>5. ExitInv'
    BY DEF SupervisorTypeOK, ExitInv, Alive, NoFalseExit, Terminate
  <2>6. QED
    BY <2>1, <2>2, <2>3, <2>4, <2>5
<1>4. CASE PollDrained
  <2> USE <1>4 DEF PollDrained
  <2>1. SupervisorTypeOK'
    BY DEF SupervisorTypeOK
  <2>2. MainInv'
    BY DEF MainInv
  <2>3. PollInv'
    BY DEF PollInv, ServerInv, Alive, OneServer
  <2>4. ServerInv'
    BY DEF ServerInv, Alive, OneServer, BootIsPinned
  <2>5. ExitInv'
    BY DEF ExitInv, NoFalseExit
  <2>6. QED
    BY <2>1, <2>2, <2>3, <2>4, <2>5
<1>5. CASE PollDrainTimeout
  <2> USE <1>5 DEF PollDrainTimeout
  <2>1. SupervisorTypeOK'
    BY DEF SupervisorTypeOK, Die
  <2>2. MainInv'
    BY DEF MainInv
  <2>3. PollInv'
    BY DEF SupervisorTypeOK, PollInv, ServerInv, Alive, OneServer, Die
  <2>4. ServerInv'
    BY DEF SupervisorTypeOK, ServerInv, Alive, OneServer, BootIsPinned, Die
  <2>5. ExitInv'
    BY DEF ExitInv, NoFalseExit, Die
  <2>6. QED
    BY <2>1, <2>2, <2>3, <2>4, <2>5
<1>6. CASE PollSpawn
  <2> USE <1>6 DEF PollSpawn
  <2>1. SupervisorTypeOK'
    BY DEF SupervisorTypeOK, Spawn
  <2>2. MainInv'
    BY DEF MainInv, Up, Spawn
  <2>3. PollInv'
    BY DEF PollInv, ServerInv, Spawn
  <2>4. ServerInv'
    BY DEF SupervisorTypeOK, MainInv, PollInv, ServerInv, Alive, OneServer,
       BootIsPinned, Spawn
  <2>5. ExitInv'
    BY DEF SupervisorTypeOK, MainInv, ExitInv, NoFalseExit, Spawn
  <2>6. QED
    BY <2>1, <2>2, <2>3, <2>4, <2>5
<1>7. CASE PollSpawnFails
  <2> USE <1>7 DEF PollSpawnFails
  <2>1. SupervisorTypeOK'
    BY DEF SupervisorTypeOK
  <2>2. MainInv'
    BY DEF MainInv, Up
  <2>3. PollInv'
    BY DEF PollInv
  <2>4. ServerInv'
    BY DEF ServerInv, Alive, OneServer, BootIsPinned
  <2>5. ExitInv'
    BY DEF ExitInv, NoFalseExit
  <2>6. QED
    BY <2>1, <2>2, <2>3, <2>4, <2>5
<1>8. CASE PollConfirm
  <2> USE <1>8 DEF PollConfirm
  <2>1. SupervisorTypeOK'
    <3>1. Record
      OBVIOUS
    <3>2. QED
      BY <3>1, RecordKeeps DEF SupervisorTypeOK
  <2>2. MainInv'
    BY DEF MainInv, Up
  <2>3. PollInv'
    BY DEF PollInv
  <2>4. ServerInv'
    BY DEF ServerInv, Alive, OneServer, BootIsPinned
  <2>5. ExitInv'
    BY DEF ExitInv, NoFalseExit
  <2>6. QED
    BY <2>1, <2>2, <2>3, <2>4, <2>5
<1>9. CASE PollUnconfirmed
  <2> USE <1>9 DEF PollUnconfirmed
  <2>1. SupervisorTypeOK'
    BY DEF SupervisorTypeOK
  <2>2. MainInv'
    BY DEF MainInv, Up
  <2>3. PollInv'
    BY DEF PollInv
  <2>4. ServerInv'
    BY DEF ServerInv, Alive, OneServer, BootIsPinned
  <2>5. ExitInv'
    BY DEF ExitInv, NoFalseExit
  <2>6. QED
    BY <2>1, <2>2, <2>3, <2>4, <2>5
<1>10. QED
  BY <1>1, <1>2, <1>3, <1>4, <1>5, <1>6, <1>7, <1>8, <1>9

\* the children
LEMMA ChildKeeps ==
  ASSUME SupervisorInv, NEW p \in Pids,
         Boot(p) \/ Drain(p) \/ ChildCrash(p)
  PROVE  ProcessInv'
<1> USE Typed DEF ProcessInv, SupervisorInv, childVars, countVars, resolveVars,
   registryVars, remoteVars, fileVars, Running, Unlocked, Forget, Resolve
<1>1. CASE Boot(p)
  <2> USE <1>1 DEF Boot
  <2>0. \/ Die(p)
        \/ /\ pointer \in Versions /\ artifact[pointer] \in Versions
           /\ child' = [child EXCEPT ![p] = "serving"]
           /\ label' = [label EXCEPT ![p] = pointer]
           /\ loaded' = [loaded EXCEPT ![p] = artifact[pointer]]
           /\ UNCHANGED told
    BY Typed
  <2>1. SupervisorTypeOK'
    <3>1. CASE Die(p)
      BY <3>1 DEF SupervisorTypeOK, Die
    <3>2. CASE ~Die(p)
      BY <2>0, <3>2 DEF SupervisorTypeOK
    <3>3. QED
      BY <3>1, <3>2
  <2>2. MainInv'
    BY DEF MainInv
  <2>3. PollInv'
    BY DEF PollInv, Alive, Die
  <2>4. ServerInv'
    <3>1. CASE Die(p)
      BY <3>1 DEF SupervisorTypeOK, MainInv, PollInv, ServerInv, Up, Alive, OneServer,
         BootIsPinned, Die
    <3>2. CASE ~Die(p)
      <4>1. pointer \in Compatible \cap crowned
        BY <2>0, <3>2 DEF RegistryInv, FilesInv, ActiveRefIsVerified
      <4>2. QED
        BY <2>0, <3>2, <4>1 DEF SupervisorTypeOK, MainInv, PollInv, ServerInv, Up,
           Alive, OneServer, BootIsPinned
    <3>3. QED
      BY <3>1, <3>2
  <2>5. ExitInv'
    BY DEF SupervisorTypeOK, MainInv, ExitInv, Up, NoFalseExit, Die
  <2>6. QED
    BY <2>1, <2>2, <2>3, <2>4, <2>5
<1>2. CASE Drain(p)
  <2> USE <1>2 DEF Drain
  <2>1. SupervisorTypeOK'
    BY DEF SupervisorTypeOK, Die
  <2>2. MainInv'
    BY DEF MainInv
  <2>3. PollInv'
    BY DEF PollInv, Die
  <2>4. ServerInv'
    BY DEF SupervisorTypeOK, ServerInv, Alive, OneServer, BootIsPinned, Die
  <2>5. ExitInv'
    BY DEF ExitInv, NoFalseExit, Die
  <2>6. QED
    BY <2>1, <2>2, <2>3, <2>4, <2>5
<1>3. CASE ChildCrash(p)
  <2> USE <1>3 DEF ChildCrash
  <2>1. SupervisorTypeOK'
    BY DEF SupervisorTypeOK, Die
  <2>2. MainInv'
    BY DEF MainInv
  <2>3. PollInv'
    BY DEF PollInv, Die
  <2>4. ServerInv'
    BY DEF SupervisorTypeOK, ServerInv, Alive, OneServer, BootIsPinned, Die
  <2>5. ExitInv'
    BY DEF ExitInv, NoFalseExit, Die
  <2>6. QED
    BY <2>1, <2>2, <2>3, <2>4, <2>5
<1>4. QED
  BY <1>1, <1>2, <1>3

\* all of them together; a resolution under way is not one a restart works on
LEMMA SupervisorKeeps ==
  ASSUME SupervisorInv, [SupervisorNext]_allVars
  PROVE  SupervisorInv'
<1>1. CASE UNCHANGED allVars
  BY <1>1 DEF allVars, registryVars, supervisorVars, SupervisorInv, RegistryInv,
     RegistryTypeOK, RefInv, FilesInv, Verified, ActiveRefIsVerified, SupervisorTypeOK,
     MainInv, PollInv, ServerInv, ExitInv, Up, OneServer, BootIsPinned, NoFalseExit,
     Alive
<1>2. CASE SupervisorNext
  <2>1. RegistryInv' /\ crowned \subseteq crowned'
    BY <1>2, StepsOfTheRegistry, RegistryKeeps DEF SupervisorInv
  <2>2. ASSUME MainStep \/ Signal \/ PowerLoss PROVE ProcessInv'
    BY <2>2, MainKeeps DEF MainStep
  <2>3. ASSUME PollStep \/ PollSpawnFails PROVE ProcessInv'
    BY <2>3, PollKeeps DEF PollStep
  <2>4. ASSUME \E p \in Pids : Boot(p) \/ Drain(p) \/ ChildCrash(p) PROVE ProcessInv'
    BY <2>4, ChildKeeps
  <2>5. ASSUME ResolveStep, UNCHANGED supervisorVars PROVE ProcessInv'
    <3>1. step # "done"
      BY <2>5, ResolveKeeps DEF SupervisorInv
    <3>2. QED
      BY <2>1, <2>5, <3>1 DEF supervisorVars, SupervisorInv, ProcessInv,
         SupervisorTypeOK, MainInv, PollInv, ServerInv, ExitInv, Up, OneServer,
         BootIsPinned, NoFalseExit, Alive
  <2>6. ASSUME RemoteStep, UNCHANGED supervisorVars PROVE ProcessInv'
    <3>1. UNCHANGED <<step, ref, pointer>>
      BY <2>6, RemoteKeeps DEF SupervisorInv, resolveVars, fileVars
    <3>2. QED
      BY <2>1, <2>6, <3>1 DEF supervisorVars, SupervisorInv, ProcessInv,
         SupervisorTypeOK, MainInv, PollInv, ServerInv, ExitInv, Up, OneServer,
         BootIsPinned, NoFalseExit, Alive
  <2>7. ProcessInv'
    BY <1>2, <2>2, <2>3, <2>4, <2>5, <2>6 DEF SupervisorNext
  <2>8. QED
    BY <2>1, <2>7 DEF SupervisorInv, ProcessInv
<1>3. QED
  BY <1>1, <1>2

\* the invariant that the theorems below are parts of
LEMMA SupervisorInvariant == SupervisorSpec => []SupervisorInv
  BY SupervisorInitially, SupervisorKeeps, PTL DEF SupervisorSpec

(***************************************************************************)
(* supervisor.py, _ChildHolder: while the poll thread waits for a restart  *)
(* to be confirmed, a child that answers /model_info answers with the      *)
(* version it waits for.                                                   *)
(***************************************************************************)
THEOREM RestartServesItsRef == SupervisorSpec => []BootIsPinned
<1>1. SupervisorInv => BootIsPinned
  BY DEF SupervisorInv, ServerInv
<1>2. QED
  BY <1>1, SupervisorInvariant, PTL

(***************************************************************************)
(* supervisor.py, _restart under holder.lock: at most one server is up,    *)
(* and it is the one the holder names.                                     *)
(***************************************************************************)
THEOREM ServersNeverOverlap == SupervisorSpec => []OneServer
<1>1. SupervisorInv => OneServer
  BY DEF SupervisorInv, ServerInv
<1>2. QED
  BY <1>1, SupervisorInvariant, PTL

(***************************************************************************)
(* supervisor.py, serve(): whenever the signal comes, even in the middle   *)
(* of a restart, an exited supervisor leaves no server running.            *)
(***************************************************************************)
THEOREM ExitLeavesNoServer == SupervisorSpec => []NoOrphan
<1>1. SupervisorInv => NoOrphan
  BY DEF SupervisorInv, ServerInv, NoOrphan, Up
<1>2. QED
  BY <1>1, SupervisorInvariant, PTL

(***************************************************************************)
(* supervisor.py, serve()'s loop: a child the poll thread replaced does    *)
(* not make main shut down.                                                *)
(***************************************************************************)
THEOREM RestartIsNoCrash == SupervisorSpec => []NoFalseExit
<1>1. SupervisorInv => NoFalseExit
  BY DEF SupervisorInv, ExitInv
<1>2. QED
  BY <1>1, SupervisorInvariant, PTL

------------------------------------------------------------------------------
\* The refinement

Clients == Abstract!rolloutVars
RolloutStep == [Abstract!RolloutNext]_Clients

\* the answering child, when there is one, is the only one
LEMMA AnswerIsItsLabel ==
  ASSUME OneServer, NEW p \in Pids, child[p] = "serving"
  PROVE  ServedVersion = label[p]
<1>1. Answering = {p}
  BY DEF Answering, OneServer, Alive
<1>2. QED
  BY <1>1 DEF ServedVersion

\* the server that answers is not touched
LEMMA QuietStep ==
  ASSUME UNCHANGED crowned,
         \A p \in Pids : child'[p] = "serving" <=> child[p] = "serving",
         \A p \in Pids : child[p] = "serving" => label'[p] = label[p]
  PROVE  RolloutStep
<1>1. Answering' = Answering
  BY DEF Answering
<1>2. CASE Answering = {}
  BY <1>1, <1>2 DEF ServedVersion, RolloutStep, Clients, Abstract!rolloutVars
<1>3. CASE Answering # {}
  <2>1. (CHOOSE p \in Answering : TRUE) \in Answering
    BY <1>3
  <2>2. label'[CHOOSE p \in Answering : TRUE] = label[CHOOSE p \in Answering : TRUE]
    BY <2>1 DEF Answering
  <2>3. ServedVersion' = ServedVersion
    BY <1>1, <1>3, <2>2 DEF ServedVersion
  <2>4. QED
    BY <2>3 DEF RolloutStep, Clients, Abstract!rolloutVars
<1>4. QED
  BY <1>2, <1>3

\* the server that answers, if any, ends
LEMMA EndingStep ==
  ASSUME UNCHANGED crowned, \A p \in Pids : child'[p] # "serving"
  PROVE  RolloutStep
<1>1. ServedVersion' = NoVersion
  BY DEF ServedVersion, Answering
<1>2. QED
  BY <1>1 DEF RolloutStep, Clients, Abstract!rolloutVars, Abstract!RolloutNext,
     Abstract!Stop

LEMMA DyingStep ==
  ASSUME SupervisorInv, UNCHANGED crowned, NEW p \in Pids, Die(p)
  PROVE  RolloutStep
<1>1. /\ child'[p] = "dead"
      /\ \A q \in Pids \ {p} : child'[q] = child[q] /\ label'[q] = label[q]
  BY DEF Die, SupervisorInv, SupervisorTypeOK
<1>2. CASE child[p] = "serving"
  <2>1. \A q \in Pids : child'[q] # "serving"
    BY <1>1, <1>2 DEF SupervisorInv, ServerInv, OneServer, Alive
  <2>2. QED
    BY <2>1, EndingStep
<1>3. CASE child[p] # "serving"
  BY <1>1, <1>3, QuietStep
<1>4. QED
  BY <1>2, <1>3

LEMMA BootingStep ==
  ASSUME SupervisorInv, SupervisorInv', NEW p \in Pids, Boot(p)
  PROVE  RolloutStep
<1>0. UNCHANGED crowned
  BY DEF Boot, registryVars
<1>1. CASE Die(p)
  BY <1>0, <1>1, DyingStep
<1>2. CASE ~Die(p)
  <2>1. /\ child[p] = "booting" /\ child' = [child EXCEPT ![p] = "serving"]
        /\ label' = [label EXCEPT ![p] = pointer] /\ pointer # NoVersion
    BY <1>2 DEF Boot
  <2>2. child'[p] = "serving" /\ label'[p] = pointer
    BY <2>1 DEF SupervisorInv, SupervisorTypeOK
  <2>3. ServedVersion = NoVersion
    BY <2>1 DEF ServedVersion, Answering, SupervisorInv, ServerInv, OneServer, Alive
  <2>4. ServedVersion' = pointer
    <3>1. Answering' = {p}
      BY <2>2 DEF Answering, SupervisorInv, ServerInv, OneServer, Alive
    <3>2. QED
      BY <2>2, <3>1 DEF ServedVersion
  <2>5. pointer \in crowned \cap Compatible /\ pointer \in Versions
    BY <2>1, Typed DEF SupervisorInv, RegistryInv, FilesInv, ActiveRefIsVerified
  <2>6. Abstract!Serve(pointer)
    BY <1>0, <2>3, <2>4, <2>5 DEF Abstract!Serve
  <2>7. QED
    BY <2>5, <2>6 DEF RolloutStep, Abstract!RolloutNext
<1>3. QED
  BY <1>1, <1>2

LEMMA StepsOfRollout ==
  ASSUME SupervisorInv, SupervisorInv', [SupervisorNext]_allVars
  PROVE  RolloutStep
<1> USE DEF registryVars, remoteVars, childVars, countVars
<1>1. CASE UNCHANGED allVars
  BY <1>1, QuietStep DEF allVars, supervisorVars
<1>2. CASE RemoteStep /\ UNCHANGED supervisorVars
  <2>1. ServedVersion' = ServedVersion
    BY <1>2 DEF supervisorVars, ServedVersion, Answering
  <2>2. UNCHANGED crowned \/ \E v \in Versions : crowned' = crowned \cup {v}
    BY <1>2 DEF RemoteStep, Promote, Publish, Alias
  <2>3. QED
    BY <2>1, <2>2 DEF RolloutStep, Clients, Abstract!rolloutVars, Abstract!RolloutNext,
       Abstract!Crown
<1>3. CASE ResolveStep /\ UNCHANGED supervisorVars
  BY <1>3, ResolveKeeps, QuietStep DEF supervisorVars, SupervisorInv
<1>4. CASE BootSpawn \/ PollSpawn
  <2>1. UNCHANGED crowned
    BY <1>4 DEF BootSpawn, PollSpawn
  <2>2. UNCHANGED childVars \/ \E p \in Pids : Spawn(p)
    BY <1>4 DEF BootSpawn, PollSpawn
  <2>3. ASSUME NEW p \in Pids, Spawn(p)
        PROVE  /\ UNCHANGED label
               /\ \A q \in Pids : child'[q] = "serving" <=> child[q] = "serving"
    BY <2>3 DEF Spawn, SupervisorInv, SupervisorTypeOK
  <2>4. QED
    BY <2>1, <2>2, <2>3, QuietStep
<1>5. CASE PollDrainTimeout
  <2>1. holder \in Pids
    BY <1>5 DEF PollDrainTimeout, SupervisorInv, MainInv
  <2>2. QED
    BY <1>5, <2>1, DyingStep DEF PollDrainTimeout
<1>6. CASE MainExit
  <2>1. waited \in Pids
    BY <1>6 DEF MainExit, SupervisorInv, MainInv, Up
  <2>2. QED
    BY <1>6, <2>1, DyingStep DEF MainExit
<1>7. CASE \E p \in Pids : Boot(p) \/ Drain(p) \/ ChildCrash(p)
  <2>1. PICK p \in Pids : Boot(p) \/ Drain(p) \/ ChildCrash(p)
    BY <1>7
  <2>2. CASE Boot(p)
    BY <2>2, BootingStep
  <2>3. CASE Drain(p) \/ ChildCrash(p)
    BY <2>3, DyingStep DEF Drain, ChildCrash
  <2>4. QED
    BY <2>1, <2>2, <2>3
<1>8. CASE PowerLoss
  <2>1. UNCHANGED crowned /\ \A p \in Pids : child'[p] # "serving"
    BY <1>8 DEF PowerLoss, Alive
  <2>2. QED
    BY <2>1, EndingStep
<1>9. CASE \/ Start \/ BootFails \/ BootNotify \/ MainWait \/ MainWoken
           \/ MainCheck \/ MainFinal \/ Forward \/ Signal
  <2>1. UNCHANGED <<crowned, child, label>>
    BY <1>9 DEF Start, BootFails, BootNotify, MainWait, MainWoken, MainCheck, MainFinal,
       Forward, Signal
  <2>2. QED
    BY <2>1, QuietStep
<1>10. CASE \/ PollTick \/ PollUnchanged \/ PollRestart \/ PollDrained \/ PollSpawnFails
            \/ PollConfirm \/ PollUnconfirmed
  <2>1. UNCHANGED <<crowned, child, label>>
    BY <1>10 DEF PollTick, PollUnchanged, PollRestart, PollDrained, PollSpawnFails,
       PollConfirm, PollUnconfirmed
  <2>2. QED
    BY <2>1, QuietStep
<1>11. QED
  BY <1>1, <1>2, <1>3, <1>4, <1>5, <1>6, <1>7, <1>8, <1>9, <1>10 DEF SupervisorNext,
     MainStep, PollStep

(***************************************************************************)
(* supervisor.py implements Rollout: whatever fails, crashes or is         *)
(* promoted meanwhile, clients see one compatible former or present        *)
(* champion from the start of a server to its end, and a gap before the    *)
(* next one.                                                               *)
(***************************************************************************)
THEOREM SupervisorImplementsRollout == SupervisorSpec => ImplementsRollout
<1>1. SupervisorInit => Abstract!RolloutInit
  BY DEF SupervisorInit, RegistryInit, Abstract!RolloutInit, ServedVersion, Answering
<1>2. SupervisorInv /\ SupervisorInv' /\ [SupervisorNext]_allVars
        => [Abstract!RolloutNext]_Clients
  BY StepsOfRollout DEF RolloutStep
<1>3. QED
  BY <1>1, <1>2, SupervisorInvariant, PTL DEF SupervisorSpec, ImplementsRollout,
     Abstract!RolloutSpec, Clients
==============================================================================
