---------------------------- MODULE OnlineState ------------------------------
(***************************************************************************)
(* The online account state as a whole: live requests (Scorer) and         *)
(* Pathway's repair (StateRepair) write the same Redis documents through   *)
(* the same CAS script, interleaved at every step, while keys expire.      *)
(***************************************************************************)
EXTENDS Scorer, StateRepair

onlineVars == <<redis, scorerVars, repairVars>>

OnlineTypeOK == StoreTypeOK /\ ScorerTypeOK /\ RepairTypeOK

OnlineInit == ScorerInit /\ RepairInit

OnlineNext ==
  \/ (\E t \in Threads : ThreadStep(t)) /\ UNCHANGED repairVars
  \/ RepairStep /\ UNCHANGED scorerVars
  \/ \E a \in Accounts : Expire(a) /\ RepairExpire(a)

OnlineSpec == OnlineInit /\ [][OnlineNext]_onlineVars
------------------------------------------------------------------------------

(***************************************************************************)
(* A repair is effective whatever the live requests do: once the observer  *)
(* has handled an account's newest emission, Redis holds a document at     *)
(* least as recent as the staged fold until the key is lost.               *)
(***************************************************************************)
RepairIsEffective == \A a \in Accounts :
  repaired[a] => /\ acc[a] # NoState /\ redis[a] # NoState
                 /\ redis[a].updated >= acc[a].updated

(***************************************************************************)
(* The mirror and the accumulators never hold what only a live request     *)
(* knows: the mirror is the fold of staged rows, so it carries no score.   *)
(***************************************************************************)
MirrorIsStagedOnly == \A a \in Accounts :
  mirror[a] # NoState => /\ Coherent(mirror[a])
                         /\ mirror[a].anchor \in Rows
                         /\ mirror[a].score = NoScore

(***************************************************************************)
(* Claimed by redis_sink.py: Pathway "can restore state Redis lost but     *)
(* never overwrite state a live request just wrote".  Read as weakly as    *)
(* possible: a repair whose clock is no later than that of a document a    *)
(* live request wrote (it carries a score) does not replace it.            *)
(***************************************************************************)
RepairNeverOverwritesLive ==
  [][\A a \in Accounts :
       /\ ApplyRedis(a)
       /\ redis[a] # NoState /\ redis[a].score # NoScore
       /\ Head(toRedis[a]).updated <= redis[a].updated
       => redis'[a] = redis[a]]_onlineVars
==============================================================================
