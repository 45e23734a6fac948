----------------------------- MODULE StateStore ------------------------------
(***************************************************************************)
(* Redis as the online state store: one document per account, read with a  *)
(* GET, written only through monotonic_cas.lua, which Redis runs           *)
(* atomically.  The live scorer (RedisStateStore) and Pathway's repairer   *)
(* (RedisStateObserver) share this variable and this write.                *)
(***************************************************************************)
EXTENDS AccountFold

VARIABLE redis   \* redis[a]: the document under redis_state_key(a), or NoState

StoreTypeOK == redis \in [Accounts -> MaybeState]

StoreInit == redis = [a \in Accounts |-> NoState]

\* RedisStateStore.commit and RedisStateObserver.on_change
CommitState(a, new) ==
  redis' = [redis EXCEPT ![a] = MonotonicCas(@, new)]

\* the key's TTL runs out, it is evicted, or Redis restarts without it
LoseKey(a) ==
  /\ redis[a] # NoState
  /\ redis' = [redis EXCEPT ![a] = NoState]

(***************************************************************************)
(* An account never goes back in time: while its key lives, no write of    *)
(* any client replaces the document with one that was updated earlier      *)
(* (state_store.py: "a fresher updated_at_us already stored").             *)
(***************************************************************************)
NeverBackInTime ==
  [][\A a \in Accounts :
       redis[a] # NoState /\ redis'[a] # NoState
         => redis'[a].updated >= redis[a].updated]_redis
==============================================================================
