------------------------------- MODULE Rollout -------------------------------
(***************************************************************************)
(* What the model contract and the supervisor promise the clients of the   *)
(* scorer, without saying how: the alias names a champion, one server at   *)
(* most answers, it answers for one version from its start to its end, and *)
(* that version is a compatible one that has been champion.                *)
(***************************************************************************)
CONSTANTS
  Versions,     \* model versions that are ever registered
  Compatible,   \* those whose feature schema is the scorer's
  Down          \* no server answers

ASSUME RolloutAssumption == Compatible \subseteq Versions /\ Down \notin Versions

VARIABLES
  crowned,   \* versions the alias has named
  serving    \* the version /model_info reports, or Down

rolloutVars == <<crowned, serving>>

RolloutTypeOK ==
  /\ crowned \in SUBSET Versions
  /\ serving \in Versions \cup {Down}

RolloutInit == crowned = {} /\ serving = Down

Crown(v) == crowned' = crowned \cup {v} /\ UNCHANGED serving

Serve(v) ==
  /\ serving = Down
  /\ v \in crowned \cap Compatible
  /\ serving' = v
  /\ UNCHANGED crowned

Stop == serving # Down /\ serving' = Down /\ UNCHANGED crowned

RolloutNext == Stop \/ \E v \in Versions : Crown(v) \/ Serve(v)

RolloutSpec == RolloutInit /\ [][RolloutNext]_rolloutVars
==============================================================================
