-------------------------- MODULE MCFeaturePipeline --------------------------
(* Instances of FeaturePipeline for model checking.                        *)
EXTENDS FeaturePipeline, TLC

CONSTANTS pod1, pod2, p1, p2, e1, e2

(* Two partitions, every kind of message, a duplicate.                     *)
MixedLog == (p1 :> <<e1, "invalid", e1>>) @@ (p2 :> <<"undecodable", e2>>)

(* Tombstones and events the store refuses.                                *)
RefusedLog == (p1 :> <<e1, "empty", e1>>) @@ (p2 :> <<e2>>)

(* Faults under which no handler outlives its assignment or reads through  *)
(* a closed Redis client.                                                  *)
FencedFaults == FaultKinds \ {"zombie", "redis_closed"}
Symmetry == Permutations(Pods)
=============================================================================
