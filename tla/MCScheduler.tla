---------------------------- MODULE MCScheduler ----------------------------
(***************************************************************************)
(* Scheduler with small entries.  Replicas: two vLLM replicas of a model,  *)
(* either of which fills a group, and a llama.cpp model pinned to the      *)
(* first of two groups.  Apart: two models that want a whole group each.   *)
(***************************************************************************)
EXTENDS Scheduler, TLC

CONSTANTS a1, a2, b, l1, l2

ReplicasModelOf == a1 :> "a" @@ a2 :> "a" @@ b :> "b"
ReplicasTotal == <<2, 2>>
ReplicasFull == [e \in Entries |-> 2]
ReplicasWeights == [e \in Entries |-> 1]
ReplicasAllocation == [e \in Entries |-> IF e = b THEN 1 ELSE 0]
ReplicasPin == [e \in Entries |-> IF e = b THEN 1 ELSE 0]

ApartModelOf == a1 :> "a" @@ b :> "b"
ApartTotal == <<2, 3>>
ApartAllocation == [e \in Entries |-> 2]
ApartPin == [e \in Entries |-> 0]
=============================================================================
