--------------------------- MODULE MCActorRuntime ---------------------------
(* The runtime with interchangeable client threads. *)
EXTENDS ActorRuntime, TLC

MCSymmetry == Permutations(Clients)
=============================================================================
