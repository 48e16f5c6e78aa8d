-------------------------------- MODULE MCMq --------------------------------
(* Instances of Mq for TLC: clients are interchangeable.                     *)
EXTENDS Mq, TLC

ClientSymmetry == Permutations(Clients)
=============================================================================
