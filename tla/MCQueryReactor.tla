--------------------------- MODULE MCQueryReactor ---------------------------
(* Instances of QueryReactor for TLC: the gRPC threads are interchangeable.  *)
EXTENDS QueryReactor, TLC

CallbackSymmetry == Permutations(Callbacks)
=============================================================================
