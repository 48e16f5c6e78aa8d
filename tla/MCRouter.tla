------------------------------ MODULE MCRouter ------------------------------
(* An instance of Router for TLC: model ids are interchangeable.            *)
EXTENDS Router, TLC

ModelSymmetry == Permutations(Models)

\* No limit, every prompt too long, and a limit in between.
SmallThresholds == {-1, 0, 2}
=============================================================================
