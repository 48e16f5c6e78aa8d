---------------------------- MODULE MCReactorMgr ----------------------------
(* An instance of ReactorMgr for TLC: reactors, ids and Stop RPCs are        *)
(* interchangeable.                                                          *)
EXTENDS ReactorMgr, TLC

RegistrySymmetry ==
    Permutations(Reactors) \cup Permutations(Ids) \cup Permutations(Stoppers)
=============================================================================
