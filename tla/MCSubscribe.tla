---------------------------- MODULE MCSubscribe ----------------------------
(* Instances of Subscribe for TLC.                                           *)
EXTENDS Subscribe, TLC
=============================================================================
