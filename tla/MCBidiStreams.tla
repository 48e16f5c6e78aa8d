--------------------------- MODULE MCBidiStreams ---------------------------
(* Instances of BidiStreams for TLC.                                         *)
EXTENDS BidiStreams, TLC
=============================================================================
