---------------------------- MODULE MCSourceMux ----------------------------
(* Instances of SourceMux for TLC. *)
EXTENDS SourceMux

CONSTANTS a, b

TwoSources == {a, b}
BothMuxes  == MuxNames
AllFaults  == {"error", "unclean"}
=============================================================================
