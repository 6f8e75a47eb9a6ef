--------------------------- MODULE MCSegmentStore ---------------------------
(* Instances of SegmentStore for TLC. *)
EXTENDS SegmentStore, TLC

CONSTANTS s1, s2

TwoSegments   == {s1, s2}
Symmetry      == Permutations(TwoSegments)
AllTools      == ToolNames
=============================================================================
