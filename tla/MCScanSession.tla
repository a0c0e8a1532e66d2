--------------------------- MODULE MCScanSession ---------------------------
(* Scans of two metadata records and three carve positions for TLC. *)
EXTENDS ScanSession

AllKinds == {"quick", "deep", "carve_only"}
CarveOnly == {"carve_only"}
TwoRanges == {1, 3}
=============================================================================
