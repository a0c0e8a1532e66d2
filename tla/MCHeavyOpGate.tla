--------------------------- MODULE MCHeavyOpGate ---------------------------
(* Small sessions of the heavy-operation gate for TLC. *)
EXTENDS HeavyOpGate

CONSTANTS wipe, hexSearch

OneAsync == {wipe}
TwoAsync == {wipe, hexSearch}
OrderlyOps == {"scan", "search", "async"}
GateSessions == {OrderlyOps, {"scan", "lateReject", "image"}, {"search", "stopSearch", "async"}}
ImagingSession == {{"scan", "image", "async"}}
============================================================================
