---------------------------- MODULE MCRawImaging ----------------------------
(* Five-sector sources for TLC: windows at sectors 1, 3 and 5. *)
EXTENDS RawImaging

One       == <<1, 1, 1, 1, 1>>
OtherHead == <<2, 1, 1, 1, 1>>
OtherMid  == <<1, 2, 2, 2, 1>>   \* told apart by the middle window alone
Twin      == <<1, 2, 1, 2, 1>>   \* beyond the ceiling: the windows of One

MCSources == {One, OtherHead, OtherMid, Twin}
OneSource == {One}
AnyFailure == {"open", "write", "sidecar", "remove", "rename"}
=============================================================================
