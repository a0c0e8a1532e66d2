-------------------------- MODULE MCParallelCarve --------------------------
(* Small carve phases for TLC. *)
EXTENDS ParallelCarve, TLC

CONSTANTS w1, w2

TwoWorkers == {w1, w2}
ThreeRanges == <<1, 2, 1>>
TwoRanges == <<1, 2>>

\* One file closes in its own chunk, one is open at the end of the first range,
\* one runs from the first chunk of the second range into its last, one begins
\* in that chunk and is open at the end; nothing closes in <<2, 1>> or <<3, 2>>.
ThreeOpens == (<<1, 1>> :> 1) @@ (<<1, 2>> :> 1) @@ (<<2, 1>> :> 0) @@ (<<2, 2>> :> 1)
              @@ (<<2, 3>> :> 2) @@ (<<3, 1>> :> 1) @@ (<<3, 2>> :> 0)
BothModes == {"parallel", "sequential"}
ParallelOnly == {"parallel"}
============================================================================
