----------------------------- MODULE SerialDisk -----------------------------
(***************************************************************************)
(* What the gate of the bridge promises to the operations of a session:    *)
(* they use a disk one after the other, and none of them for ever.         *)
(***************************************************************************)
CONSTANT Operations

VARIABLE using    \* the operations that are using a disk

Init == using = {}

Take(o)  == using = {} /\ using' = {o}
Leave(o) == using = {o} /\ using' = {}

Next == \E o \in Operations : Take(o) \/ Leave(o)

Spec == Init /\ [][Next]_using

\* Stated of the states, so that it is the same of any state function that is
\* put in the place of using.
EachEnds == \A o \in Operations : o \in using ~> o \notin using
=============================================================================
