------------------------------ MODULE MCShell ------------------------------
(***************************************************************************)
(* Recovery and Desktop side by side: a behaviour is one of the one or of  *)
(* the other, and the other's variables stay as they are.                  *)
(***************************************************************************)
EXTENDS Recovery, Desktop

VARIABLE subject

----------------------------------------------------------------------------
Run(n) == [length |-> n, hole |-> FALSE, bad |-> {}]
Bad(n, b) == [length |-> n, hole |-> FALSE, bad |-> b]
Hole(n) == [length |-> n, hole |-> TRUE, bad |-> {}]

File(source, name, size, runs) ==
    [form |-> "runs", source |-> source, name |-> name, size |-> size, deleted |-> TRUE,
     runs |-> runs, checked |-> FALSE, sound |-> TRUE, repairable |-> FALSE]

\* A compressed file, with what its first runs inflate to
Packed(name, size, deleted, runs, inflated) ==
    [form |-> "compressed", source |-> "ntfs", name |-> name, size |-> size, deleted |-> deleted,
     runs |-> runs, checked |-> FALSE, sound |-> TRUE, repairable |-> FALSE,
     inflates |-> [k \in 0..Len(runs) |-> IF k = 0 THEN 0 ELSE inflated[k]]]

MCRecords ==
    <<File("ntfs", "a", 10, <<Run(4), Run(4)>>),           \* four fifths are left
      File("ntfs", "b", 10, <<Run(6), Hole(2), Run(1)>>),  \* nine tenths are left
      File("carver", "b", 4, <<Run(1), Bad(3, {2})>>),
      [File("carver", "c", 2, <<Run(2)>>) EXCEPT !.checked = TRUE, !.sound = FALSE, !.repairable = TRUE],
      Packed("c", 4, FALSE, <<Run(1), Hole(1), Run(1), Hole(1)>>, <<2, 2, 4, 4>>),  \* one half
      Packed("b", 4, TRUE, <<Run(2), Bad(1, {0}), Hole(1)>>, <<3, 4, 4>>),
      [File("ntfs", "d", 1, <<Run(1)>>) EXCEPT !.form = "resident", !.deleted = FALSE]>>

MCRequests ==
    <<[batch |-> TRUE, ids |-> <<1, 7>>], [batch |-> TRUE, ids |-> <<2, 3, 6>>],
      [batch |-> TRUE, ids |-> <<4, 5>>]>>

MCExisting == {<<"a", 0>>, <<"b", 0>>, <<"c", 0, "repaired", 0>>}

----------------------------------------------------------------------------
MCInit == RecoveryInit /\ DesktopInit /\ subject \in {"recovery", "desktop"}

MCNext ==
    \/ subject = "recovery" /\ RecoveryNext /\ UNCHANGED <<desktopVars, subject>>
    \/ subject = "desktop" /\ DesktopNext /\ UNCHANGED <<recoveryVars, subject>>

MCSpec ==
    /\ MCInit /\ [][MCNext]_<<recoveryVars, desktopVars, subject>>
    /\ WF_desktopVars(subject = "desktop" /\ ScanComplete /\ UNCHANGED <<recoveryVars, subject>>)
    /\ WF_desktopVars(subject = "desktop" /\ SleepFallback /\ UNCHANGED <<recoveryVars, subject>>)
=============================================================================
