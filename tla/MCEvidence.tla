----------------------------- MODULE MCEvidence -----------------------------
(***************************************************************************)
(* What an acquisition leaves behind, the log and the image, side by side: *)
(* a behaviour is one of the one or of the other, and the other's          *)
(* variables stay as they are.                                             *)
(***************************************************************************)
EXTENDS AuditLog, MCRawImaging

VARIABLE subject

Alone(s, A, others) == subject = s /\ A /\ UNCHANGED <<others, subject>>

----------------------------------------------------------------------------
EvidenceInit ==
    /\ subject \in {"log", "image"}
    /\ IF subject = "image" THEN source \in Sources ELSE source = One
    /\ AuditInit /\ ImagingInit

EvidenceNext == Alone("log", AuditNext, imagingVars) \/ Alone("image", ImagingNext, auditVars)

EvidenceSpec ==
    /\ EvidenceInit /\ [][EvidenceNext]_<<auditVars, imagingVars, subject>>
    /\ WF_auditVars(Alone("log", ProcessQueue \/ WorkerSleeps \/ WorkerExits, imagingVars))
    /\ WF_auditVars(Alone("log", FlushPending \/ Flushed, imagingVars))
    /\ WF_auditVars(Alone("log", StopWorker, imagingVars))
    /\ WF_auditVars(Alone("log", JoinWorker, imagingVars))
=============================================================================
