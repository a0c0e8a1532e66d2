------------------------------ MODULE AuditLog ------------------------------
(***************************************************************************)
(* The forensic audit log (forensic/audit_logger.cpp): a queue drained by  *)
(* one thread, critical events that bypass it, the hash chain they all     *)
(* extend, the file that outlives the process, and the verifier of the     *)
(* file.  One process at a time appends to the file; it may exit through   *)
(* Shutdown or die at any point, also in the middle of a line.             *)
(*                                                                         *)
(* Events are numbered in the order of their calls.  SHA-256 is taken to   *)
(* be injective: the hash of a chain is the sequence of its messages.      *)
(***************************************************************************)
EXTENDS Naturals, Sequences

CONSTANTS
    NSessions,   \* bound: processes that open the log, one after the other
    NEvents      \* bound: events logged by all of them

ASSUME AuditAssumption == NSessions \in Nat /\ NEvents \in Nat

VARIABLES
    phase,         \* of the process: "down", "running", then Shutdown's steps
    session,       \* processes so far
    opened,        \* logFile_.is_open()
    previousHash, logQueue, stopThread,
    worker,        \* ProcessQueue: "run", asleep on cv_ ("wait"), or "exited"
    file,          \* the lines on disk
    logged         \* what was logged: an observation, not state of the code

process == <<phase, session, opened>>
auditVars == <<process, previousHash, logQueue, stopThread, worker, file, logged>>

Events == 1..NEvents
(***************************************************************************)
(* A line of the file: the messages it holds, "msg" (more than one when a  *)
(* torn line was continued), its "hash", whether the hash is "cut",        *)
(* whether a newline "ended" it, and the session it was written "by".      *)
(***************************************************************************)

AuditInit ==
    /\ phase = "down" /\ session = 0 /\ opened = FALSE
    /\ previousHash = <<>> /\ logQueue = <<>> /\ stopThread = FALSE /\ worker = "exited"
    /\ file = <<>> /\ logged = <<>>

NextEvent == Len(logged) + 1
Logged(isCritical) ==
    /\ NextEvent \in Events
    /\ logged' = Append(logged, [critical |-> isCritical, open |-> opened,
                                 late |-> stopThread, by |-> session])

\* The mutex is free: FlushPending holds it while it drains.
Unlocked == phase # "flushing"
Up == phase # "down"

(***************************************************************************)
(* The text of an entry reaches the file.  Text after an unended line      *)
(* continues it.                                                           *)
(***************************************************************************)
Unended == file # <<>> /\ ~file[Len(file)].ended
Text(e, isCut, isEnded) ==
    [msg |-> IF Unended THEN Append(file[Len(file)].msg, e) ELSE <<e>>,
     hash |-> IF isCut THEN <<>> ELSE Append(previousHash, e),
     cut |-> isCut, ended |-> isEnded, by |-> session]
Written(line) == IF Unended THEN [file EXCEPT ![Len(file)] = line] ELSE Append(file, line)

\* Mutant: the chain does not advance.
WriteEntryUnchained(e) ==
    /\ file' = IF opened THEN Written(Text(e, FALSE, TRUE)) ELSE file
    /\ UNCHANGED previousHash

\* WriteEntryLocked: a logger whose file is not open still advances the chain.
WriteEntry(e) ==
    /\ file' = IF opened THEN Written(Text(e, FALSE, TRUE)) ELSE file
    /\ previousHash' = Append(previousHash, e)

----------------------------------------------------------------------------
\* A process starts: the constructor, Initialize and the SESSION_START event
\* of InitDatabase.  The file may fail to open.
StartSession ==
    /\ phase = "down" /\ session < NSessions /\ NextEvent \in Events
    /\ phase' = "running" /\ session' = session + 1 /\ opened' \in BOOLEAN
    /\ previousHash' = <<>> /\ stopThread' = FALSE /\ worker' = "run"
    /\ logQueue' = <<NextEvent>>
    /\ logged' = Append(logged, [critical |-> FALSE, open |-> opened',
                                 late |-> FALSE, by |-> session'])
    /\ UNCHANGED file

Woken == IF worker = "wait" THEN "run" ELSE worker

\* LogEvent, LogEventFromBridge and LogDiskRead of an ordinary event
LogEvent ==
    /\ Up /\ Unlocked /\ Logged(FALSE)
    /\ logQueue' = Append(logQueue, NextEvent) /\ worker' = Woken
    /\ UNCHANGED <<process, previousHash, stopThread, file>>

\* A critical event (RECOVER*, WIPE*, BITLOCKER*, FILE_RECOVERED) is on disk
\* when the call returns.
LogCritical ==
    /\ Up /\ Unlocked /\ Logged(TRUE)
    /\ WriteEntry(NextEvent)
    /\ UNCHANGED <<process, logQueue, stopThread, worker>>

ProcessQueue ==
    /\ Up /\ Unlocked /\ worker = "run" /\ logQueue # <<>>
    /\ WriteEntry(Head(logQueue)) /\ logQueue' = Tail(logQueue)
    /\ UNCHANGED <<process, stopThread, worker, logged>>

WorkerSleeps ==
    /\ Up /\ Unlocked /\ worker = "run" /\ logQueue = <<>> /\ ~stopThread
    /\ worker' = "wait"
    /\ UNCHANGED <<process, previousHash, logQueue, stopThread, file, logged>>

\* Mutant: the worker leaves its queue behind.
WorkerExitsAtOnce ==
    /\ Up /\ Unlocked /\ worker = "run" /\ stopThread
    /\ worker' = "exited"
    /\ UNCHANGED <<process, previousHash, logQueue, stopThread, file, logged>>

WorkerExits ==
    /\ Up /\ Unlocked /\ worker = "run" /\ logQueue = <<>> /\ stopThread
    /\ worker' = "exited"
    /\ UNCHANGED <<process, previousHash, logQueue, stopThread, file, logged>>

----------------------------------------------------------------------------
(* Shutdown, from the destructor at exit                                   *)

Shutdown ==
    /\ phase = "running" /\ phase' = "flushing"
    /\ UNCHANGED <<session, opened, previousHash, logQueue, stopThread, worker, file, logged>>

FlushPending ==
    /\ phase = "flushing" /\ logQueue # <<>>
    /\ WriteEntry(Head(logQueue)) /\ logQueue' = Tail(logQueue)
    /\ UNCHANGED <<process, stopThread, worker, logged>>

Flushed ==
    /\ phase = "flushing" /\ logQueue = <<>> /\ phase' = "flushed"
    /\ UNCHANGED <<session, opened, previousHash, logQueue, stopThread, worker, file, logged>>

\* Mutant: the sleeping worker is not told.
StopWorkerSilently ==
    /\ phase = "flushed" /\ phase' = "stopping" /\ stopThread' = TRUE
    /\ UNCHANGED <<session, opened, previousHash, logQueue, worker, file, logged>>

StopWorker ==
    /\ phase = "flushed" /\ phase' = "stopping"
    /\ stopThread' = TRUE /\ worker' = Woken
    /\ UNCHANGED <<session, opened, previousHash, logQueue, file, logged>>

JoinWorker ==
    /\ phase = "stopping" /\ worker = "exited"
    /\ phase' = "ended" /\ opened' = FALSE
    /\ UNCHANGED <<session, previousHash, logQueue, stopThread, worker, file, logged>>

----------------------------------------------------------------------------
\* The process is gone, after Shutdown or without it.
ProcessDies ==
    /\ Up /\ phase' = "down" /\ opened' = FALSE
    /\ UNCHANGED <<session, previousHash, logQueue, stopThread, worker, file, logged>>

\* It dies while one entry is half written: the message, the hash or only the
\* newline is missing.
DiesWriting ==
    /\ Up /\ opened
    /\ \E isCut \in BOOLEAN :
         \/ /\ logQueue # <<>> /\ (worker = "run" \/ phase = "flushing")
            /\ file' = Written(Text(Head(logQueue), isCut, FALSE))
         \/ /\ NextEvent \in Events /\ Unlocked        \* a critical event
            /\ file' = Written(Text(NextEvent, isCut, FALSE))
    /\ phase' = "down" /\ opened' = FALSE
    /\ UNCHANGED <<session, previousHash, logQueue, stopThread, worker, logged>>

\* No process left to start.
Over == phase = "down" /\ UNCHANGED auditVars

AuditNext ==
    \/ StartSession \/ LogEvent \/ LogCritical
    \/ ProcessQueue \/ WorkerSleeps \/ WorkerExits
    \/ Shutdown \/ FlushPending \/ Flushed \/ StopWorker \/ JoinWorker
    \/ ProcessDies \/ DiesWriting \/ Over

\* The threads of a process that lives are scheduled.
AuditSpec ==
    /\ AuditInit /\ [][AuditNext]_auditVars
    /\ WF_auditVars(ProcessQueue \/ WorkerSleeps \/ WorkerExits)
    /\ WF_auditVars(FlushPending \/ Flushed) /\ WF_auditVars(StopWorker) /\ WF_auditVars(JoinWorker)

----------------------------------------------------------------------------
(* VerifyAuditChainFile                                                    *)

Verified(i) ==
    LET prev == IF i = 1 THEN <<>> ELSE file[i - 1].hash
    IN  /\ ~file[i].cut
        /\ Len(file[i].msg) = 1 /\ file[i].hash = prev \o file[i].msg

\* The first line that does not verify; a cut one at the very end is a torn
\* tail, anything else is broken.  0 when the chain holds.
brokenAt ==
    LET bad == {i \in DOMAIN file : ~Verified(i)}
        first == CHOOSE i \in bad : \A j \in bad : i <= j
    IN  IF bad = {} \/ (first = Len(file) /\ file[first].cut) THEN 0 ELSE first

(* Properties                                                              *)

Holds(i, e) == ~file[i].cut /\ file[i].msg[Len(file[i].msg)] = e

\* Within a session the file is one chain: whoever writes, each line extends
\* the line before it.
OneChainPerSession ==
    \A i \in DOMAIN file :
      ~file[i].cut =>
        LET own == i > 1 /\ file[i - 1].by = file[i].by
        IN  file[i].hash = Append(IF own THEN file[i - 1].hash ELSE <<>>,
                                  file[i].msg[Len(file[i].msg)])

\* audit_logger.h CA-028: a critical event whose call returned is on disk,
\* whatever happens to the process next.
CriticalIsDurable ==
    \A e \in DOMAIN logged :
      logged[e].critical /\ logged[e].open => \E i \in DOMAIN file : Holds(i, e)

\* No event is written twice, and ordinary events keep the order of their calls.
InOrderOnce ==
    \A i, j \in DOMAIN file : \A d, e \in Events :
      i < j /\ Holds(i, d) /\ Holds(j, e) =>
        /\ d # e
        /\ d \in DOMAIN logged /\ e \in DOMAIN logged
           /\ ~logged[d].critical /\ ~logged[e].critical => d < e

\* What a session leaves in the file, whoever wrote it, the worker or the callers
\* of critical events (writeEntry): one chain that has every event at most once
\* and ordinary ones in order.
SessionIsOneLog == OneChainPerSession /\ InOrderOnce

\* After a clean Shutdown every event logged before the worker was stopped is
\* in the file.
ShutdownKeepsAll ==
    phase = "ended" =>
      \A e \in DOMAIN logged :
        logged[e].by = session /\ logged[e].open /\ ~logged[e].late
          => \E i \in DOMAIN file : Holds(i, e)

\* Every event whose line is promised, to its caller or to whoever ended the
\* session, has one, through deaths, restarts and the worker's last drain.
PromisedIsKept == CriticalIsDurable /\ ShutdownKeepsAll

\* Shutdown returns: the worker is woken and exits.
ShutdownEnds == phase = "flushing" ~> phase \in {"ended", "down"}

\* audit_logger.h:107-109: the chain is tamper-evident and VerifyAuditChainFile
\* makes that machine-checkable.  Nobody tampers here, so a log without torn
\* lines verifies.
ChainVerifies ==
    (\A i \in DOMAIN file : Len(file[i].msg) = 1 /\ file[i].ended) => brokenAt = 0
============================================================================
