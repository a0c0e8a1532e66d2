------------------------------ MODULE Desktop ------------------------------
(***************************************************************************)
(* The Electron main process around the native engine: what it believes is *)
(* running (scanLive, imagingLive), when it lets the window close, and how *)
(* it stops the engine on close, quit, a signal or the machine's sleep.    *)
(*                                                                         *)
(* The native side is kept to what the main process sees of it: a scan or  *)
(* an image is running, was asked to stop, or ended, and what it posted    *)
(* waits in a queue.  Handlers and callbacks run one at a time, in any     *)
(* order that keeps the order of one queue.  Whether the engine's gate is  *)
(* free is the subject of HeavyOpGate: here it refuses or admits a request *)
(* at any time.                                                            *)
(***************************************************************************)
EXTENDS Integers, Sequences

CONSTANTS
    NScans,        \* bound: scans asked for
    NImages,       \* bound: images asked for
    NSleeps,       \* bound: times the machine goes to sleep
    Platforms,     \* TRUE where the application outlives its last window (darwin)
    DatabaseFails  \* whether createScan may fail and the scan start unnamed

ASSUME DesktopAssumption ==
    /\ NScans \in Nat /\ NImages \in Nat /\ NSleeps \in Nat
    /\ Platforms \subseteq BOOLEAN /\ DatabaseFails \in BOOLEAN

VARIABLES
    scanLive, imagingLive, activeScanToken, allowClose,  \* the main process
    darwin,        \* the platform of the behaviour
    window,        \* "open", "asking" or "closed"
    app,           \* "running" or "quit"
    sleeps,        \* times gone to sleep so far
    timers,        \* pending os_sleep_fallback timers
    scanContext,   \* token of the published native scan, 0 when null
    scans,         \* state of the native scan of each token
    completes,     \* tokens whose complete event is queued
    imaging,       \* the native image: "none", "running", "stopping"
    images,        \* images asked for so far
    ticks          \* imaging ticks queued, TRUE for one that ends a run

mainVars == <<scanLive, imagingLive, activeScanToken, allowClose>>
shellVars == <<darwin, window, app, sleeps, timers>>
scanVars == <<scanContext, scans, completes>>
imageVars == <<imaging, images, ticks>>
desktopVars == <<mainVars, shellVars, scanVars, imageVars>>

DesktopInit ==
    /\ scanLive = FALSE /\ imagingLive = FALSE /\ activeScanToken = 0 /\ allowClose = FALSE
    /\ darwin \in Platforms
    /\ window = "open" /\ app = "running" /\ sleeps = 0 /\ timers = 0
    /\ scanContext = 0 /\ scans = [t \in 1..NScans |-> "none"] /\ completes = <<>>
    /\ imaging = "none" /\ images = 0 /\ ticks = <<>>

NativeScanning == scanContext # 0 /\ scans[scanContext] \in {"running", "stopping"}

\* StopScan: the published scan, if any, is asked to stop.
StopScan(states) ==
    [t \in DOMAIN states |->
        IF t = scanContext /\ states[t] = "running" THEN "stopping" ELSE states[t]]

StopImaging(state) == IF state = "running" THEN "stopping" ELSE state

----------------------------------------------------------------------------
(* Scans                                                                   *)

\* What StartScan does first: the scan before it is stopped and joined, which
\* posts its complete event, and its context is torn down.
Joined == IF NativeScanning THEN [scans EXCEPT ![scanContext] = "ended"] ELSE scans
JoinedCompletes == IF NativeScanning THEN Append(completes, scanContext) ELSE completes

\* Mutant: the handler of the refusal leaves scanLive as it was.
LiveAfterRefusalKept == scanLive

LiveAfterRefusal == FALSE

\* start-scan: the token is taken before the native call; it may refuse, before
\* or behind the publication of the context, or begin.
StartScan ==
    /\ app = "running" /\ window = "open" /\ activeScanToken < NScans
    /\ activeScanToken' = activeScanToken + 1
    /\ completes' = JoinedCompletes
    /\ \/ scanContext' \in {0, activeScanToken'} /\ scans' = Joined /\ scanLive' = LiveAfterRefusal
       \/ /\ scanContext' = activeScanToken'
          /\ scans' = [Joined EXCEPT ![activeScanToken'] = "running"]
          /\ scanLive' \in {TRUE} \cup (IF DatabaseFails THEN {scanLive} ELSE {})
    /\ UNCHANGED <<imagingLive, allowClose, shellVars, imageVars>>

StopScanRequest ==
    /\ app = "running" /\ window = "open"
    /\ scans' = StopScan(scans)
    /\ UNCHANGED <<mainVars, shellVars, scanContext, completes, imageVars>>

\* The scan thread ends, by itself or because it was asked to.
ScanEnds ==
    /\ app = "running" /\ NativeScanning
    /\ scans' = [scans EXCEPT ![scanContext] = "ended"]
    /\ completes' = Append(completes, scanContext)
    /\ UNCHANGED <<mainVars, shellVars, scanContext, imageVars>>

\* Mutant: the events of a scan that was replaced are listened to.
ListensAlways(token) == TRUE

Listens(token) == token = activeScanToken

\* The complete event: the callback of its token, then the teardown.
ScanComplete ==
    /\ app = "running" /\ completes # <<>>
    /\ LET token == Head(completes)
       IN  /\ scanLive' = (scanLive /\ ~Listens(token))
           /\ scanContext' = IF token = scanContext THEN 0 ELSE scanContext
    /\ completes' = Tail(completes)
    /\ UNCHANGED <<imagingLive, activeScanToken, allowClose, shellVars, scans, imageVars>>

----------------------------------------------------------------------------
(* Imaging                                                                 *)

\* start-imaging: the image before it is stopped and joined.  Refused by the
\* native side it throws or returns false; both leave imagingLive false.
StartImaging ==
    /\ app = "running" /\ window = "open" /\ images < NImages
    /\ images' = images + 1
    /\ \/ imaging' = "none" /\ imagingLive' = FALSE
       \/ imaging' = "running" /\ imagingLive' = TRUE
    /\ UNCHANGED <<scanLive, activeScanToken, allowClose, shellVars, scanVars, ticks>>

\* A tick is queued: 0 of 0 when it fails, the last one when it is done; a run
\* that was asked to stop may end without one.
ImagingTick ==
    /\ app = "running" /\ imaging # "none" /\ Len(ticks) < 2
    /\ \/ ticks' = Append(ticks, FALSE) /\ UNCHANGED imaging
       \/ ticks' = Append(ticks, TRUE) /\ imaging' = "none"
       \/ imaging = "stopping" /\ imaging' = "none" /\ UNCHANGED ticks
    /\ UNCHANGED <<mainVars, shellVars, scanVars, images>>

ImagingProgress ==
    /\ app = "running" /\ ticks # <<>>
    /\ imagingLive' = (imagingLive /\ ~Head(ticks))
    /\ ticks' = Tail(ticks)
    /\ UNCHANGED <<scanLive, activeScanToken, allowClose, shellVars, scanVars, imaging, images>>

StopImagingRequest ==
    /\ app = "running" /\ window = "open"
    /\ imagingLive' = FALSE
    /\ imaging' = StopImaging(imaging)
    /\ UNCHANGED <<scanLive, activeScanToken, allowClose, shellVars, scanVars, images, ticks>>

----------------------------------------------------------------------------
(* Closing                                                                 *)

\* Both are stopped; imagingLive is left to its ticks.
StopAll ==
    /\ scans' = StopScan(scans) /\ imaging' = StopImaging(imaging)
    /\ scanLive' = FALSE

\* Mutant: nothing is stopped on the way out.
BeforeQuitPlain == UNCHANGED <<scanLive, scans, imaging>>

\* before-quit
BeforeQuit ==
    IF scanLive \/ imagingLive THEN StopAll ELSE UNCHANGED <<scanLive, scans, imaging>>

MayClose == allowClose \/ (~scanLive /\ ~imagingLive)

\* The window is closed, or the dialog opens; with the last window, but on
\* darwin, the application quits.
CloseWindow ==
    /\ app = "running" /\ window = "open"
    /\ \/ ~MayClose /\ window' = "asking" /\ UNCHANGED <<app, scanLive, scans, imaging>>
       \/ /\ MayClose /\ window' = "closed"
          /\ IF darwin THEN UNCHANGED <<app, scanLive, scans, imaging>>
             ELSE app' = "quit" /\ BeforeQuit
    /\ UNCHANGED <<imagingLive, activeScanToken, allowClose, darwin, sleeps, timers,
                   scanContext, completes, images, ticks>>

\* The application is asked to quit: before-quit comes first, then the window
\* is closed, which an image that was just stopped still holds up.
QuitRequest ==
    /\ app = "running" /\ window # "asking"
    /\ BeforeQuit
    /\ \/ window = "open" /\ imagingLive /\ ~allowClose /\ window' = "asking" /\ UNCHANGED app
       \/ (window = "closed" \/ ~imagingLive \/ allowClose) /\ window' = "closed" /\ app' = "quit"
    /\ UNCHANGED <<imagingLive, activeScanToken, allowClose, darwin, sleeps, timers,
                   scanContext, completes, images, ticks>>

\* The dialog: keep it, or stop and close.  allowClose stays.
AnswerKeep ==
    /\ app = "running" /\ window = "asking"
    /\ window' = "open"
    /\ UNCHANGED <<mainVars, darwin, app, sleeps, timers, scanVars, imageVars>>

AnswerStop ==
    /\ app = "running" /\ window = "asking"
    /\ StopAll
    /\ allowClose' = TRUE
    /\ window' = "closed"
    /\ app' = IF darwin THEN "running" ELSE "quit"
    /\ UNCHANGED <<imagingLive, activeScanToken, darwin, sleeps, timers,
                   scanContext, completes, images, ticks>>

\* activate (darwin): a new window, with the old allowClose
Activate ==
    /\ app = "running" /\ window = "closed"
    /\ window' = "open"
    /\ UNCHANGED <<mainVars, darwin, app, sleeps, timers, scanVars, imageVars>>

\* SIGINT and SIGTERM stop what runs; the process goes on.
Signal ==
    /\ app = "running" /\ (scanLive \/ imagingLive)
    /\ StopAll
    /\ UNCHANGED <<imagingLive, activeScanToken, allowClose, shellVars,
                   scanContext, completes, images, ticks>>

----------------------------------------------------------------------------
(* Sleep                                                                   *)

Suspend ==
    /\ app = "running" /\ scanLive /\ sleeps < NSleeps
    /\ sleeps' = sleeps + 1 /\ timers' = timers + 1
    /\ scans' = StopScan(scans)
    /\ UNCHANGED <<mainVars, darwin, window, app, scanContext, completes, imageVars>>

\* Mutant: the fallback does not ask whether the engine still scans.
SyncsAlways == scanLive

\* isScanActive is whether a context is published.
Syncs == scanLive /\ scanContext = 0

\* The timer of six seconds (once for each sleep) and the machine's waking
SleepFallback ==
    /\ app = "running" /\ timers > 0
    /\ timers' = timers - 1
    /\ scanLive' = (scanLive /\ ~Syncs)
    /\ UNCHANGED <<imagingLive, activeScanToken, allowClose, darwin, window, app, sleeps, scanVars, imageVars>>

Resume ==
    /\ app = "running" /\ sleeps > 0 /\ Syncs
    /\ scanLive' = FALSE
    /\ UNCHANGED <<imagingLive, activeScanToken, allowClose, shellVars, scanVars, imageVars>>

----------------------------------------------------------------------------
Shell ==
    \/ CloseWindow \/ QuitRequest \/ AnswerKeep \/ AnswerStop \/ Signal
    \/ Suspend \/ SleepFallback \/ Resume

DesktopNext ==
    \/ StartScan \/ StopScanRequest \/ ScanEnds \/ ScanComplete
    \/ StartImaging \/ ImagingTick \/ ImagingProgress \/ StopImagingRequest
    \/ Shell \/ Activate

DesktopFairness == WF_desktopVars(ScanComplete) /\ WF_desktopVars(SleepFallback)
DesktopSpec == DesktopInit /\ [][DesktopNext]_desktopVars /\ DesktopFairness

----------------------------------------------------------------------------
(* Properties                                                              *)

\* The main process never believes that nothing is scanned while a scan runs
\* that nobody asked to stop: its window would close, and the machine could
\* sleep, without a word (start-scan, its token, and the sleep handlers).
RunningScanIsLive == (NativeScanning /\ scans[scanContext] = "running") => scanLive

\* The application is never left with a scan that nobody asked to stop, nor
\* with an image while the main process knows of it (close, before-quit).
QuitStopsAll ==
    app = "quit" =>
        /\ \A t \in 1..NScans : scans[t] # "running"
        /\ imagingLive => imaging # "running"

\* When no scan runs and its last event was handled, scanLive does not stay:
\* the power save blocker would keep the machine awake for ever.
ScanLiveSettles == (scanLive /\ ~NativeScanning) ~> (~scanLive \/ NativeScanning \/ app = "quit")
=============================================================================
