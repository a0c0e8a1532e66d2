---------------------------- MODULE HeavyOpGate ----------------------------
(***************************************************************************)
(* The gate of the native bridge that lets one disk operation run at a     *)
(* time: BridgeData::heavyOps, taken by scans, imaging, content searches   *)
(* and the async workers (wipe, physical wipe, hex search, lost-partition  *)
(* search), and the contexts through which each operation gives it back.   *)
(*                                                                         *)
(* Three kinds of thread touch this state.  The JavaScript thread runs one *)
(* NAPI handler or one queued callback at a time and may block in a join.  *)
(* A scan, imaging or search thread runs beside it and reports back by     *)
(* posting on a thread-safe function; the imaging thread also gives the    *)
(* gate back by itself.  An async worker settles on the JavaScript thread. *)
(*                                                                         *)
(* requestStop only makes a thread end sooner, and a thread here may end   *)
(* at any point of its run, so StopScan and StopImaging leave no trace in  *)
(* this module.                                                            *)
(***************************************************************************)
EXTENDS Naturals, Sequences

CONSTANTS
    Sessions,    \* the sessions considered, each a set of kinds of request
    Async,       \* the promise-returning workers that can be in flight
    NScans,      \* bound: scans started in a session
    NImages,     \* bound: imaging runs started in a session
    NSearches,   \* bound: content searches started in a session
    ScanTicks,   \* bound: progress events one scan posts
    Matches,     \* bound: match and progress events one search posts
    QueueCap     \* capacity of a thread-safe function's queue (4096)

AllOps == {"scan",        \* StartScan
           "lateReject",  \* StartScan refused after its context is published
           "image",       \* StartImaging
           "search",      \* StartContentSearch
           "stopSearch",  \* StopContentSearch
           "async"}       \* StartWipe, StartPhysicalWipe, SearchHex, ...

ASSUME SessionsAssumption == Sessions \subseteq SUBSET AllOps
ASSUME BoundsAssumption ==
    /\ NScans \in Nat /\ NImages \in Nat /\ NSearches \in Nat
    /\ ScanTicks \in Nat /\ Matches \in Nat /\ QueueCap \in Nat \ {0}

Scans    == 1..NScans
Images   == 1..NImages
Searches == 1..NSearches

VARIABLES
    session,      \* the kinds of request this session makes
    heavyOps,     \* BridgeData::heavyOps
    js,           \* the JavaScript thread: "idle", or the handler that is joining
    scanContext,  \* generation of the published ScanContext, 0 when null
    scanGen,      \* the last generation handed out
    scanThread,   \* scan thread of each generation
    scanQueue,    \* what each scan posted and JavaScript has not handled
    scanTicks,    \* progress events each scan posted
    imagerContext,  \* the published ImagerContext, 0 when null
    imageGen, imageThread,
    searchContext,  \* the published ContentSearchContext, 0 when null
    holdsHeavyOp,   \* its holdsHeavyOp flag
    searchGen, searchThread, searchQueue, searchPosts,
    asyncWorker

gateVars   == <<session, heavyOps, js>>
scanVars   == <<scanContext, scanGen, scanThread, scanQueue, scanTicks>>
imageVars  == <<imagerContext, imageGen, imageThread>>
searchVars == <<searchContext, holdsHeavyOp, searchGen, searchThread,
                searchQueue, searchPosts>>
vars == <<gateVars, scanVars, imageVars, searchVars, asyncWorker>>

GateType ==
    /\ session \in Sessions
    /\ heavyOps \in {0, 1}
    /\ js \in {"idle", "joinScan", "joinImage", "joinSearch"}

ScanType ==
    /\ scanContext \in 0..NScans /\ scanGen \in 0..NScans
    /\ scanThread \in [Scans -> {"none", "running", "done"}]
    /\ scanQueue \in [Scans -> Seq({"progress", "complete"})]
    /\ scanTicks \in [Scans -> 0..ScanTicks]

ImageType ==
    /\ imagerContext \in 0..NImages /\ imageGen \in 0..NImages
    /\ imageThread \in [Images -> {"none", "reading", "closing", "done"}]

SearchType ==
    /\ searchContext \in 0..NSearches /\ searchGen \in 0..NSearches
    /\ searchThread \in [Searches -> {"none", "running", "done"}]
    /\ searchQueue \in [Searches -> Seq({"match", "complete"})]
    /\ searchPosts \in [Searches -> 0..Matches]

TypeOK ==
    /\ GateType /\ ScanType /\ ImageType /\ SearchType
    /\ holdsHeavyOp \in BOOLEAN
    /\ asyncWorker \in [Async -> {"idle", "running", "settling"}]

Init ==
    /\ session \in Sessions
    /\ heavyOps = 0 /\ js = "idle"
    /\ scanContext = 0 /\ scanGen = 0
    /\ scanThread = [g \in Scans |-> "none"]
    /\ scanQueue = [g \in Scans |-> <<>>]
    /\ scanTicks = [g \in Scans |-> 0]
    /\ imagerContext = 0 /\ imageGen = 0
    /\ imageThread = [i \in Images |-> "none"]
    /\ searchContext = 0 /\ searchGen = 0 /\ holdsHeavyOp = FALSE
    /\ searchThread = [c \in Searches |-> "none"]
    /\ searchQueue = [c \in Searches |-> <<>>]
    /\ searchPosts = [c \in Searches |-> 0]
    /\ asyncWorker = [a \in Async |-> "idle"]

(***************************************************************************)
(* The counter.  Only JavaScript begins an operation and any thread ends   *)
(* one: between the fetch_add and the fetch_sub of a refused begin, an end *)
(* on another thread changes neither the answer nor the final count, so    *)
(* the pair is one step.  End never takes the counter below zero.          *)
(***************************************************************************)
\* Mutant: the gate admits a second operation.
CanBeginTwo(h) == h <= 1

CanBegin(h) == h = 0
End(h) == IF h > 0 THEN h - 1 ELSE h

----------------------------------------------------------------------------
(* Scan                                                                    *)

\* The part of StartScan after an earlier scan, if any, is torn down: h is
\* the counter it then finds.
ScanRefused(h) ==
    /\ heavyOps' = h /\ scanContext' = 0
    /\ UNCHANGED <<scanGen, scanThread, scanQueue, scanTicks>>

ScanStarted(h) ==
    /\ CanBegin(h) /\ scanGen < NScans
    /\ heavyOps' = h + 1
    /\ scanGen' = scanGen + 1 /\ scanContext' = scanGen + 1
    /\ scanThread' = [scanThread EXCEPT ![scanGen + 1] = "running"]
    /\ UNCHANGED <<scanQueue, scanTicks>>

\* No RAID array, bad image or drive path, SSD without acknowledgement, or
\* setScanRunning failed: the gate is given back, the context stays.
ScanRejectedLate(h) ==
    /\ "lateReject" \in session
    /\ CanBegin(h) /\ scanGen < NScans
    /\ heavyOps' = h
    /\ scanGen' = scanGen + 1 /\ scanContext' = scanGen + 1
    /\ UNCHANGED <<scanThread, scanQueue, scanTicks>>

ScanProceeds(h) ==
    /\ \/ ScanRefused(h)
       \/ ScanStarted(h)
       \/ ScanRejectedLate(h)
    /\ js' = "idle"
    /\ UNCHANGED <<session, imageVars, searchVars, asyncWorker>>

StartScan ==
    /\ "scan" \in session /\ js = "idle" /\ scanContext = 0
    /\ ScanProceeds(heavyOps)

\* A published context is stopped first; stopScan joins its thread.
RestartScan ==
    /\ "scan" \in session /\ js = "idle" /\ scanContext # 0
    /\ js' = "joinScan"
    /\ UNCHANGED <<session, heavyOps, scanVars, imageVars, searchVars, asyncWorker>>

RestartScanJoined ==
    /\ js = "joinScan" /\ scanThread[scanContext] # "running"
    /\ ScanProceeds(End(heavyOps))

\* A progress event is dropped when the queue is full.
ScanTick(g) ==
    /\ scanThread[g] = "running" /\ scanTicks[g] < ScanTicks
    /\ scanTicks' = [scanTicks EXCEPT ![g] = @ + 1]
    /\ scanQueue' = IF Len(scanQueue[g]) < QueueCap
                    THEN [scanQueue EXCEPT ![g] = Append(@, "progress")]
                    ELSE scanQueue
    /\ UNCHANGED <<gateVars, scanContext, scanGen, scanThread, imageVars,
                   searchVars, asyncWorker>>

\* The completion is never dropped: the thread blocks until there is room.
ScanFinished(g) ==
    /\ scanThread[g] = "running" /\ Len(scanQueue[g]) < QueueCap
    /\ scanQueue' = [scanQueue EXCEPT ![g] = Append(@, "complete")]
    /\ scanThread' = [scanThread EXCEPT ![g] = "done"]
    /\ UNCHANGED <<gateVars, scanContext, scanGen, scanTicks, imageVars,
                   searchVars, asyncWorker>>

\* Mutant: a completion tears down whatever scan is published.
TearsDownAny(g) == scanContext # 0 /\ g \in Scans

\* teardownScanOnJs, as a function of the generation it is called for
TearsDown(g) == scanContext = g

HandleScanProgress(g) ==
    /\ js = "idle" /\ scanQueue[g] # <<>> /\ Head(scanQueue[g]) = "progress"
    /\ scanQueue' = [scanQueue EXCEPT ![g] = Tail(@)]
    /\ UNCHANGED <<gateVars, scanContext, scanGen, scanThread, scanTicks,
                   imageVars, searchVars, asyncWorker>>

\* Mutant: the gate is given back and the context stays published.
HandleScanCompleteKeeping(g) ==
    /\ js = "idle" /\ scanQueue[g] # <<>> /\ Head(scanQueue[g]) = "complete"
    /\ scanQueue' = [scanQueue EXCEPT ![g] = Tail(@)]
    /\ heavyOps' = IF TearsDown(g) THEN End(heavyOps) ELSE heavyOps
    /\ UNCHANGED <<session, js, scanContext, scanGen, scanThread, scanTicks,
                   imageVars, searchVars, asyncWorker>>

HandleScanComplete(g) ==
    /\ js = "idle" /\ scanQueue[g] # <<>> /\ Head(scanQueue[g]) = "complete"
    /\ scanQueue' = [scanQueue EXCEPT ![g] = Tail(@)]
    /\ IF TearsDown(g)
       THEN scanContext' = 0 /\ heavyOps' = End(heavyOps)
       ELSE UNCHANGED <<scanContext, heavyOps>>
    /\ UNCHANGED <<session, js, scanGen, scanThread, scanTicks, imageVars, searchVars,
                   asyncWorker>>

----------------------------------------------------------------------------
(* Imaging                                                                 *)

ImageProceeds(h) ==
    /\ js' = "idle"
    /\ \/ /\ heavyOps' = h /\ imagerContext' = 0      \* busy, or arguments refused
          /\ UNCHANGED <<imageGen, imageThread>>
       \/ /\ CanBegin(h) /\ imageGen < NImages
          /\ heavyOps' = h + 1
          /\ imageGen' = imageGen + 1 /\ imagerContext' = imageGen + 1
          /\ imageThread' = [imageThread EXCEPT ![imageGen + 1] = "reading"]
    /\ UNCHANGED <<session, scanVars, searchVars, asyncWorker>>

StartImaging ==
    /\ "image" \in session /\ js = "idle" /\ imagerContext = 0
    /\ ImageProceeds(heavyOps)

\* The context of an earlier run is still published, finished or not.
RestartImaging ==
    /\ "image" \in session /\ js = "idle" /\ imagerContext # 0
    /\ js' = "joinImage"
    /\ UNCHANGED <<session, heavyOps, scanVars, imageVars, searchVars, asyncWorker>>

RestartImagingJoined ==
    /\ js = "joinImage" /\ imageThread[imagerContext] = "done"
    /\ ImageProceeds(End(heavyOps))

\* Every tick with current >= total ends the operation.  The failure tick
\* (0,0) and the tick of a stopped run are the only one of their run ...
ImagingEndsEarly(i) ==
    /\ imageThread[i] = "reading"
    /\ imageThread' = [imageThread EXCEPT ![i] = "done"]
    /\ heavyOps' = End(heavyOps)
    /\ UNCHANGED <<session, js, scanVars, imagerContext, imageGen, searchVars, asyncWorker>>

\* ... a run that reads to the end ticks for its last chunk ...
ImagingReadsLastChunk(i) ==
    /\ imageThread[i] = "reading"
    /\ imageThread' = [imageThread EXCEPT ![i] = "closing"]
    /\ heavyOps' = End(heavyOps)
    /\ UNCHANGED <<session, js, scanVars, imagerContext, imageGen, searchVars, asyncWorker>>

\* ... and once more when the image is closed, well or badly.
ImagingCloses(i) ==
    /\ imageThread[i] = "closing"
    /\ imageThread' = [imageThread EXCEPT ![i] = "done"]
    /\ heavyOps' = End(heavyOps)
    /\ UNCHANGED <<session, js, scanVars, imagerContext, imageGen, searchVars, asyncWorker>>

----------------------------------------------------------------------------
(* Content search                                                          *)

SearchProceeds(h) ==
    /\ js' = "idle"
    /\ \/ /\ heavyOps' = h /\ searchContext' = 0 /\ holdsHeavyOp' = FALSE
          /\ UNCHANGED <<searchGen, searchThread>>
       \/ /\ CanBegin(h) /\ searchGen < NSearches
          /\ heavyOps' = h + 1
          /\ searchGen' = searchGen + 1 /\ searchContext' = searchGen + 1
          /\ holdsHeavyOp' = TRUE
          /\ searchThread' = [searchThread EXCEPT ![searchGen + 1] = "running"]
    /\ UNCHANGED <<session, searchQueue, searchPosts, scanVars, imageVars,
                   asyncWorker>>

StartContentSearch ==
    /\ "search" \in session /\ js = "idle" /\ searchContext = 0
    /\ SearchProceeds(heavyOps)

RestartContentSearch ==
    /\ "search" \in session /\ js = "idle" /\ searchContext # 0
    /\ js' = "joinSearch"
    /\ UNCHANGED <<session, heavyOps, scanVars, imageVars, searchVars, asyncWorker>>

RestartContentSearchJoined ==
    /\ js = "joinSearch" /\ searchThread[searchContext] = "done"
    /\ SearchProceeds(IF holdsHeavyOp THEN End(heavyOps) ELSE heavyOps)

\* The gate is given back at once; the thread only hears requestStop.
StopContentSearch ==
    /\ "stopSearch" \in session /\ js = "idle" /\ searchContext # 0 /\ holdsHeavyOp
    /\ heavyOps' = End(heavyOps) /\ holdsHeavyOp' = FALSE
    /\ UNCHANGED <<session, js, searchContext, searchGen, searchThread, searchQueue,
                   searchPosts, scanVars, imageVars, asyncWorker>>

\* Every post of a search is dropped when the queue is full, the completion too.
Post(c, event) ==
    searchQueue' = IF Len(searchQueue[c]) < QueueCap
                   THEN [searchQueue EXCEPT ![c] = Append(@, event)]
                   ELSE searchQueue

SearchMatch(c) ==
    /\ searchThread[c] = "running" /\ searchPosts[c] < Matches
    /\ searchPosts' = [searchPosts EXCEPT ![c] = @ + 1]
    /\ Post(c, "match")
    /\ UNCHANGED <<gateVars, searchContext, holdsHeavyOp, searchGen,
                   searchThread, scanVars, imageVars, asyncWorker>>

SearchFinished(c) ==
    /\ searchThread[c] = "running"
    /\ searchThread' = [searchThread EXCEPT ![c] = "done"]
    /\ Post(c, "complete")
    /\ UNCHANGED <<gateVars, searchContext, holdsHeavyOp, searchGen,
                   searchPosts, scanVars, imageVars, asyncWorker>>

HandleSearchMatch(c) ==
    /\ js = "idle" /\ searchQueue[c] # <<>> /\ Head(searchQueue[c]) = "match"
    /\ searchQueue' = [searchQueue EXCEPT ![c] = Tail(@)]
    /\ UNCHANGED <<gateVars, searchContext, holdsHeavyOp, searchGen,
                   searchThread, searchPosts, scanVars, imageVars, asyncWorker>>

\* Mutant: a completion gives the gate back for whichever search is published.
HandleSearchCompleteAny(c) ==
    /\ js = "idle" /\ searchQueue[c] # <<>> /\ Head(searchQueue[c]) = "complete"
    /\ searchQueue' = [searchQueue EXCEPT ![c] = Tail(@)]
    /\ heavyOps' = IF holdsHeavyOp THEN End(heavyOps) ELSE heavyOps
    /\ holdsHeavyOp' = FALSE /\ searchContext' = 0
    /\ UNCHANGED <<session, js, searchGen, searchThread, searchPosts, scanVars,
                   imageVars, asyncWorker>>

HandleSearchComplete(c) ==
    /\ js = "idle" /\ searchQueue[c] # <<>> /\ Head(searchQueue[c]) = "complete"
    /\ searchQueue' = [searchQueue EXCEPT ![c] = Tail(@)]
    /\ IF searchContext = c
       THEN /\ heavyOps' = IF holdsHeavyOp THEN End(heavyOps) ELSE heavyOps
            /\ holdsHeavyOp' = FALSE /\ searchContext' = 0
       ELSE UNCHANGED <<heavyOps, holdsHeavyOp, searchContext>>
    /\ UNCHANGED <<session, js, searchGen, searchThread, searchPosts, scanVars,
                   imageVars, asyncWorker>>

----------------------------------------------------------------------------
(* Async workers                                                           *)

StartAsync(a) ==
    /\ "async" \in session /\ js = "idle" /\ asyncWorker[a] = "idle"
    /\ CanBegin(heavyOps)
    /\ heavyOps' = heavyOps + 1
    /\ asyncWorker' = [asyncWorker EXCEPT ![a] = "running"]
    /\ UNCHANGED <<session, js, scanVars, imageVars, searchVars>>

AsyncExecuted(a) ==
    /\ asyncWorker[a] = "running"
    /\ asyncWorker' = [asyncWorker EXCEPT ![a] = "settling"]
    /\ UNCHANGED <<gateVars, scanVars, imageVars, searchVars>>

\* OnOK or OnError, on the JavaScript thread
AsyncSettled(a) ==
    /\ js = "idle" /\ asyncWorker[a] = "settling"
    /\ asyncWorker' = [asyncWorker EXCEPT ![a] = "idle"]
    /\ heavyOps' = End(heavyOps)
    /\ UNCHANGED <<session, js, scanVars, imageVars, searchVars>>

----------------------------------------------------------------------------
\* The event loop with nothing to do: not a deadlock.
Idle == js = "idle" /\ UNCHANGED vars

ScanNext ==
    \/ StartScan \/ RestartScan \/ RestartScanJoined
    \/ \E g \in Scans : \/ ScanTick(g) \/ ScanFinished(g)
                        \/ HandleScanProgress(g) \/ HandleScanComplete(g)
ImageNext ==
    \/ StartImaging \/ RestartImaging \/ RestartImagingJoined
    \/ \E i \in Images : \/ ImagingEndsEarly(i) \/ ImagingReadsLastChunk(i)
                         \/ ImagingCloses(i)
SearchNext ==
    \/ StartContentSearch \/ RestartContentSearch \/ RestartContentSearchJoined
    \/ StopContentSearch
    \/ \E c \in Searches : \/ SearchMatch(c) \/ SearchFinished(c)
                           \/ HandleSearchMatch(c) \/ HandleSearchComplete(c)
AsyncNext ==
    \E a \in Async : StartAsync(a) \/ AsyncExecuted(a) \/ AsyncSettled(a)

Next == ScanNext \/ ImageNext \/ SearchNext \/ AsyncNext \/ Idle

(***************************************************************************)
(* A thread that was started comes to its end (it reads a finite disk, and *)
(* polls its stop flag), a join whose thread ended returns, and the event  *)
(* loop handles what was posted.  Nothing obliges a user to start anything.*)
(***************************************************************************)
Fairness ==
    /\ \A g \in Scans : WF_vars(ScanFinished(g))
    /\ \A g \in Scans : WF_vars(HandleScanProgress(g) \/ HandleScanComplete(g))
    /\ WF_vars(RestartScanJoined)
    /\ \A i \in Images : WF_vars(ImagingEndsEarly(i) \/ ImagingReadsLastChunk(i)
                                 \/ ImagingCloses(i))
    /\ WF_vars(RestartImagingJoined)
    /\ \A c \in Searches : WF_vars(SearchFinished(c))
    /\ \A c \in Searches : WF_vars(HandleSearchMatch(c) \/ HandleSearchComplete(c))
    /\ WF_vars(RestartContentSearchJoined)
    /\ \A a \in Async : WF_vars(AsyncExecuted(a)) /\ WF_vars(AsyncSettled(a))

Safety == Init /\ [][Next]_vars
Spec == Safety /\ Fairness

----------------------------------------------------------------------------
(* Properties                                                              *)

\* The operations that are using a disk right now
Reading ==
    {<<"scan", g>> : g \in {h \in Scans : scanThread[h] = "running"}}
    \cup {<<"image", i>> : i \in {j \in Images : imageThread[j] = "reading"}}
    \cup {<<"search", c>> : c \in {d \in Searches : searchThread[d] = "running"}}
    \cup {<<"async", a>> : a \in {b \in Async : asyncWorker[b] # "idle"}}

\* README.md:190-191: "Concurrent scan/image/wipe/content-search serialized
\* via heavyOps".  No two operations use a disk at the same time.
Exclusive == \A x, y \in Reading : x = y

\* A session of scans, content searches left to finish and async workers, in
\* which every scan passes its checks
Orderly == session \subseteq {"scan", "search", "async"}

\* In an orderly session no two operations use a disk at the same time.
OrderlyExclusive == Orderly => Exclusive

\* What closes the gate: a published scan, a search that still holds its
\* token, an async worker that has not settled.
Holders ==
    {<<"scan", g>> : g \in {h \in Scans : scanContext = h}}
    \cup {<<"search", c>> : c \in {d \in Searches : searchContext = d /\ holdsHeavyOp}}
    \cup {<<"async", a>> : a \in {b \in Async : asyncWorker[b] # "idle"}}

\* In an orderly session the gate is closed exactly while one operation holds it, and whoever uses
\* a disk is that holder: no token is lost, doubled or given back for another
\* operation, whatever the order of joins, restarts and late completions.
GateOwned ==
    Orderly =>
        /\ heavyOps = 1 <=> Holders # {}
        /\ \A x, y \in Holders : x = y
        /\ Reading \subseteq Holders

\* In an orderly session the bridge implements SerialDisk: an operation begins
\* to use a disk when nobody does and is the only one that does until it ends,
\* step by step, through every restart and late completion.  Other sessions are
\* mapped to a disk that nobody uses.
Disk == INSTANCE SerialDisk
        WITH Operations <- ({"scan"} \X Scans) \cup ({"search"} \X Searches) \cup ({"async"} \X Async),
             using <- IF Orderly THEN Reading ELSE {}
DiskIsSerial == Disk!Spec

\* A scan's context is dropped only when its thread has ended: a completion
\* that was queued before a restart never tears down the scan that replaced
\* its own (bridge_scan.cpp teardownScanOnJs).
NoLiveScanDropped ==
    [][scanContext # 0 /\ scanContext' # scanContext
         => scanThread[scanContext] # "running"]_vars

\* Every scan that runs is sooner or later taken off the gate, by its own
\* completion or by the scan that replaced it.
ScanLeavesGate ==
    \A g \in Scans : scanThread[g] = "running" ~> scanContext # g

\* In an orderly session every use of a disk ends; in any session a scan that
\* runs leaves the gate (the completions of bridge_scan.cpp and the workers').
EachUseEnds == Disk!EachEnds /\ ScanLeavesGate
============================================================================
