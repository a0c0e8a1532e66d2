------------------------ MODULE HeavyOpGate_proofs ------------------------
(***************************************************************************)
(* Theorems of the heavy-operation gate, for every number of scans,        *)
(* searches, imaging runs and async workers and every queue capacity.      *)
(***************************************************************************)
EXTENDS HeavyOpGate, TLAPS

----------------------------------------------------------------------------
(* Types.  Each part of the state is disturbed by few actions; what a      *)
(* handler does once the gate is asked is a lemma for any counter h.       *)

\* Whatever StartScan does once the gate is asked at counter h keeps the types.
LEMMA ScanProceedsType ==
    ASSUME TypeOK, NEW h \in {0, 1}, ScanProceeds(h)
    PROVE  TypeOK'
<1> USE BoundsAssumption DEF TypeOK, GateType, ScanType, ImageType, SearchType, Scans,
                             ScanProceeds, imageVars, searchVars
<1>1. CASE ScanRefused(h)
  BY <1>1 DEF ScanRefused
<1>2. CASE ScanStarted(h)
  BY <1>2 DEF ScanStarted, CanBegin
<1>3. CASE ScanRejectedLate(h)
  BY <1>3 DEF ScanRejectedLate
<1> QED
  BY <1>1, <1>2, <1>3

\* The same of StartImaging.
LEMMA ImageProceedsType ==
    ASSUME TypeOK, NEW h \in {0, 1}, ImageProceeds(h)
    PROVE  TypeOK'
<1> USE BoundsAssumption DEF TypeOK
<1>1. GateType' /\ ImageType'
  BY DEF GateType, ImageType, Images, ImageProceeds, CanBegin
<1> QED
  BY <1>1 DEF ImageProceeds, scanVars, searchVars, ScanType, SearchType

\* The same of StartContentSearch.
LEMMA SearchProceedsType ==
    ASSUME TypeOK, NEW h \in {0, 1}, SearchProceeds(h)
    PROVE  TypeOK'
<1> USE BoundsAssumption DEF TypeOK
<1>1. GateType'
  BY DEF GateType, SearchProceeds, CanBegin
<1>3. SearchType'
  <2>1. /\ UNCHANGED <<searchQueue, searchPosts>>
        /\ \/ searchContext' = 0 /\ UNCHANGED <<searchGen, searchThread>>
           \/ /\ searchGen < NSearches
              /\ searchGen' = searchGen + 1 /\ searchContext' = searchGen + 1
              /\ searchThread' = [searchThread EXCEPT ![searchGen + 1] = "running"]
    BY Zenon DEF SearchProceeds
  <2>2. CASE searchContext' = 0 /\ UNCHANGED <<searchGen, searchThread>>
    BY <2>1, <2>2 DEF SearchType
  <2>3. CASE /\ searchGen < NSearches
             /\ searchGen' = searchGen + 1 /\ searchContext' = searchGen + 1
             /\ searchThread' = [searchThread EXCEPT ![searchGen + 1] = "running"]
    <3>1. searchGen + 1 \in Searches
      BY <2>3 DEF SearchType, Searches
    <3> QED
      BY <2>1, <2>3, <3>1 DEF SearchType, Searches
  <2> QED
    BY <2>1, <2>2, <2>3
<1>2. holdsHeavyOp' \in BOOLEAN
  BY DEF SearchProceeds
<1> QED
  BY <1>1, <1>2, <1>3 DEF SearchProceeds, scanVars, imageVars, ScanType, ImageType

\* A bridge that was just loaded is of its type.
LEMMA InitType == Init => TypeOK
<1> SUFFICES ASSUME Init PROVE TypeOK
  OBVIOUS
<1>1. GateType /\ ScanType
  BY BoundsAssumption DEF Init, GateType, ScanType
<1>2. ImageType /\ SearchType
  BY BoundsAssumption DEF Init, ImageType, SearchType
<1>3. holdsHeavyOp \in BOOLEAN /\ asyncWorker \in [Async -> {"idle", "running", "settling"}]
  BY DEF Init
<1> QED
  BY <1>1, <1>2, <1>3 DEF TypeOK

\* Every handler, callback and thread step keeps the types; one step per action.
LEMMA NextType == TypeOK /\ [Next]_vars => TypeOK'
<1> SUFFICES ASSUME TypeOK, [Next]_vars PROVE TypeOK'
  OBVIOUS
<1> USE DEF TypeOK
<1>0. CASE UNCHANGED vars
  BY <1>0 DEF vars, gateVars, scanVars, imageVars, searchVars,
              GateType, ScanType, ImageType, SearchType
<1>1. CASE StartScan
  BY <1>1, ScanProceedsType DEF StartScan, GateType
<1>2. CASE RestartScan \/ RestartImaging \/ RestartContentSearch
  BY <1>2 DEF RestartScan, RestartImaging, RestartContentSearch, scanVars, imageVars,
              searchVars, GateType, ScanType, ImageType, SearchType
<1>3. CASE RestartScanJoined
  BY <1>3, ScanProceedsType DEF RestartScanJoined, End, GateType
<1>4. ASSUME NEW g \in Scans,
             \/ ScanTick(g) \/ ScanFinished(g)
             \/ HandleScanProgress(g) \/ HandleScanComplete(g)
      PROVE  TypeOK'
  <2>1. GateType' /\ ScanType'
    <3> USE BoundsAssumption DEF GateType, ScanType, gateVars
    <3>1. CASE ScanTick(g)
      BY <3>1 DEF ScanTick
    <3>2. CASE ScanFinished(g)
      BY <3>2 DEF ScanFinished
    <3>3. CASE HandleScanProgress(g)
      BY <3>3 DEF HandleScanProgress
    <3>4. CASE HandleScanComplete(g)
      BY <3>4 DEF HandleScanComplete, TearsDown, End
    <3> QED
      BY <1>4, <3>1, <3>2, <3>3, <3>4
  <2>2. UNCHANGED <<imageVars, searchVars, asyncWorker>>
    BY <1>4 DEF ScanTick, ScanFinished, HandleScanProgress, HandleScanComplete
  <2> QED
    BY <2>1, <2>2 DEF imageVars, searchVars, ImageType, SearchType
<1>5. CASE StartImaging
  BY <1>5, ImageProceedsType DEF StartImaging, GateType
<1>6. CASE RestartImagingJoined
  BY <1>6, ImageProceedsType DEF RestartImagingJoined, End, GateType
<1>7. ASSUME NEW i \in Images,
             ImagingEndsEarly(i) \/ ImagingReadsLastChunk(i) \/ ImagingCloses(i)
      PROVE  TypeOK'
  <2>1. GateType' /\ ImageType'
    BY <1>7 DEF ImagingEndsEarly, ImagingReadsLastChunk, ImagingCloses, End,
                GateType, ImageType
  <2>2. UNCHANGED <<scanVars, searchVars, asyncWorker>>
    BY <1>7 DEF ImagingEndsEarly, ImagingReadsLastChunk, ImagingCloses
  <2> QED
    BY <2>1, <2>2 DEF scanVars, searchVars, ScanType, SearchType
<1>8. CASE StartContentSearch
  BY <1>8, SearchProceedsType DEF StartContentSearch, GateType
<1>9. CASE RestartContentSearchJoined
  BY <1>9, SearchProceedsType DEF RestartContentSearchJoined, End, GateType
<1>10. CASE StopContentSearch
  <2>1. GateType'
    BY <1>10 DEF StopContentSearch, End, GateType
  <2>2. holdsHeavyOp' \in BOOLEAN
    BY <1>10 DEF StopContentSearch
  <2> QED
    BY <1>10, <2>1, <2>2 DEF StopContentSearch, scanVars, imageVars,
                       ScanType, ImageType, SearchType
<1>11. ASSUME NEW c \in Searches,
              \/ SearchMatch(c) \/ SearchFinished(c)
              \/ HandleSearchMatch(c) \/ HandleSearchComplete(c)
       PROVE  TypeOK'
  <2>1. GateType'
    <3>1. CASE HandleSearchComplete(c)
      BY <3>1 DEF HandleSearchComplete, End, GateType
    <3>2. CASE SearchMatch(c) \/ SearchFinished(c) \/ HandleSearchMatch(c)
      BY <3>2 DEF SearchMatch, SearchFinished, HandleSearchMatch, GateType, gateVars
    <3> QED
      BY <1>11, <3>1, <3>2
  <2>2. SearchType'
    <3> USE BoundsAssumption DEF SearchType, Post
    <3>1. CASE SearchMatch(c)
      BY <3>1 DEF SearchMatch
    <3>2. CASE SearchFinished(c)
      BY <3>2 DEF SearchFinished
    <3>3. CASE HandleSearchMatch(c)
      BY <3>3 DEF HandleSearchMatch
    <3>4. CASE HandleSearchComplete(c)
      BY <3>4 DEF HandleSearchComplete
    <3> QED
      BY <1>11, <3>1, <3>2, <3>3, <3>4
  <2>3. holdsHeavyOp' \in BOOLEAN
    BY <1>11 DEF SearchMatch, SearchFinished, HandleSearchMatch, HandleSearchComplete
  <2>4. UNCHANGED <<scanVars, imageVars, asyncWorker>>
    BY <1>11 DEF SearchMatch, SearchFinished, HandleSearchMatch, HandleSearchComplete
  <2> QED
    BY <2>1, <2>2, <2>3, <2>4 DEF scanVars, imageVars, ScanType, ImageType
<1>12. ASSUME NEW a \in Async, StartAsync(a) \/ AsyncExecuted(a) \/ AsyncSettled(a)
       PROVE  TypeOK'
  <2>1. GateType' /\ asyncWorker' \in [Async -> {"idle", "running", "settling"}]
    BY <1>12 DEF StartAsync, AsyncExecuted, AsyncSettled, CanBegin, End,
                 gateVars, GateType
  <2>2. UNCHANGED <<scanVars, imageVars, searchVars>>
    BY <1>12 DEF StartAsync, AsyncExecuted, AsyncSettled
  <2> QED
    BY <2>1, <2>2 DEF scanVars, imageVars, searchVars, ScanType, ImageType, SearchType
<1> QED
  BY <1>0, <1>1, <1>2, <1>3, <1>4, <1>5, <1>6, <1>7, <1>8, <1>9, <1>10, <1>11, <1>12
     DEF Next, ScanNext, ImageNext, SearchNext, AsyncNext, Idle

\* The state of the bridge is always of its type; in particular the counter
\* is zero or one, however often an operation gives the gate back.
THEOREM TypeCorrect == Safety => []TypeOK
  BY InitType, NextType, PTL DEF Safety

\* A session never changes the kinds of request it makes.
LEMMA SessionFixed == [Next]_vars => session' = session
  BY DEF Next, ScanNext, ImageNext, SearchNext, AsyncNext, Idle, vars, gateVars,
     StartScan, RestartScan, RestartScanJoined, ScanProceeds, ScanTick, ScanFinished,
     HandleScanProgress, HandleScanComplete,
     StartImaging, RestartImaging, RestartImagingJoined, ImageProceeds,
     ImagingEndsEarly, ImagingReadsLastChunk, ImagingCloses,
     StartContentSearch, RestartContentSearch, RestartContentSearchJoined,
     SearchProceeds, StopContentSearch, SearchMatch, SearchFinished,
     HandleSearchMatch, HandleSearchComplete, StartAsync, AsyncExecuted, AsyncSettled

----------------------------------------------------------------------------
(* Who holds the gate.  The parts of the inductive invariant.              *)

\* A completion waits in the queue.
Completes(q) == \E n \in 1..Len(q) : q[n] = "complete"

\* Generations that were never handed out have no thread and no event; a
\* completion is queued only by a thread that ended; the only thread that can
\* be running is that of the published scan; a joining handler has a context.
ScanInv ==
    /\ scanContext <= scanGen
    /\ js = "joinScan" => scanContext # 0
    /\ \A g \in Scans :
          /\ g > scanGen => scanThread[g] = "none" /\ scanQueue[g] = <<>>
          /\ scanThread[g] = "running" => scanContext = g
          /\ Completes(scanQueue[g]) => scanThread[g] = "done"

SearchInv ==
    /\ searchContext <= searchGen
    /\ js = "joinSearch" => searchContext # 0
    /\ \A c \in Searches :
          /\ c > searchGen => searchThread[c] = "none" /\ searchQueue[c] = <<>>
          /\ searchThread[c] = "running" => searchContext = c
          /\ Completes(searchQueue[c]) => searchThread[c] = "done"

\* An orderly session images nothing and stops no search half way.
QuietInv ==
    /\ js # "joinImage" /\ imagerContext = 0
    /\ \A i \in Images : imageThread[i] = "none"
    /\ searchContext # 0 => holdsHeavyOp

\* The gate is closed exactly while a scan or a search is published or a
\* worker is busy, and never for two of them.
OwnerInv ==
    /\ heavyOps = 1 <=> \/ scanContext # 0 \/ searchContext # 0
                        \/ \E a \in Async : asyncWorker[a] # "idle"
    /\ scanContext # 0 => searchContext = 0
    /\ \A a \in Async : asyncWorker[a] # "idle" => scanContext = 0 /\ searchContext = 0
    /\ \A a, b \in Async :
          asyncWorker[a] # "idle" /\ asyncWorker[b] # "idle" => a = b

GateInv ==
    /\ TypeOK /\ ScanInv /\ SearchInv
    /\ Orderly => QuietInv /\ OwnerInv

\* Posting on a callback queue and taking its head keep it a queue, and create
\* no completion but the one posted.
LEMMA QueueFacts ==
    ASSUME NEW S, NEW q \in Seq(S)
    PROVE  /\ ~Completes(<<>>)
           /\ \A e \in S : Completes(Append(q, e)) => Completes(q) \/ e = "complete"
           /\ q # <<>> => /\ Completes(Tail(q)) => Completes(q)
                          /\ Head(q) = "complete" => Completes(q)
  BY DEF Completes

\* What a generation of the scan posted agrees with where its thread is.
LEMMA ScanInvStep ==
    ASSUME GateType, ScanType, ScanInv, [Next]_vars
    PROVE  ScanInv'
<1>a. scanGen \in Nat /\ scanContext \in Nat
  BY BoundsAssumption DEF ScanType
<1> USE <1>a, BoundsAssumption DEF ScanInv, Scans
\* Whatever leaves the scans alone and does not begin to join one
<1>0. ASSUME UNCHANGED scanVars, js' = "joinScan" => js = "joinScan"
      PROVE  ScanInv'
  BY <1>0 DEF scanVars
\* Whatever lets one scan's queue grow by a progress event, or shrink
<1>b. ASSUME NEW g \in Scans, g <= scanGen \/ scanQueue[g] # <<>>,
             scanQueue' = [scanQueue EXCEPT ![g] = scanQueue'[g]],
             Completes(scanQueue'[g]) => Completes(scanQueue[g]),
             UNCHANGED <<js, scanContext, scanGen, scanThread>>
      PROVE  ScanInv'
  <2>1. \A f \in Scans : f # g => scanQueue'[f] = scanQueue[f]
    BY <1>b DEF ScanType
  <2> QED
    BY <1>b, <2>1
<1>1. ASSUME NEW h \in {0, 1}, ScanProceeds(h),
             scanContext = 0 \/ scanThread[scanContext] # "running"
      PROVE  ScanInv'
  <2>1. js' # "joinScan" /\ \A g \in Scans : scanThread[g] # "running"
    BY <1>1 DEF ScanProceeds
  <2>2. CASE ScanRefused(h)
    BY <2>1, <2>2 DEF ScanRefused
  <2>3. CASE ScanStarted(h)
    <3>1. /\ scanGen + 1 \in Scans
          /\ scanGen' = scanGen + 1 /\ scanContext' = scanGen + 1
          /\ scanQueue' = scanQueue
      BY <2>3 DEF ScanStarted
    <3>2. \A g \in Scans : scanThread'[g] = IF g = scanGen + 1 THEN "running"
                                             ELSE scanThread[g]
      BY <2>3 DEF ScanStarted, ScanType
    <3>3. ~Completes(scanQueue[scanGen + 1])
      BY <3>1, QueueFacts
    <3> QED
      BY <2>1, <3>1, <3>2, <3>3
  <2>4. CASE ScanRejectedLate(h)
    BY <2>1, <2>4 DEF ScanRejectedLate
  <2> QED
    BY <1>1, <2>2, <2>3, <2>4 DEF ScanProceeds
<1>2. CASE UNCHANGED vars
  BY <1>0, <1>2 DEF vars, gateVars
<1>3. CASE StartScan
  BY <1>1, <1>3 DEF StartScan, GateType
<1>4. CASE RestartScan
  BY <1>4 DEF RestartScan, scanVars
<1>5. CASE RestartScanJoined
  BY <1>1, <1>5 DEF RestartScanJoined, End, GateType
<1>6. ASSUME NEW g \in Scans, ScanTick(g) PROVE ScanInv'
  <2>1. Completes(scanQueue'[g]) => Completes(scanQueue[g])
    <3>1. scanQueue'[g] \in {scanQueue[g], Append(scanQueue[g], "progress")}
      BY <1>6 DEF ScanTick, ScanType
    <3>2. scanQueue[g] \in Seq({"progress", "complete"}) /\ "progress" \in {"progress", "complete"}
      BY DEF ScanType
    <3>3. Completes(Append(scanQueue[g], "progress")) => Completes(scanQueue[g])
      BY <3>2, QueueFacts
    <3> QED
      BY <3>1, <3>3
  <2>2. scanQueue' = [scanQueue EXCEPT ![g] = scanQueue'[g]] /\ g <= scanGen
    BY <1>6 DEF ScanTick, ScanType
  <2> QED
    BY <1>6, <1>b, <2>1, <2>2 DEF ScanTick, gateVars
<1>7. ASSUME NEW g \in Scans, ScanFinished(g) PROVE ScanInv'
  <2>1. \A f \in Scans : f # g => /\ scanQueue'[f] = scanQueue[f]
                                  /\ scanThread'[f] = scanThread[f]
    BY <1>7 DEF ScanFinished, ScanType
  <2>2. scanThread'[g] = "done" /\ g <= scanGen
    BY <1>7 DEF ScanFinished, ScanType
  <2> QED
    BY <1>7, <2>1, <2>2 DEF ScanFinished, gateVars
<1>8. ASSUME NEW g \in Scans, HandleScanProgress(g) PROVE ScanInv'
  <2>1. Completes(scanQueue'[g]) => Completes(scanQueue[g])
    BY <1>8, QueueFacts DEF HandleScanProgress, ScanType
  <2>2. scanQueue' = [scanQueue EXCEPT ![g] = scanQueue'[g]] /\ scanQueue[g] # <<>>
    BY <1>8 DEF HandleScanProgress, ScanType
  <2> QED
    BY <1>8, <1>b, <2>1, <2>2 DEF HandleScanProgress, gateVars
<1>9. ASSUME NEW g \in Scans, HandleScanComplete(g) PROVE ScanInv'
  <2>1. /\ js' = "idle" /\ UNCHANGED <<scanGen, scanThread>>
        /\ scanContext' = IF scanContext = g THEN 0 ELSE scanContext
    BY <1>9 DEF HandleScanComplete, TearsDown
  <2>2. scanThread[g] = "done"
    BY <1>9, QueueFacts DEF HandleScanComplete, ScanType
  <2>3. \A f \in Scans : Completes(scanQueue'[f]) => Completes(scanQueue[f])
    BY <1>9, QueueFacts DEF HandleScanComplete, ScanType
  <2>4. \A f \in Scans : f # g => scanQueue'[f] = scanQueue[f]
    BY <1>9 DEF HandleScanComplete, ScanType
  <2> QED
    BY <2>1, <2>2, <2>3, <2>4
<1>10. CASE ImageNext
  BY <1>0, <1>10 DEF ImageNext, StartImaging, RestartImaging, RestartImagingJoined,
     ImageProceeds, ImagingEndsEarly, ImagingReadsLastChunk, ImagingCloses
<1>11. CASE SearchNext
  BY <1>0, <1>11 DEF SearchNext, StartContentSearch, RestartContentSearch,
     RestartContentSearchJoined, SearchProceeds, StopContentSearch, SearchMatch,
     SearchFinished, HandleSearchMatch, HandleSearchComplete, gateVars
<1>12. CASE AsyncNext
  BY <1>0, <1>12 DEF AsyncNext, StartAsync, AsyncExecuted, AsyncSettled, gateVars
<1>13. CASE Idle
  BY <1>2, <1>13 DEF Idle
<1> QED
  BY <1>2, <1>3, <1>4, <1>5, <1>6, <1>7, <1>8, <1>9, <1>10, <1>11, <1>12, <1>13
     DEF Next, ScanNext

\* The same of the content searches, whose completion may have been dropped.
LEMMA SearchInvStep ==
    ASSUME GateType, SearchType, SearchInv, [Next]_vars
    PROVE  SearchInv'
<1>a. searchGen \in Nat /\ searchContext \in Nat
  BY BoundsAssumption DEF SearchType
<1> USE <1>a, BoundsAssumption DEF SearchInv, Searches
<1>0. ASSUME UNCHANGED <<searchContext, searchGen, searchThread, searchQueue>>,
             js' = "joinSearch" => js = "joinSearch"
      PROVE  SearchInv'
  BY <1>0
<1>b. ASSUME NEW c \in Searches, c <= searchGen \/ searchQueue[c] # <<>>,
             searchQueue' = [searchQueue EXCEPT ![c] = searchQueue'[c]],
             Completes(searchQueue'[c]) => Completes(searchQueue[c]),
             UNCHANGED <<js, searchContext, searchGen, searchThread>>
      PROVE  SearchInv'
  <2>1. \A d \in Searches : d # c => searchQueue'[d] = searchQueue[d]
    BY <1>b DEF SearchType
  <2> QED
    BY <1>b, <2>1
<1>1. ASSUME NEW h \in {0, 1}, SearchProceeds(h),
             searchContext = 0 \/ searchThread[searchContext] = "done"
      PROVE  SearchInv'
  <2>1. js' # "joinSearch" /\ \A c \in Searches : searchThread[c] # "running"
    BY <1>1 DEF SearchProceeds
  <2>2. /\ searchQueue' = searchQueue
        /\ \/ searchContext' = 0 /\ UNCHANGED <<searchGen, searchThread>>
           \/ /\ searchGen < NSearches
              /\ searchGen' = searchGen + 1 /\ searchContext' = searchGen + 1
              /\ searchThread' = [searchThread EXCEPT ![searchGen + 1] = "running"]
    BY <1>1, Zenon DEF SearchProceeds
  <2>3. CASE searchContext' = 0 /\ UNCHANGED <<searchGen, searchThread>>
    BY <2>1, <2>2, <2>3
  <2>4. CASE /\ searchGen < NSearches
             /\ searchGen' = searchGen + 1 /\ searchContext' = searchGen + 1
             /\ searchThread' = [searchThread EXCEPT ![searchGen + 1] = "running"]
    <3>1. searchGen + 1 \in Searches /\ ~Completes(searchQueue[searchGen + 1])
      BY <2>4, QueueFacts
    <3>2. \A c \in Searches : searchThread'[c] = IF c = searchGen + 1 THEN "running"
                                                  ELSE searchThread[c]
      BY <2>4, <3>1 DEF SearchType
    <3> QED
      BY <2>1, <2>2, <2>4, <3>1, <3>2
  <2> QED
    BY <2>2, <2>3, <2>4
<1>2. CASE UNCHANGED vars
  BY <1>0, <1>2 DEF vars, gateVars, searchVars
<1>3. CASE ScanNext
  BY <1>0, <1>3 DEF ScanNext, StartScan, RestartScan, RestartScanJoined, ScanProceeds,
     ScanTick, ScanFinished, HandleScanProgress, HandleScanComplete, gateVars, searchVars
<1>4. CASE ImageNext
  BY <1>0, <1>4 DEF ImageNext, StartImaging, RestartImaging, RestartImagingJoined,
     ImageProceeds, ImagingEndsEarly, ImagingReadsLastChunk, ImagingCloses, searchVars
<1>5. CASE StartContentSearch
  BY <1>1, <1>5 DEF StartContentSearch, GateType
<1>6. CASE RestartContentSearch
  BY <1>6 DEF RestartContentSearch, searchVars
<1>7. CASE RestartContentSearchJoined
  <2>1. (IF holdsHeavyOp THEN End(heavyOps) ELSE heavyOps) \in {0, 1}
    BY DEF GateType, End
  <2> QED
    BY <1>1, <1>7, <2>1 DEF RestartContentSearchJoined
<1>8. CASE StopContentSearch
  BY <1>0, <1>8 DEF StopContentSearch
<1>9. ASSUME NEW c \in Searches, SearchMatch(c) PROVE SearchInv'
  <2>1. Completes(searchQueue'[c]) => Completes(searchQueue[c])
    <3>1. searchQueue'[c] \in {searchQueue[c], Append(searchQueue[c], "match")}
      BY <1>9 DEF SearchMatch, Post, SearchType
    <3>2. searchQueue[c] \in Seq({"match", "complete"}) /\ "match" \in {"match", "complete"}
      BY DEF SearchType
    <3>3. Completes(Append(searchQueue[c], "match")) => Completes(searchQueue[c])
      BY <3>2, QueueFacts
    <3> QED
      BY <3>1, <3>3
  <2>2. searchQueue' = [searchQueue EXCEPT ![c] = searchQueue'[c]] /\ c <= searchGen
    BY <1>9 DEF SearchMatch, Post, SearchType
  <2> QED
    BY <1>9, <1>b, <2>1, <2>2 DEF SearchMatch, gateVars
<1>10. ASSUME NEW c \in Searches, SearchFinished(c) PROVE SearchInv'
  <2>1. \A d \in Searches : d # c => /\ searchQueue'[d] = searchQueue[d]
                                     /\ searchThread'[d] = searchThread[d]
    BY <1>10 DEF SearchFinished, Post, SearchType
  <2>2. searchThread'[c] = "done" /\ c <= searchGen
    BY <1>10 DEF SearchFinished, SearchType
  <2> QED
    BY <1>10, <2>1, <2>2 DEF SearchFinished, gateVars
<1>11. ASSUME NEW c \in Searches, HandleSearchMatch(c) PROVE SearchInv'
  <2>1. Completes(searchQueue'[c]) => Completes(searchQueue[c])
    BY <1>11, QueueFacts DEF HandleSearchMatch, SearchType
  <2>2. searchQueue' = [searchQueue EXCEPT ![c] = searchQueue'[c]] /\ searchQueue[c] # <<>>
    BY <1>11 DEF HandleSearchMatch, SearchType
  <2> QED
    BY <1>11, <1>b, <2>1, <2>2 DEF HandleSearchMatch, gateVars
<1>12. ASSUME NEW c \in Searches, HandleSearchComplete(c) PROVE SearchInv'
  <2>1. /\ js' = "idle" /\ UNCHANGED <<searchGen, searchThread>>
        /\ searchContext' = IF searchContext = c THEN 0 ELSE searchContext
    BY <1>12 DEF HandleSearchComplete
  <2>2. searchThread[c] = "done"
    BY <1>12, QueueFacts DEF HandleSearchComplete, SearchType
  <2>3. \A d \in Searches : Completes(searchQueue'[d]) => Completes(searchQueue[d])
    BY <1>12, QueueFacts DEF HandleSearchComplete, SearchType
  <2>4. \A d \in Searches : d # c => searchQueue'[d] = searchQueue[d]
    BY <1>12 DEF HandleSearchComplete, SearchType
  <2> QED
    BY <2>1, <2>2, <2>3, <2>4
<1>13. CASE AsyncNext
  BY <1>0, <1>13 DEF AsyncNext, StartAsync, AsyncExecuted, AsyncSettled, gateVars, searchVars
<1>14. CASE Idle
  BY <1>2, <1>14 DEF Idle
<1> QED
  BY <1>2, <1>3, <1>4, <1>5, <1>6, <1>7, <1>8, <1>9, <1>10, <1>11, <1>12, <1>13, <1>14
     DEF Next, SearchNext

\* An orderly session keeps one owner.  End gives back a token that the
\* published scan, the published search or the settling worker holds.
LEMMA OwnerStep ==
    ASSUME TypeOK, ScanInv, SearchInv, Orderly, QuietInv, OwnerInv, [Next]_vars
    PROVE  QuietInv' /\ OwnerInv'
<1> USE DEF QuietInv, OwnerInv
<1>a. heavyOps \in {0, 1}
  BY DEF TypeOK, GateType
<1>b. ~("image" \in session) /\ ~("stopSearch" \in session) /\ ~("lateReject" \in session)
  BY DEF Orderly
<1>c. scanGen \in Nat /\ searchGen \in Nat /\ scanContext \in Nat /\ searchContext \in Nat
  BY BoundsAssumption DEF TypeOK, ScanType, SearchType
<1> USE <1>a, <1>b, <1>c
<1>0. ASSUME UNCHANGED <<heavyOps, scanContext, searchContext, holdsHeavyOp, imageVars,
                         asyncWorker>>,
             js' # "joinImage"
      PROVE  QuietInv' /\ OwnerInv'
  BY <1>0 DEF imageVars
\* A scan proceeds from a counter that is closed by everyone but a scan.
<1>1. ASSUME NEW h \in {0, 1}, ScanProceeds(h),
             h = 1 <=> searchContext # 0 \/ \E a \in Async : asyncWorker[a] # "idle"
      PROVE  QuietInv' /\ OwnerInv'
  <2>1. /\ UNCHANGED <<searchContext, holdsHeavyOp, imageVars, asyncWorker>>
        /\ js' = "idle"
    BY <1>1 DEF ScanProceeds, searchVars
  <2>2. \/ heavyOps' = h /\ scanContext' = 0
        \/ h = 0 /\ heavyOps' = 1 /\ scanContext' # 0
    BY <1>1 DEF ScanProceeds, ScanRefused, ScanStarted, ScanRejectedLate, CanBegin
  <2> QED
    BY <1>1, <2>1, <2>2 DEF imageVars
<1>2. ASSUME NEW h \in {0, 1}, SearchProceeds(h),
             h = 1 <=> scanContext # 0 \/ \E a \in Async : asyncWorker[a] # "idle"
      PROVE  QuietInv' /\ OwnerInv'
  <2>1. UNCHANGED <<scanContext, imageVars, asyncWorker>> /\ js' = "idle"
    BY <1>2 DEF SearchProceeds, scanVars
  <2>2. \/ heavyOps' = h /\ searchContext' = 0
        \/ h = 0 /\ heavyOps' = 1 /\ searchContext' # 0 /\ holdsHeavyOp' = TRUE
    BY <1>2 DEF SearchProceeds, CanBegin
  <2> QED
    BY <1>2, <2>1, <2>2 DEF imageVars
<1>3. CASE UNCHANGED vars
  BY <1>0, <1>3 DEF vars, gateVars, scanVars, searchVars
<1>4. CASE StartScan
  BY <1>1, <1>4 DEF StartScan
<1>5. CASE RestartScan
  BY <1>0, <1>5 DEF RestartScan, scanVars, searchVars
<1>6. CASE RestartScanJoined
  BY <1>1, <1>6 DEF RestartScanJoined, End, ScanInv
<1>7. ASSUME NEW g \in Scans,
             ScanTick(g) \/ ScanFinished(g) \/ HandleScanProgress(g)
      PROVE  QuietInv' /\ OwnerInv'
  BY <1>0, <1>7 DEF ScanTick, ScanFinished, HandleScanProgress, gateVars, searchVars
<1>8. ASSUME NEW g \in Scans, HandleScanComplete(g) PROVE QuietInv' /\ OwnerInv'
  BY <1>8 DEF HandleScanComplete, TearsDown, End, Scans, imageVars, searchVars
<1>9. CASE ImageNext
  BY <1>9 DEF ImageNext, StartImaging, RestartImaging, RestartImagingJoined,
     ImagingEndsEarly, ImagingReadsLastChunk, ImagingCloses
<1>10. CASE StartContentSearch
  BY <1>2, <1>10 DEF StartContentSearch
<1>11. CASE RestartContentSearch
  BY <1>0, <1>11 DEF RestartContentSearch, scanVars, searchVars
<1>12. CASE RestartContentSearchJoined
  BY <1>2, <1>12 DEF RestartContentSearchJoined, End, SearchInv
<1>13. CASE StopContentSearch
  BY <1>13 DEF StopContentSearch
<1>14. ASSUME NEW c \in Searches,
              SearchMatch(c) \/ SearchFinished(c) \/ HandleSearchMatch(c)
       PROVE  QuietInv' /\ OwnerInv'
  BY <1>0, <1>14 DEF SearchMatch, SearchFinished, HandleSearchMatch, gateVars, scanVars
<1>15. ASSUME NEW c \in Searches, HandleSearchComplete(c) PROVE QuietInv' /\ OwnerInv'
  BY <1>15 DEF HandleSearchComplete, End, Searches, imageVars, scanVars
<1>16. ASSUME NEW a \in Async, StartAsync(a) \/ AsyncExecuted(a) \/ AsyncSettled(a)
       PROVE  QuietInv' /\ OwnerInv'
  BY <1>16 DEF StartAsync, AsyncExecuted, AsyncSettled, CanBegin, End, TypeOK,
               gateVars, imageVars, scanVars, searchVars
<1> QED
  BY <1>3, <1>4, <1>5, <1>6, <1>7, <1>8, <1>9, <1>10, <1>11, <1>12, <1>13, <1>14,
     <1>15, <1>16 DEF Next, ScanNext, SearchNext, AsyncNext, Idle

\* The inductive invariant holds of every reachable state of the bridge.
LEMMA GateInvariant == Safety => []GateInv
<1>1. Init => GateInv
  <2> SUFFICES ASSUME Init PROVE GateInv
    OBVIOUS
  <2>1. TypeOK
    BY InitType
  <2>2. ScanInv
    <3>1. \A g \in Scans : ~Completes(scanQueue[g])
      BY DEF Init, Completes
    <3> QED
      BY <3>1 DEF Init, ScanInv
  <2>3. SearchInv
    <3>1. \A c \in Searches : ~Completes(searchQueue[c])
      BY DEF Init, Completes
    <3> QED
      BY <3>1 DEF Init, SearchInv
  <2>4. QuietInv /\ OwnerInv
    BY DEF Init, QuietInv, OwnerInv
  <2> QED
    BY <2>1, <2>2, <2>3, <2>4 DEF GateInv
<1>2. GateInv /\ [Next]_vars => GateInv'
  <2> SUFFICES ASSUME GateInv, [Next]_vars PROVE GateInv'
    OBVIOUS
  <2>1. TypeOK /\ TypeOK'
    BY NextType DEF GateInv
  <2>2. ScanInv' /\ SearchInv'
    BY <2>1, ScanInvStep, SearchInvStep DEF GateInv, TypeOK
  <2>3. Orderly' => QuietInv' /\ OwnerInv'
    <3>1. session' = session
      BY SessionFixed
    <3> QED
      BY <3>1, OwnerStep DEF GateInv, Orderly
  <2> QED
    BY <2>1, <2>2, <2>3 DEF GateInv
<1> QED
  BY <1>1, <1>2, PTL DEF Safety

\* In an orderly session the gate is closed exactly while one operation holds
\* it, and whoever uses a disk is the holder: restarts, dropped and late
\* completions lose, double or misdirect no token of BridgeData::heavyOps.
THEOREM OneOwner == Safety => []GateOwned
<1>1. GateInv => GateOwned
  <2> SUFFICES ASSUME GateInv, Orderly
               PROVE  /\ heavyOps = 1 <=> Holders # {}
                      /\ \A x, y \in Holders : x = y
                      /\ Reading \subseteq Holders
    BY DEF GateOwned
  <2> USE DEF GateInv, QuietInv, OwnerInv
  <2>1. scanContext \in Nat /\ scanContext <= NScans
        /\ searchContext \in Nat /\ searchContext <= NSearches
    BY BoundsAssumption DEF TypeOK, ScanType, SearchType
  <2>2. \A x : x \in Holders <=>
          \/ scanContext # 0 /\ x = <<"scan", scanContext>>
          \/ searchContext # 0 /\ x = <<"search", searchContext>>
          \/ \E a \in Async : asyncWorker[a] # "idle" /\ x = <<"async", a>>
    BY <2>1, BoundsAssumption DEF Holders, Scans, Searches
  <2>3. heavyOps = 1 <=> Holders # {}
    BY <2>2
  <2>4. \A x, y \in Holders : x = y
    BY <2>2
  <2>5. Reading \subseteq Holders
    BY <2>1, <2>2 DEF Reading, ScanInv, SearchInv, Scans, Searches
  <2> QED
    BY <2>3, <2>4, <2>5
<1> QED
  BY <1>1, GateInvariant, PTL

\* In an orderly session no two operations use a disk at the same time, which
\* is what README.md:190-191 says of heavyOps.
THEOREM OneReader == Safety => []OrderlyExclusive
<1>1. GateOwned => OrderlyExclusive
  BY DEF GateOwned, OrderlyExclusive, Exclusive
<1> QED
  BY <1>1, OneOwner, PTL

\* In every session, orderly or not, a scan's context is dropped only when its
\* thread has ended.
THEOREM LiveScanKept == Safety => NoLiveScanDropped
<1> DEFINE Kept == scanContext # 0 /\ scanContext' # scanContext
                     => scanThread[scanContext] # "running"
<1>1. ASSUME GateInv, [Next]_vars PROVE [Kept]_vars
  <2> SUFFICES ASSUME scanContext # 0, scanContext' # scanContext
               PROVE  scanThread[scanContext] # "running"
    OBVIOUS
  <2>1. RestartScanJoined \/ \E g \in Scans : HandleScanComplete(g)
    BY <1>1 DEF Next, ScanNext, ImageNext, SearchNext, AsyncNext, Idle, vars,
       StartScan, RestartScan, ScanTick, ScanFinished, HandleScanProgress,
       StartImaging, RestartImaging, RestartImagingJoined, ImageProceeds,
       ImagingEndsEarly, ImagingReadsLastChunk, ImagingCloses,
       StartContentSearch, RestartContentSearch, RestartContentSearchJoined,
       SearchProceeds, StopContentSearch, SearchMatch, SearchFinished,
       HandleSearchMatch, HandleSearchComplete,
       StartAsync, AsyncExecuted, AsyncSettled, scanVars
  <2>2. CASE RestartScanJoined
    BY <2>2 DEF RestartScanJoined
  <2>3. ASSUME NEW g \in Scans, HandleScanComplete(g)
        PROVE  scanThread[scanContext] # "running"
    <3>1. scanContext = g
      BY <2>3 DEF HandleScanComplete, TearsDown
    <3>2. scanThread[g] = "done"
      BY <1>1, <2>3, QueueFacts DEF GateInv, ScanInv, TypeOK, ScanType, HandleScanComplete
    <3> QED
      BY <3>1, <3>2
  <2> QED
    BY <2>1, <2>2, <2>3
<1>2. [Next]_vars /\ GateInv => [Kept]_vars
  BY <1>1
<1> QED
  BY <1>2, GateInvariant, PTL DEF Safety, NoLiveScanDropped
----------------------------------------------------------------------------
(* The gate implements SerialDisk.                                         *)

\* In an orderly session a step lets an operation use a disk that nobody uses,
\* or lets none use it that did not before.
LEMMA FreeBeforeTaken ==
    ASSUME GateInv, Orderly, [Next]_vars
    PROVE  Reading = {} \/ Reading' \subseteq Reading
<1> USE DEF GateInv, QuietInv, OwnerInv
<1>a. ~("image" \in session) /\ ~("stopSearch" \in session) /\ ~("lateReject" \in session)
  BY DEF Orderly
<1>b. scanContext = 0 /\ searchContext = 0 /\ (\A a \in Async : asyncWorker[a] = "idle") => Reading = {}
  BY DEF Reading, ScanInv, SearchInv, Scans, Searches
<1>c. ASSUME heavyOps = 0 PROVE Reading = {}
  BY <1>b, <1>c
\* Whoever leaves the threads and workers alone
<1>0. ASSUME UNCHANGED <<scanThread, imageThread, searchThread, asyncWorker>> PROVE Reading' = Reading
  BY <1>0 DEF Reading
<1>1. ASSUME NEW h \in {0, 1}, ScanProceeds(h), h = 0 => Reading = {}
      PROVE  Reading = {} \/ Reading' \subseteq Reading
  <2>1. h = 0 \/ UNCHANGED scanThread
    BY <1>1 DEF ScanProceeds, ScanRefused, ScanStarted, ScanRejectedLate, CanBegin
  <2>2. UNCHANGED <<imageThread, searchThread, asyncWorker>>
    BY <1>1 DEF ScanProceeds, imageVars, searchVars
  <2> QED
    BY <1>0, <1>1, <2>1, <2>2
<1>2. ASSUME NEW h \in {0, 1}, SearchProceeds(h), h = 0 => Reading = {}
      PROVE  Reading = {} \/ Reading' \subseteq Reading
  <2>1. h = 0 \/ UNCHANGED searchThread
    BY <1>2 DEF SearchProceeds, CanBegin
  <2>2. UNCHANGED <<scanThread, imageThread, asyncWorker>>
    BY <1>2 DEF SearchProceeds, scanVars, imageVars
  <2> QED
    BY <1>0, <1>2, <2>1, <2>2
<1>3. CASE UNCHANGED vars
  BY <1>0, <1>3 DEF vars, scanVars, imageVars, searchVars
<1>4. CASE StartScan
  BY <1>1, <1>4, <1>c DEF StartScan, TypeOK, GateType
<1>5. CASE RestartScan \/ RestartContentSearch
  BY <1>0, <1>5 DEF RestartScan, RestartContentSearch, scanVars, imageVars, searchVars
<1>6. CASE RestartScanJoined
  <2>1. scanContext # 0 /\ scanThread[scanContext] # "running"
    BY <1>6 DEF RestartScanJoined, ScanInv
  <2>2. Reading = {}
    BY <2>1 DEF Reading, ScanInv, SearchInv, Scans, Searches
  <2> QED
    BY <2>2
<1>7. ASSUME NEW g \in Scans, ScanTick(g) \/ HandleScanProgress(g) \/ HandleScanComplete(g)
      PROVE  Reading' = Reading
  BY <1>0, <1>7 DEF ScanTick, HandleScanProgress, HandleScanComplete, imageVars, searchVars
<1>8. ASSUME NEW g \in Scans, ScanFinished(g) PROVE Reading' \subseteq Reading
  <2>1. \A f \in Scans : scanThread'[f] = "running" => scanThread[f] = "running"
    BY <1>8 DEF ScanFinished, TypeOK, ScanType
  <2>2. UNCHANGED <<imageThread, searchThread, asyncWorker>>
    BY <1>8 DEF ScanFinished, imageVars, searchVars
  <2> QED
    BY <2>1, <2>2 DEF Reading
<1>9. CASE ImageNext
  BY <1>9, <1>a DEF ImageNext, StartImaging, RestartImaging, RestartImagingJoined,
     ImagingEndsEarly, ImagingReadsLastChunk, ImagingCloses
<1>10. CASE StartContentSearch
  BY <1>2, <1>10, <1>c DEF StartContentSearch, TypeOK, GateType
<1>12. CASE RestartContentSearchJoined
  <2>1. searchContext # 0 /\ searchThread[searchContext] = "done"
    BY <1>12 DEF RestartContentSearchJoined, SearchInv
  <2>2. Reading = {}
    BY <2>1 DEF Reading, ScanInv, SearchInv, Scans, Searches
  <2> QED
    BY <2>2
<1>13. CASE StopContentSearch
  BY <1>13, <1>a DEF StopContentSearch
<1>14. ASSUME NEW c \in Searches, SearchMatch(c) \/ HandleSearchMatch(c) \/ HandleSearchComplete(c)
       PROVE  Reading' = Reading
  BY <1>0, <1>14 DEF SearchMatch, HandleSearchMatch, HandleSearchComplete, scanVars, imageVars
<1>15. ASSUME NEW c \in Searches, SearchFinished(c) PROVE Reading' \subseteq Reading
  <2>1. \A d \in Searches : searchThread'[d] = "running" => searchThread[d] = "running"
    BY <1>15 DEF SearchFinished, TypeOK, SearchType
  <2>2. UNCHANGED <<scanThread, imageThread, asyncWorker>>
    BY <1>15 DEF SearchFinished, scanVars, imageVars
  <2> QED
    BY <2>1, <2>2 DEF Reading
<1>16. ASSUME NEW a \in Async, StartAsync(a)
       PROVE  Reading = {}
  BY <1>16, <1>c DEF StartAsync, CanBegin
<1>17. ASSUME NEW a \in Async, AsyncExecuted(a) \/ AsyncSettled(a) PROVE Reading' \subseteq Reading
  <2>1. \A b \in Async : asyncWorker'[b] # "idle" => asyncWorker[b] # "idle"
    BY <1>17 DEF AsyncExecuted, AsyncSettled, TypeOK
  <2>2. UNCHANGED <<scanThread, imageThread, searchThread>>
    BY <1>17 DEF AsyncExecuted, AsyncSettled, scanVars, imageVars, searchVars
  <2> QED
    BY <2>1, <2>2 DEF Reading
<1> QED
  BY <1>3, <1>4, <1>5, <1>6, <1>7, <1>8, <1>9, <1>10, <1>12, <1>13, <1>14, <1>15, <1>16, <1>17
     DEF Next, ScanNext, SearchNext, AsyncNext, Idle

\* What a session does to its disk is what SerialDisk allows: from Init, each
\* step takes a disk that is free, leaves it, or does neither.  The proof of
\* EachEnds, which rests on fairness, stays with the run.
THEOREM GateIsSerial == Safety => DiskIsSerial
<1> DEFINE used == IF Orderly THEN Reading ELSE {}
<1>1. Init => Disk!Init
  BY DEF Init, Reading, Disk!Init
<1>2. ASSUME GateInv, GateInv', OrderlyExclusive, OrderlyExclusive', [Next]_vars
      PROVE  [Disk!Next]_(IF Orderly THEN Reading ELSE {})
  <2>0. session' = session /\ (Orderly' <=> Orderly)
    BY <1>2, SessionFixed DEF Orderly
  <2>1. CASE ~Orderly
    BY <2>0, <2>1
  <2>2. CASE Orderly
    <3> DEFINE Ops == ({"scan"} \X Scans) \cup ({"search"} \X Searches) \cup ({"async"} \X Async)
    <3>1. used = Reading /\ used' = Reading'
      BY <2>0, <2>2
    <3>2. Reading \subseteq Ops /\ Reading' \subseteq Ops
      <4>1. \A i \in Images : imageThread[i] = "none" /\ imageThread'[i] = "none"
        BY <1>2, <2>0, <2>2 DEF GateInv, QuietInv
      <4> QED
        BY <4>1 DEF Reading
    <3>3. (\A x, y \in Reading : x = y) /\ (\A x, y \in Reading' : x = y)
      BY <1>2, <2>0, <2>2 DEF OrderlyExclusive, Exclusive
    <3>4. Reading = {} \/ Reading' \subseteq Reading
      BY <1>2, <2>2, FreeBeforeTaken
    <3>5. CASE Reading = {} /\ Reading' # {}
      <4>1. PICK o \in Reading' : Reading' = {o}
        BY <3>3, <3>5
      <4> QED
        BY <3>1, <3>2, <3>5, <4>1 DEF Disk!Next, Disk!Take
    <3>6. CASE Reading # {} /\ Reading' \subseteq Reading
      <4>1. PICK o \in Reading : Reading = {o}
        BY <3>3, <3>6
      <4>2. Reading' = {} \/ Reading' = Reading
        BY <3>6, <4>1
      <4> QED
        BY <3>1, <3>2, <4>1, <4>2 DEF Disk!Next, Disk!Leave
    <3> QED
      BY <3>1, <3>4, <3>5, <3>6
  <2> QED
    BY <2>1, <2>2
<1> QED
  BY <1>1, <1>2, GateInvariant, OneReader, PTL DEF Safety, DiskIsSerial, Disk!Spec

============================================================================
