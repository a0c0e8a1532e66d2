--------------------------- MODULE Shell_proofs ---------------------------
(***************************************************************************)
(* Theorems of the main process and of what it starts: Desktop, for every  *)
(* number of scans, images and sleeps, on every platform, as long as the   *)
(* database takes each scan; Recovery to a folder, for any records,        *)
(* requests and folder.                                                    *)
(***************************************************************************)
EXTENDS Recovery, Desktop, FiniteSetTheorems, NaturalRecursion, TLAPS

----------------------------------------------------------------------------
(* Desktop                                                                 *)

Tokens == 1..NScans

ShellType ==
    /\ scanLive \in BOOLEAN /\ imagingLive \in BOOLEAN /\ allowClose \in BOOLEAN
    /\ activeScanToken \in 0..NScans
    /\ scans \in [Tokens -> {"none", "running", "stopping", "ended"}]
    /\ completes \in Seq(Tokens)

\* Only the scan asked for last can be published, and nothing else runs.
PublishedIsLatest ==
    /\ scanContext \in {0, activeScanToken}
    /\ \A t \in Tokens : scans[t] \in {"running", "stopping"} => t = scanContext

\* What a queue still has to tell of is over, and is not of a later scan.
QueuedIsOver ==
    \A i \in 1..Len(completes) : completes[i] <= activeScanToken /\ scans[completes[i]] = "ended"

\* Neither a late event nor a timer takes the flag from a scan that runs.
RunningIsLive == \A t \in Tokens : scans[t] = "running" => scanLive

ShellInv == ShellType /\ PublishedIsLatest /\ QueuedIsOver /\ RunningIsLive /\ QuitStopsAll

----------------------------------------------------------------------------
\* The number of scans asked for.
LEMMA ScansBounded == NScans \in Nat
  BY DesktopAssumption

\* The application as it starts.
LEMMA ShellInit == DesktopInit => ShellInv
<1> SUFFICES ASSUME DesktopInit PROVE ShellInv
  OBVIOUS
<1>1. /\ scanLive = FALSE /\ imagingLive = FALSE /\ activeScanToken = 0 /\ allowClose = FALSE
      /\ app = "running" /\ scanContext = 0 /\ completes = <<>>
      /\ scans = [t \in Tokens |-> "none"]
  BY DEF DesktopInit, Tokens
<1>2. ShellType /\ PublishedIsLatest /\ RunningIsLive
  <2>1. scanLive \in BOOLEAN /\ imagingLive \in BOOLEAN /\ allowClose \in BOOLEAN
    BY <1>1
  <2>2. activeScanToken \in 0..NScans /\ completes \in Seq(Tokens)
    BY <1>1, ScansBounded
  <2>3. scans \in [Tokens -> {"none", "running", "stopping", "ended"}] /\ \A t \in Tokens : scans[t] = "none"
    BY <1>1
  <2> QED
    BY <1>1, <2>1, <2>2, <2>3 DEF ShellType, PublishedIsLatest, RunningIsLive
<1>3. QueuedIsOver /\ QuitStopsAll
  BY <1>1 DEF QueuedIsOver, QuitStopsAll
<1> QED
  BY <1>2, <1>3 DEF ShellInv

\* A new event at the end of the queue, of a scan that is over, keeps what is
\* said of the queue, when no scan that was over begins again.
LEMMA QueueGrows ==
    ASSUME ShellType, ShellType', QueuedIsOver, NEW t \in Tokens,
           completes' = Append(completes, t), scans'[t] = "ended", t <= activeScanToken',
           activeScanToken <= activeScanToken',
           \A u \in Tokens : u <= activeScanToken /\ scans[u] = "ended" => scans'[u] = "ended"
    PROVE  QueuedIsOver'
<1> SUFFICES ASSUME NEW i \in 1..Len(completes')
             PROVE  completes'[i] <= activeScanToken' /\ scans'[completes'[i]] = "ended"
  BY DEF QueuedIsOver
<1>1. CASE i \in 1..Len(completes)
  <2>1. completes'[i] = completes[i] /\ completes[i] \in Tokens
    BY <1>1 DEF ShellType
  <2> QED
    BY <1>1, <2>1, ScansBounded DEF QueuedIsOver, ShellType, Tokens
<1>2. CASE i = Len(completes) + 1
  BY <1>2 DEF ShellType
<1> QED
  BY <1>1, <1>2 DEF ShellType

\* The same queue, when no scan that was over begins again.
LEMMA QueueStays ==
    ASSUME ShellType, ShellType', QueuedIsOver, completes' = completes,
           activeScanToken <= activeScanToken',
           \A u \in Tokens : u <= activeScanToken /\ scans[u] = "ended" => scans'[u] = "ended"
    PROVE  QueuedIsOver'
<1> SUFFICES ASSUME NEW i \in 1..Len(completes)
             PROVE  completes[i] <= activeScanToken' /\ scans'[completes[i]] = "ended"
  BY DEF QueuedIsOver
<1>1. completes[i] \in Tokens
  BY DEF ShellType
<1> QED
  BY <1>1, ScansBounded DEF QueuedIsOver, ShellType, Tokens

\* start-scan, whether it is refused or begins
LEMMA StartKeeps == ~DatabaseFails /\ ShellInv /\ StartScan => ShellInv'
<1> SUFFICES ASSUME ~DatabaseFails, ShellInv, StartScan PROVE ShellInv'
  OBVIOUS
<1> DEFINE new == activeScanToken + 1
<1>1. /\ app = "running" /\ new \in Tokens /\ activeScanToken' = new /\ completes' = JoinedCompletes
      /\ \/ scanContext' \in {0, new} /\ scans' = Joined /\ scanLive' = FALSE
         \/ scanContext' = new /\ scans' = [Joined EXCEPT ![new] = "running"] /\ scanLive' = TRUE
      /\ UNCHANGED <<imagingLive, allowClose, shellVars, imageVars>>
  <2>1. new \in Tokens /\ ~DatabaseFails
    BY ScansBounded DEF StartScan, ShellInv, ShellType, Tokens
  <2> QED
    BY <2>1 DEF StartScan, LiveAfterRefusal
<1>2. /\ Joined \in [Tokens -> {"none", "running", "stopping", "ended"}]
      /\ \A t \in Tokens : Joined[t] \notin {"running", "stopping"}
      /\ \A t \in Tokens : scans[t] = "ended" => Joined[t] = "ended"
  BY ScansBounded DEF Joined, NativeScanning, ShellInv, ShellType, PublishedIsLatest, Tokens
<1>3. NativeScanning => scanContext \in Tokens /\ Joined[scanContext] = "ended"
  BY ScansBounded DEF Joined, NativeScanning, ShellInv, ShellType, PublishedIsLatest, Tokens
<1>4. completes' \in Seq(Tokens)
  BY <1>1, <1>3 DEF JoinedCompletes, ShellInv, ShellType
<1>5. ShellType'
  <2>1. scanLive' \in BOOLEAN /\ imagingLive' \in BOOLEAN /\ allowClose' \in BOOLEAN
    BY <1>1 DEF ShellType, ShellInv
  <2>2. activeScanToken' \in 0..NScans
    BY <1>1, ScansBounded DEF Tokens
  <2>3. scans' \in [Tokens -> {"none", "running", "stopping", "ended"}]
    BY <1>1, <1>2
  <2> QED
    BY <1>4, <2>1, <2>2, <2>3 DEF ShellType
<1>6. PublishedIsLatest' /\ RunningIsLive'
  BY <1>1, <1>2 DEF PublishedIsLatest, RunningIsLive
<1>7. \A u \in Tokens : u <= activeScanToken /\ scans[u] = "ended" => scans'[u] = "ended"
  <2> SUFFICES ASSUME NEW u \in Tokens, u <= activeScanToken, scans[u] = "ended" PROVE scans'[u] = "ended"
    OBVIOUS
  <2>1. u # new /\ Joined[u] = "ended"
    BY <1>2 DEF ShellInv, ShellType, Tokens
  <2> QED
    BY <1>1, <1>2, <2>1
<1>8. activeScanToken <= activeScanToken'
  BY <1>1, ScansBounded DEF ShellInv, ShellType
<1>9. QueuedIsOver'
  <2>1. CASE NativeScanning
    <3>1. scanContext = activeScanToken /\ scanContext <= activeScanToken'
      BY <1>8, <2>1 DEF NativeScanning, ShellInv, PublishedIsLatest
    <3>2. scans'[scanContext] = "ended"
      BY <1>1, <1>2, <1>3, <2>1, <3>1 DEF ShellInv, ShellType
    <3> QED
      BY <1>1, <1>3, <1>5, <1>7, <1>8, <2>1, <3>1, <3>2, QueueGrows DEF JoinedCompletes, ShellInv
  <2>2. CASE ~NativeScanning
    BY <1>1, <1>5, <1>7, <1>8, <2>2, QueueStays DEF JoinedCompletes, ShellInv
  <2> QED
    BY <2>1, <2>2
<1>10. QuitStopsAll'
  BY <1>1 DEF QuitStopsAll, shellVars
<1> QED
  BY <1>5, <1>6, <1>9, <1>10 DEF ShellInv

\* A scan thread ends and queues its event; the event is handled.
LEMMA EndKeeps == ShellInv /\ (ScanEnds \/ ScanComplete) => ShellInv'
<1> SUFFICES ASSUME ShellInv, ScanEnds \/ ScanComplete PROVE ShellInv'
  OBVIOUS
<1>1. CASE ScanEnds
  <2>1. scanContext \in Tokens /\ scanContext = activeScanToken
    BY <1>1, ScansBounded DEF ScanEnds, NativeScanning, ShellInv, ShellType, PublishedIsLatest, Tokens
  <2>2. ShellType'
    BY <1>1, <2>1 DEF ScanEnds, ShellInv, ShellType, mainVars, Tokens
  <2>3. PublishedIsLatest' /\ RunningIsLive'
    BY <1>1, <2>1 DEF ScanEnds, ShellInv, ShellType, PublishedIsLatest, RunningIsLive, mainVars
  <2>4. QueuedIsOver'
    <3>1. scans'[scanContext] = "ended" /\ activeScanToken' = activeScanToken
      BY <1>1, <2>1 DEF ScanEnds, ShellInv, ShellType, mainVars
    <3>2. \A u \in Tokens : scans[u] = "ended" => scans'[u] = "ended"
      BY <1>1 DEF ScanEnds, ShellInv, ShellType
    <3>3. activeScanToken <= activeScanToken' /\ scanContext <= activeScanToken'
      BY <2>1, <3>1, ScansBounded DEF ShellInv, ShellType
    <3> QED
      BY <1>1, <2>1, <2>2, <3>1, <3>2, <3>3, QueueGrows DEF ScanEnds, ShellInv
  <2>5. QuitStopsAll'
    BY <1>1 DEF ScanEnds, QuitStopsAll, shellVars
  <2> QED
    BY <2>2, <2>3, <2>4, <2>5 DEF ShellInv
<1>2. CASE ScanComplete
  <2> DEFINE token == Head(completes)
  <2>1. /\ app = "running" /\ completes # <<>> /\ completes' = Tail(completes)
        /\ scanLive' = (scanLive /\ token # activeScanToken)
        /\ scanContext' = IF token = scanContext THEN 0 ELSE scanContext
        /\ UNCHANGED <<imagingLive, activeScanToken, allowClose, shellVars, scans, imageVars>>
    BY <1>2 DEF ScanComplete, Listens
  <2>2. token \in Tokens /\ scans[token] = "ended"
    BY <2>1 DEF ShellInv, ShellType, QueuedIsOver
  <2>3. ShellType'
    BY <2>1 DEF ShellInv, ShellType
  <2>4. PublishedIsLatest'
    BY <2>1, <2>2 DEF ShellInv, PublishedIsLatest
  <2>5. RunningIsLive'
    <3>1. \A t \in Tokens : scans[t] = "running" => t = activeScanToken /\ t # token
      BY <2>2, ScansBounded DEF ShellInv, PublishedIsLatest, Tokens
    <3> QED
      BY <2>1, <3>1 DEF ShellInv, RunningIsLive
  <2>6. QueuedIsOver'
    <3> SUFFICES ASSUME NEW i \in 1..Len(Tail(completes))
                 PROVE  Tail(completes)[i] <= activeScanToken /\ scans[Tail(completes)[i]] = "ended"
      BY <2>1 DEF QueuedIsOver
    <3>1. i + 1 \in 1..Len(completes) /\ Tail(completes)[i] = completes[i + 1]
      BY <2>1 DEF ShellInv, ShellType
    <3> QED
      BY <3>1 DEF ShellInv, QueuedIsOver
  <2>7. QuitStopsAll'
    BY <2>1 DEF QuitStopsAll, shellVars
  <2> QED
    BY <2>3, <2>4, <2>5, <2>6, <2>7 DEF ShellInv
<1> QED
  BY <1>1, <1>2

\* A scan that runs may be asked to stop; everything else about scans stays, and
\* the flag does not fall under one that goes on.
LEMMA StopKeeps ==
    ASSUME ShellInv, UNCHANGED <<activeScanToken, scanContext, completes>>,
           scanLive' \in BOOLEAN, imagingLive' \in BOOLEAN, allowClose' \in BOOLEAN,
           \/ scans' = StopScan(scans)
           \/ scans' = scans /\ (scanLive' = scanLive \/ \A t \in Tokens : scans[t] # "running"),
           QuitStopsAll'
    PROVE  ShellInv'
<1>1. /\ scans' \in [Tokens -> {"none", "running", "stopping", "ended"}]
      /\ \A t \in Tokens : scans'[t] \in {"running", "stopping"} => scans[t] \in {"running", "stopping"}
      /\ \A t \in Tokens : scans[t] = "ended" => scans'[t] = "ended"
  BY DEF StopScan, ShellInv, ShellType
<1>2. ShellType'
  BY <1>1 DEF ShellInv, ShellType
<1>3. PublishedIsLatest'
  BY <1>1 DEF ShellInv, PublishedIsLatest
<1>4. RunningIsLive'
  <2>1. CASE scans' = StopScan(scans)
    BY <2>1 DEF StopScan, ShellInv, ShellType, PublishedIsLatest, RunningIsLive
  <2>2. CASE scans' = scans /\ (scanLive' = scanLive \/ \A t \in Tokens : scans[t] # "running")
    BY <2>2 DEF ShellInv, RunningIsLive
  <2> QED
    BY <2>1, <2>2
<1>5. QueuedIsOver'
  <2>1. activeScanToken <= activeScanToken'
    BY ScansBounded DEF ShellInv, ShellType
  <2> QED
    BY <1>1, <1>2, <2>1, QueueStays DEF ShellInv
<1> QED
  BY <1>2, <1>3, <1>4, <1>5 DEF ShellInv

\* Once everything is stopped nothing runs.
LEMMA AllStopped ==
    ASSUME ShellInv, StopAll
    PROVE  (\A t \in Tokens : scans'[t] # "running") /\ imaging' # "running"
<1>1. \A t \in Tokens : scans'[t] # "running"
  BY DEF StopAll, StopScan, ShellInv, ShellType, PublishedIsLatest
<1> QED
  BY <1>1 DEF StopAll, StopImaging

\* On its way out the application either stops everything or knows of nothing.
LEMMA QuitKeeps == ShellInv /\ (CloseWindow \/ QuitRequest \/ AnswerStop \/ Signal) => ShellInv'
<1> SUFFICES ASSUME ShellInv, CloseWindow \/ QuitRequest \/ AnswerStop \/ Signal PROVE ShellInv'
  OBVIOUS
<1>1. /\ app = "running" /\ UNCHANGED <<activeScanToken, scanContext, completes, imagingLive>>
      /\ allowClose' \in BOOLEAN
      /\ \/ StopAll
         \/ UNCHANGED <<scanLive, scans, imaging>> /\ (app' = "running" \/ (~scanLive /\ ~imagingLive))
  BY DEF CloseWindow, QuitRequest, AnswerStop, Signal, BeforeQuit, ShellInv, ShellType, shellVars
<1>2. CASE StopAll
  <2>1. QuitStopsAll'
    BY <1>2, AllStopped DEF QuitStopsAll, Tokens
  <2> QED
    BY <1>1, <1>2, <2>1, StopKeeps DEF StopAll, ShellInv, ShellType
<1>3. CASE UNCHANGED <<scanLive, scans, imaging>> /\ (app' = "running" \/ (~scanLive /\ ~imagingLive))
  <2>1. QuitStopsAll'
    BY <1>1, <1>3 DEF QuitStopsAll, Tokens, ShellInv, RunningIsLive
  <2> QED
    BY <1>1, <1>3, <2>1, StopKeeps DEF ShellInv, ShellType
<1> QED
  BY <1>1, <1>2, <1>3

\* Everything else leaves the application running.
LEMMA RestKeeps ==
    ASSUME ShellInv,
           \/ StopScanRequest \/ StartImaging \/ ImagingTick \/ ImagingProgress \/ StopImagingRequest
           \/ AnswerKeep \/ Suspend \/ SleepFallback \/ Resume \/ Activate
    PROVE  ShellInv'
<1>1. /\ app' = "running" /\ UNCHANGED <<activeScanToken, scanContext, completes, allowClose>>
      /\ imagingLive' \in BOOLEAN
  BY DEF StopScanRequest, StartImaging, ImagingTick, ImagingProgress, StopImagingRequest, AnswerKeep,
         Suspend, SleepFallback, Resume, Activate, mainVars, shellVars, scanVars, imageVars,
         ShellInv, ShellType
<1>2. QuitStopsAll'
  BY <1>1 DEF QuitStopsAll
<1>3. Syncs => \A t \in Tokens : scans[t] # "running"
  BY ScansBounded DEF Syncs, ShellInv, PublishedIsLatest, Tokens
<1>4. CASE StopScanRequest \/ Suspend
  BY <1>1, <1>2, <1>4, StopKeeps DEF StopScanRequest, Suspend, mainVars, ShellInv, ShellType
<1>5. CASE SleepFallback \/ Resume
  <2>1. scans' = scans /\ scanLive' \in BOOLEAN /\ (scanLive' = scanLive \/ Syncs)
    BY <1>5 DEF SleepFallback, Resume, scanVars, ShellInv, ShellType
  <2>2. allowClose' \in BOOLEAN
    BY <1>1 DEF ShellInv, ShellType
  <2>3. scans' = scans /\ (scanLive' = scanLive \/ \A t \in Tokens : scans[t] # "running")
    BY <1>3, <2>1
  <2> QED
    BY <1>1, <1>2, <2>1, <2>2, <2>3, StopKeeps
<1>6. CASE StartImaging \/ ImagingTick \/ ImagingProgress \/ StopImagingRequest \/ AnswerKeep \/ Activate
  <2>1. scans' = scans /\ scanLive' = scanLive
    BY <1>6 DEF StartImaging, ImagingTick, ImagingProgress, StopImagingRequest, AnswerKeep, Activate,
                mainVars, scanVars
  <2> QED
    BY <1>1, <1>2, <2>1, StopKeeps DEF ShellInv, ShellType
<1> QED
  BY <1>4, <1>5, <1>6

\* Every handler, event and timer keeps the invariant.
LEMMA ShellStep == ~DatabaseFails /\ ShellInv /\ [DesktopNext]_desktopVars => ShellInv'
<1>1. ShellInv /\ UNCHANGED desktopVars => ShellInv'
  BY DEF desktopVars, mainVars, shellVars, scanVars, imageVars, ShellInv, ShellType, PublishedIsLatest,
         QueuedIsOver, RunningIsLive, QuitStopsAll
<1> QED
  BY <1>1, StartKeeps, EndKeeps, QuitKeeps, RestKeeps DEF DesktopNext, Shell

----------------------------------------------------------------------------
\* The strengthening holds in every reachable state.
LEMMA ShellInvariant == ~DatabaseFails /\ DesktopSpec => []ShellInv
<1>1. CASE ~DatabaseFails
  BY <1>1, ShellInit, ShellStep, PTL DEF DesktopSpec
<1>2. CASE DatabaseFails
  BY <1>2
<1> QED
  BY <1>1, <1>2

\* The main process knows of every scan that runs, whatever events of earlier
\* scans, sleeps and signals come when (ipc-handlers.ts start-scan, os-sleep).
THEOREM LiveWhileRunning == ~DatabaseFails /\ DesktopSpec => []RunningScanIsLive
<1>1. ShellInv => RunningScanIsLive
  BY ScansBounded DEF ShellInv, ShellType, PublishedIsLatest, RunningIsLive, RunningScanIsLive,
                           NativeScanning, Tokens
<1> QED
  BY <1>1, ShellInvariant, PTL

\* No way out of the application leaves a scan that nobody asked to stop, or an
\* image the main process knows of (main.ts close, before-quit).
THEOREM QuitLeavesNothing == ~DatabaseFails /\ DesktopSpec => []QuitStopsAll
<1>1. ShellInv => QuitStopsAll
  BY DEF ShellInv
<1> QED
  BY <1>1, ShellInvariant, PTL

----------------------------------------------------------------------------
(* Recovery                                                                *)

\* uniqueDestPath finds a free path, it does not reserve it.  What keeps two
\* files apart is that no two requests are between their choice and the end of
\* their write with files of one name.
Writing(w) == workers[w].pc \in {"open", "write"}
Current(w) == Records[Head(workers[w].ids)]
NoRivals ==
    \A v, w \in DOMAIN workers :
        v # w /\ Writing(v) /\ Writing(w) => Current(v).name # Current(w).name

\* Requests that share no name never come to that.
NamesOf(ids) == {Records[ids[k]].name : k \in {i \in DOMAIN ids : ids[i] \in Ids}}
RequestsApart ==
    \A v, w \in DOMAIN Requests :
        v # w => NamesOf(Requests[v].ids) \cap NamesOf(Requests[w].ids) = {}

----------------------------------------------------------------------------
(* The invariant                                                           *)

Chosen(name) == {<<name, n>> : n \in 0..MaxSuffix}
Paths == {NoPath} \cup UNION {Chosen(Records[id].name) : id \in Ids}
ResultType == [id : Nat, success : BOOLEAN, path : Paths, size : Nat, zeroFilled : BOOLEAN]
WorkerType ==
    [pc : {"record", "open", "write", "fulfilled", "rejected"}, batch : BOOLEAN, ids : Seq(Nat),
     path : Paths, results : Seq(ResultType)]

RecoveryType == workers \in Seq(WorkerType) /\ Len(workers) <= Len(Requests)

\* A chosen path has the name of its record and is free until it is opened.
PathsChosen ==
    \A w \in DOMAIN workers :
        /\ Writing(w) => /\ workers[w].ids # <<>> /\ Head(workers[w].ids) \in Ids
                         /\ workers[w].path \in Chosen(Current(w).name)
        /\ workers[w].pc = "open" => workers[w].path \notin DOMAIN dest
        /\ workers[w].pc = "write" => workers[w].path \in DOMAIN dest \ Existing

\* A file that was recovered is nobody's target any more.
FilesKept ==
    /\ \A p \in Existing : p \in DOMAIN dest /\ dest[p] = <<Zero>>
    /\ \A s \in Successes :
         /\ Result(s).path \in DOMAIN dest \ Existing
         /\ \A w \in DOMAIN workers : workers[w].pc = "write" => workers[w].path # Result(s).path
    /\ \A r, s \in Successes : Result(r).path = Result(s).path => r = s

Counts == IsFiniteSet(Successes) /\ recoveredFiles = Cardinality(Successes)

Enough(id) ==
    Records[id].deleted /\ Records[id].source \in Metadata
        => 10 * Delivered(Records[id]) >= 9 * Records[id].size

FilesTrue ==
    \A s \in Successes :
        LET id == Result(s).id
        IN  /\ id \in Ids /\ dest[Result(s).path] = Evidence(id)
            /\ Result(s).size = Delivered(Records[id]) /\ Enough(id)

\* What a worker has left are files of its request.
IdsOfRequest ==
    \A w \in DOMAIN workers : \A k \in DOMAIN workers[w].ids :
        \E j \in DOMAIN Requests[w].ids : Requests[w].ids[j] = workers[w].ids[k]

RecoveryInv == RecoveryType /\ IdsOfRequest /\ PathsChosen /\ FilesKept /\ Counts

----------------------------------------------------------------------------
(* Paths                                                                   *)

LEMMA AppendFacts ==
    ASSUME NEW T, NEW s \in Seq(T), NEW e \in T
    PROVE  Append(s, e) \in Seq(T) /\ Len(Append(s, e)) = Len(s) + 1
  OBVIOUS

LEMMA AppendToOne == ASSUME NEW a, NEW b PROVE Append(<<a>>, b) = <<a, b>>
<1> DEFINE s == <<a>>
           T == {a, b}
<1>1. s \in Seq(T) /\ Len(s) = 1 /\ s[1] = a /\ b \in T
  OBVIOUS
<1> HIDE DEF s, T
<1> DEFINE t == Append(s, b)
<1>2. DOMAIN t = 1..2 /\ t[2] = b /\ t[1] = a /\ t \in Seq(T)
  BY <1>1
<1> HIDE DEF t
<1>3. t = [i \in 1..2 |-> t[i]]
  BY <1>2
<1>4. t = <<t[1], t[2]>>
  BY <1>3
<1> QED
  BY <1>2, <1>4 DEF t, s

\* A path of uniqueDestPath is its stem with one more element, and is free.
LEMMA UniquePathFacts ==
    ASSUME NEW stem, NEW p \in UniqueDestPath(stem)
    PROVE  p \notin DOMAIN dest /\ \E n \in 0..MaxSuffix : p = Append(stem, n)
  BY DEF UniqueDestPath

LEMMA ChosenPath ==
    ASSUME NEW name, NEW p \in UniqueDestPath(<<name>>)
    PROVE  p \notin DOMAIN dest /\ p \in Chosen(name)
<1>1. PICK n \in 0..MaxSuffix : p = Append(<<name>>, n)
  BY UniquePathFacts
<1>2. Append(<<name>>, n) = <<name, n>>
  BY AppendToOne
<1> QED
  BY <1>1, <1>2, UniquePathFacts DEF Chosen

\* A repaired copy has a path of its own kind.
LEMMA RepairedPath ==
    ASSUME NEW name, NEW q \in Chosen(name), NEW p \in UniqueDestPath(Append(q, "repaired"))
    PROVE  p \notin DOMAIN dest /\ \A other : p \notin Chosen(other)
<1>1. PICK n \in 0..MaxSuffix : p = Append(Append(q, "repaired"), n)
  BY UniquePathFacts
<1>2. PICK m \in 0..MaxSuffix : q = <<name, m>>
  BY DEF Chosen
<1> DEFINE T == {name, m, "repaired", n}
<1>3. Len(q) = 2 /\ q \in Seq(T) /\ "repaired" \in T /\ n \in T
  BY <1>2
<1> HIDE DEF T
<1>4. Len(p) = 4
  <2> DEFINE r == Append(q, "repaired")
  <2>1. r \in Seq(T) /\ Len(r) = Len(q) + 1
    BY <1>3, AppendFacts
  <2> HIDE DEF r
  <2>2. Len(Append(r, n)) = Len(r) + 1
    BY <1>3, <2>1, AppendFacts
  <2>3. p = Append(r, n)
    BY <1>1 DEF r
  <2>4. Len(p) = 2 + 1 + 1
    BY <1>3, <2>1, <2>2, <2>3
  <2> QED
    BY <2>4
<1>5. ASSUME NEW other PROVE p \notin Chosen(other)
  <2>1. \A x \in Chosen(other) : Len(x) = 2
    BY DEF Chosen
  <2> QED
    BY <1>4, <2>1
<1> QED
  BY <1>5, UniquePathFacts

\* Names are told apart by their paths.
LEMMA ChosenApart ==
    ASSUME NEW a, NEW b, NEW p \in Chosen(a), NEW q \in Chosen(b), a # b PROVE p # q
  BY DEF Chosen

LEMMA ChosenType == ASSUME NEW id \in Ids PROVE Chosen(Records[id].name) \subseteq Paths
  BY DEF Paths

----------------------------------------------------------------------------
(* What a file is to hold                                                  *)

\* The recursive definition of the bases has a solution, in the naturals.
LEMMA SpanType == ASSUME NEW id \in Ids PROVE RunsSpan(Records[id]) \in Nat
<1> DEFINE runs == Records[id].runs
           Step(f, k) == IF k = 0 THEN 0 ELSE f[k - 1] + runs[k].length
           Fits(f, n) == f \in [0..n -> Nat] /\ \A k \in 0..n : f[k] = Step(f, k)
           Without == {n \in 0..Len(runs) : ~\E f : Fits(f, n)}
<1>1. Len(runs) \in Nat /\ \A k \in 1..Len(runs) : runs[k].length \in Nat
  <2> DEFINE R == [length : Nat, hole : BOOLEAN, bad : SUBSET Nat]
  <2>1. runs \in Seq(R)
    BY RecoveryAssumption DEF Ids
  <2>2. \A x \in R : x.length \in Nat
    OBVIOUS
  <2> HIDE DEF runs, R
  <2> QED
    BY <2>1, <2>2
<1>2. \E f : Fits(f, 0)
  <2>1. Fits([k \in 0..0 |-> 0], 0)
    OBVIOUS
  <2> QED
    BY <2>1
<1>3. ASSUME NEW n \in 1..Len(runs), NEW f, Fits(f, n - 1) PROVE \E g : Fits(g, n)
  <2> DEFINE g == [k \in 0..n |-> IF k < n THEN f[k] ELSE f[n - 1] + runs[n].length]
  <2>1. n \in Nat /\ n - 1 \in 0..(n - 1) /\ f[n - 1] \in Nat /\ runs[n].length \in Nat
    BY <1>1, <1>3
  <2>2. ASSUME NEW k \in 0..n PROVE g[k] \in Nat /\ g[k] = Step(g, k)
    <3>1. CASE k < n
      <4>1. k \in 0..(n - 1) /\ g[k] = f[k] /\ (k # 0 => k - 1 \in 0..(n - 1) /\ g[k - 1] = f[k - 1])
        BY <2>1, <3>1
      <4> QED
        BY <1>3, <4>1
    <3>2. CASE k = n
      <4>1. k # 0 /\ g[k] = f[n - 1] + runs[n].length /\ g[k - 1] = f[n - 1]
        BY <2>1, <3>2
      <4> HIDE DEF g
      <4> QED
        BY <2>1, <3>2, <4>1
    <3> QED
      BY <2>1, <3>1, <3>2
  <2>3. g \in [0..n -> Nat]
    BY <2>2
  <2> HIDE DEF g
  <2> QED
    BY <2>2, <2>3
<1> HIDE DEF Fits
<1>4. Without = {}
  <2> SUFFICES ASSUME Without # {} PROVE FALSE
    OBVIOUS
  <2>1. Without \subseteq Nat
    BY <1>1
  <2>2. PICK n \in Without : \A m \in Without : n <= m
    BY <2>1, LeastNatural
  <2>3. n \in 1..Len(runs)
    BY <1>1, <1>2
  <2>4. n - 1 \in 0..Len(runs) /\ ~(n <= n - 1)
    BY <1>1, <2>3
  <2>5. PICK f : Fits(f, n - 1)
    BY <2>2, <2>4
  <2> QED
    BY <1>3, <2>3, <2>5
<1>5. PICK f : Fits(f, Len(runs))
  BY <1>1, <1>4
<1>6. f = [k \in 0..Len(runs) |-> Step(f, k)] /\ f \in [0..Len(runs) -> Nat]
  BY <1>5 DEF Fits
<1> DEFINE base == RunBases(Records[id])
<1>7. base = [k \in 0..Len(runs) |-> Step(base, k)]
  BY <1>6 DEF RunBases
<1> HIDE DEF base
<1>8. base[0] = 0 /\ \A k \in 1..Len(runs) : base[k] = base[k - 1] + runs[k].length
  <2>1. 0 \in 0..Len(runs) /\ \A k \in 1..Len(runs) : k \in 0..Len(runs) /\ k # 0
    BY <1>1
  <2> QED
    BY <1>7, <2>1
<1>9. \A k \in 0..Len(runs) : base[k] \in Nat
  <2> DEFINE Others == {k \in 0..Len(runs) : base[k] \notin Nat}
  <2> SUFFICES ASSUME Others # {} PROVE FALSE
    OBVIOUS
  <2>1. Others \subseteq Nat
    BY <1>1
  <2>2. PICK k \in Others : \A m \in Others : k <= m
    BY <2>1, LeastNatural
  <2>3. k \in 1..Len(runs)
    BY <1>1, <1>8, <2>2
  <2>4. k - 1 \in 0..Len(runs) /\ ~(k <= k - 1)
    BY <1>1, <2>3
  <2>5. base[k - 1] \in Nat /\ runs[k].length \in Nat
    BY <1>1, <2>2, <2>3, <2>4
  <2>6. base[k] = base[k - 1] + runs[k].length
    BY <1>8, <2>3
  <2> HIDE DEF runs
  <2> QED
    BY <2>2, <2>5, <2>6
<1> QED
  BY <1>1, <1>9 DEF RunsSpan, base

LEMMA SizeType ==
    ASSUME NEW id \in Ids
    PROVE  /\ ClampedSize(Records[id]) \in Nat /\ Records[id].size \in Nat
           /\ ClampedSize(Records[id]) <= Records[id].size
  BY SpanType, RecoveryAssumption DEF ClampedSize, Ids

LEMMA SectorsFacts ==
    ASSUME NEW id \in Ids
    PROVE  /\ Sectors(id) \in Seq({Zero} \cup {<<id, n>> : n \in Nat})
           /\ Len(Sectors(id)) = ClampedSize(Records[id])
           /\ \A n \in 1..ClampedSize(Records[id]) :
                ~Padded(id) => Sectors(id)[n] = IF Records[id].form # "compressed" /\ InHole(Records[id], n)
                                                THEN Zero ELSE <<id, n>>
<1> DEFINE S == Sectors(id)
           N == ClampedSize(Records[id])
           T == {Zero} \cup {<<id, n>> : n \in Nat}
<1>1. N \in Nat
  BY SizeType
<1>2. S \in [1..N -> T]
  BY <1>1 DEF Sectors
<1>3. S \in Seq(T)
  BY <1>1, <1>2
<1>4. Len(S) = N
  BY <1>1, <1>2, <1>3
<1>5. ASSUME ~Padded(id), NEW n \in 1..N
      PROVE  S[n] = IF Records[id].form # "compressed" /\ InHole(Records[id], n) THEN Zero ELSE <<id, n>>
  <2>1. CASE Records[id].form = "compressed"
    BY <2>1 DEF Sectors
  <2>2. CASE Records[id].form # "compressed"
    <3>1. ~Unread(Records[id], n)
      BY <1>5, <2>2 DEF Padded
    <3> QED
      BY <2>2, <3>1 DEF Sectors
  <2> QED
    BY <2>1, <2>2
<1> QED
  BY <1>3, <1>4, <1>5

\* What is in the record itself always reads.
LEMMA ResidentReads ==
    ASSUME NEW id \in Ids, Records[id].form = "resident" PROVE ~Padded(id)
<1>1. \A k \in DOMAIN Records[id].runs : Records[id].runs[k].bad = {}
  BY RecoveryAssumption DEF Ids
<1> QED
  BY <1>1 DEF Padded, Unread, ChunkFails

\* There is a last run before the first hole.
LEMMA UnbrokenType ==
    ASSUME NEW id \in Ids
    PROVE  Unbroken(Records[id]) \in 0..Len(Records[id].runs)
<1> DEFINE n == Len(Records[id].runs)
           ends == {k \in 0..n : k = n \/ Records[id].runs[k + 1].hole}
<1>1. n \in Nat
  <2>1. Records[id].runs \in Seq([length : Nat, hole : BOOLEAN, bad : SUBSET Nat])
    BY RecoveryAssumption DEF Ids
  <2> QED
    BY <2>1
<1>2. ends \subseteq Nat /\ n \in ends
  BY <1>1
<1> HIDE DEF ends
<1>3. \E k \in ends : \A m \in ends : k <= m
  BY <1>2, LeastNatural
<1>4. (CHOOSE k \in ends : \A m \in ends : k <= m) \in ends
  BY <1>3
<1> QED
  BY <1>4 DEF Unbroken, ends

\* How much is written: all that is delivered, or some of it of a stream that
\* did not read, or nothing.
LEMMA LengthFacts ==
    ASSUME NEW id \in Ids, NEW length \in Lengths(Records[id])
    PROVE  /\ length \in Nat \cup {Corrupt}
           /\ length <= ClampedSize(Records[id])
           /\ ~Padded(id) /\ length # Corrupt => length = Delivered(Records[id])
<1> DEFINE record == Records[id]
           N == ClampedSize(record)
           inflated == record.inflates[Unbroken(record)]
<1>1. N \in Nat
  BY SizeType
<1>2. CASE record.form # "compressed"
  BY <1>1, <1>2 DEF Lengths, Delivered
<1>3. CASE record.form = "compressed"
  <2>1. inflated \in Nat \cup {Corrupt}
    BY <1>3, UnbrokenType, RecoveryAssumption DEF Ids
  <2>2. Delivered(record) = AtMost(N, inflated)
    BY <1>3 DEF Delivered
  <2>3. PICK n \in Inflations(record) : length = AtMost(N, n)
    BY <1>3 DEF Lengths
  <2>4. Padded(id) <=> Inflatable(record) /\ StreamUnread(record)
    BY <1>3 DEF Padded
  <2> HIDE DEF N, inflated
  <2>5. /\ n \in Nat \cup {Corrupt}
        /\ ~Padded(id) => n = inflated \/ n = Corrupt
    <3>1. CASE ~Inflatable(record)
      BY <3>1, <2>3 DEF Inflations
    <3>2. CASE Inflatable(record) /\ StreamUnread(record)
      BY <1>1, <3>2, <2>3, <2>4 DEF Inflations, N
    <3>3. CASE Inflatable(record) /\ ~StreamUnread(record)
      BY <2>1, <3>3, <2>3 DEF Inflations, inflated
    <3> QED
      BY <3>1, <3>2, <3>3
  <2> HIDE DEF record
  <2>6. length \in Nat \cup {Corrupt} /\ length <= N
    BY <1>1, <2>3, <2>5 DEF AtMost, Corrupt
  <2>7. n = Corrupt => length = Corrupt
    BY <1>1, <2>3 DEF AtMost, Corrupt
  <2> QED
    BY <2>2, <2>3, <2>5, <2>6, <2>7 DEF N, record
<1> QED
  BY <1>2, <1>3

\* The tenths of checkSizeConsistency
LEMMA Tenths ==
    ASSUME NEW x \in Nat, NEW y \in Nat, y > 0, ~((x * 100) \div y < 90)
    PROVE  10 * x >= 9 * y
<1> DEFINE q == (x * 100) \div y
           r == (x * 100) % y
<1>1. q \in Int /\ r \in 0..(y - 1) /\ x * 100 = y * q + r
  OBVIOUS
<1> HIDE DEF q, r
<1>2. q >= 90
  BY <1>1 DEF q
<1>3. y * q >= y * 90
  BY <1>1, <1>2
<1> QED
  BY <1>1, <1>3

LEMMA SuccessIsWhole ==
    ASSUME NEW id \in Ids, NEW length \in Lengths(Records[id]), NEW path, NEW repaired,
           Outcome(id, path, SubSeq(Sectors(id), 1, length), length, repaired).success
    PROVE  /\ SubSeq(Sectors(id), 1, length) = Evidence(id)
           /\ length = Delivered(Records[id]) /\ Enough(id)
<1> DEFINE S == Sectors(id)
           T == {Zero} \cup {<<id, n>> : n \in Nat}
           content == SubSeq(S, 1, length)
           N == ClampedSize(Records[id])
           size == Records[id].size
<1>1. /\ ~Padded(id) /\ length # Corrupt /\ ~TooShort(Records[id], length)
      /\ content # <<>>
  BY ResidentReads DEF Outcome, Malformed
<1>2. length \in Nat /\ length = Delivered(Records[id]) /\ length <= N
  BY <1>1, LengthFacts
<1>3. /\ N \in Nat /\ size \in Nat /\ N <= size
      /\ S \in Seq(T) /\ Len(S) = N
      /\ \A n \in 1..N : S[n] = IF Records[id].form # "compressed" /\ InHole(Records[id], n)
                                 THEN Zero ELSE <<id, n>>
  BY <1>1, SizeType, SectorsFacts
<1> HIDE DEF N, size, S, T
<1>4. content = [n \in 1..length |-> S[n]]
  BY <1>2, <1>3
<1>5. content = Evidence(id)
  <2>1. 1..length \subseteq 1..N
    BY <1>2, <1>3
  <2> QED
    BY <1>2, <1>3, <1>4, <2>1 DEF Evidence
<1>6. length > 0
  <2>1. length = 0 => content = <<>>
    BY <1>4
  <2> QED
    BY <1>1, <1>2, <2>1
<1>7. ASSUME Records[id].deleted, Records[id].source \in Metadata
      PROVE  10 * length >= 9 * size
  <2>1. CASE length < size
    <3>1. ~((length * 100) \div size < 90)
      BY <1>1, <1>2, <1>3, <1>6, <1>7, <2>1 DEF TooShort, size
    <3>2. length \in Nat /\ size \in Nat /\ size > 0
      BY <1>2, <1>3, <2>1
    <3> QED
      BY <3>1, <3>2, Tenths
  <2>2. CASE length = size
    BY <1>2, <2>2
  <2> QED
    BY <1>2, <1>3, <2>1, <2>2
<1> QED
  BY <1>2, <1>5, <1>7 DEF Enough, size, content, S

----------------------------------------------------------------------------
(* What has been reported                                                  *)

LEMMA ReportedFacts ==
    /\ \A s : s \in Reported <=> \E w \in DOMAIN workers :
                                   \E k \in DOMAIN workers[w].results : s = <<w, k>>
    /\ \A s : s \in Reported' <=> \E w \in DOMAIN workers' :
                                    \E k \in DOMAIN workers'[w].results : s = <<w, k>>
  BY DEF Reported

LEMMA WorkersFacts ==
    ASSUME RecoveryType, NEW w \in DOMAIN workers
    PROVE  /\ workers[w] \in WorkerType /\ w \in Nat
           /\ Len(workers[w].results) \in Nat
           /\ DOMAIN workers[w].results = 1..Len(workers[w].results)
           /\ \A k \in DOMAIN workers[w].results : workers[w].results[k] \in ResultType
<1> HIDE DEF WorkerType
<1>1. workers[w] \in WorkerType /\ w \in Nat
  BY DEF RecoveryType
<1>2. workers[w].results \in Seq(ResultType)
  BY <1>1 DEF WorkerType
<1> HIDE DEF ResultType
<1> QED
  BY <1>1, <1>2

\* A step that gives no result reports nothing new.
LEMMA NothingReported ==
    ASSUME RecoveryType, DOMAIN workers \subseteq DOMAIN workers',
           \A v \in DOMAIN workers : workers'[v].results = workers[v].results,
           \A v \in DOMAIN workers' \ DOMAIN workers : workers'[v].results = <<>>
    PROVE  Successes' = Successes /\ \A s \in Successes : Result(s)' = Result(s)
<1>1. Reported' = Reported
  <2>1. ASSUME NEW s \in Reported PROVE s \in Reported'
    <3>1. PICK v \in DOMAIN workers : \E k \in DOMAIN workers[v].results : s = <<v, k>>
      BY ReportedFacts
    <3>2. v \in DOMAIN workers' /\ workers'[v].results = workers[v].results
      BY <3>1
    <3> QED
      BY <3>1, <3>2, ReportedFacts
  <2>2. ASSUME NEW s \in Reported' PROVE s \in Reported
    <3>1. PICK v \in DOMAIN workers' : \E k \in DOMAIN workers'[v].results : s = <<v, k>>
      BY ReportedFacts
    <3>2. v \in DOMAIN workers
      BY <3>1
    <3>3. workers'[v].results = workers[v].results
      BY <3>2
    <3> QED
      BY <3>1, <3>2, <3>3, ReportedFacts
  <2> QED
    BY <2>1, <2>2
<1>2. \A s \in Reported : Result(s)' = Result(s)
  BY ReportedFacts DEF Result
<1> QED
  BY <1>1, <1>2 DEF Successes

\* A step that gives one
LEMMA ResultGiven ==
    ASSUME RecoveryType, NEW w \in DOMAIN workers, NEW r \in ResultType,
           workers[w].ids # <<>>, workers' = Done(w, r),
           NEW new, new = <<w, Len(workers[w].results) + 1>>
    PROVE  /\ RecoveryType' /\ DOMAIN workers' = DOMAIN workers
           /\ \A v \in DOMAIN workers : v # w => workers'[v] = workers[v]
           /\ workers'[w].pc = "record" /\ workers'[w].ids = Tail(workers[w].ids)
           /\ new \notin Successes /\ Result(new)' = r
           /\ Successes' = IF r.success THEN Successes \cup {new} ELSE Successes
           /\ \A s \in Successes : Result(s)' = Result(s)
<1> DEFINE results == workers[w].results
           ids == workers[w].ids
<1>1. /\ DOMAIN workers' = DOMAIN workers
      /\ \A v \in DOMAIN workers : v # w => workers'[v] = workers[v]
      /\ workers'[w] = [workers[w] EXCEPT !.pc = "record", !.ids = Tail(@), !.results = Append(@, r)]
  BY DEF Done, RecoveryType
<1>2. workers[w] \in WorkerType /\ results \in Seq(ResultType) /\ ids \in Seq(Nat) /\ w \in Nat
  BY WorkersFacts DEF WorkerType
<1>3. /\ workers'[w].pc = "record" /\ workers'[w].ids = Tail(ids)
      /\ workers'[w].results = Append(results, r)
      /\ workers'[w].batch = workers[w].batch /\ workers'[w].path = workers[w].path
  BY <1>1, <1>2 DEF WorkerType
<1>4. Append(results, r) \in Seq(ResultType) /\ Tail(ids) \in Seq(Nat)
  <2>1. Append(results, r) \in Seq(ResultType)
    <3> HIDE DEF ResultType, results
    <3> QED
      BY <1>2
  <2>2. ids # <<>>
    OBVIOUS
  <2> HIDE DEF ids
  <2>3. Tail(ids) \in Seq(Nat)
    BY <1>2, <2>2
  <2> QED
    BY <2>1, <2>3
<1>5. workers'[w] \in WorkerType
  BY <1>1, <1>2, <1>3, <1>4 DEF WorkerType
<1>6. RecoveryType'
  <2> HIDE DEF WorkerType
  <2>1. workers \in Seq(WorkerType) /\ Len(workers) \in Nat /\ DOMAIN workers = 1..Len(workers)
    BY DEF RecoveryType
  <2>2. workers' \in [1..Len(workers) -> WorkerType]
    <3>1. workers' = [v \in DOMAIN workers |-> workers'[v]]
      BY DEF Done
    <3> QED
      BY <1>1, <1>5, <2>1, <3>1
  <2>3. workers' \in Seq(WorkerType) /\ Len(workers') = Len(workers)
    BY <2>1, <2>2
  <2> QED
    BY <2>3 DEF RecoveryType
<1>7. /\ Len(results) \in Nat /\ DOMAIN results = 1..Len(results)
      /\ DOMAIN workers'[w].results = 1..(Len(results) + 1)
      /\ workers'[w].results[Len(results) + 1] = r
      /\ \A k \in DOMAIN results : workers'[w].results[k] = results[k]
  <2> HIDE DEF ResultType, results
  <2> QED
    BY <1>2, <1>3
<1> HIDE DEF results, ids, ResultType, WorkerType
<1>8. Reported' = Reported \cup {new} /\ new \notin Reported
  <2>1. new \notin Reported
    BY <1>7, ReportedFacts DEF results
  <2>2. new \in Reported'
    <3>1. Len(results) + 1 \in DOMAIN workers'[w].results
      BY <1>7
    <3>2. new = <<w, Len(results) + 1>> /\ w \in DOMAIN workers'
      BY <1>1 DEF results
    <3> QED
      BY <3>1, <3>2, ReportedFacts
  <2>3. ASSUME NEW s \in Reported PROVE s \in Reported'
    <3>0. PICK v \in DOMAIN workers : \E k \in DOMAIN workers[v].results : s = <<v, k>>
      BY ReportedFacts
    <3>1. PICK k \in DOMAIN workers[v].results : s = <<v, k>>
      BY <3>0
    <3>2. k \in DOMAIN workers'[v].results
      <4>1. CASE v # w
        BY <1>1, <4>1
      <4>2. CASE v = w
        <5>1. k \in DOMAIN results
          BY <4>2 DEF results
        <5> QED
          BY <1>7, <4>2, <5>1
      <4> QED
        BY <4>1, <4>2
    <3> QED
      BY <1>1, <3>1, <3>2, ReportedFacts
  <2>4. ASSUME NEW s \in Reported', s # new PROVE s \in Reported
    <3>0. PICK v \in DOMAIN workers' : \E k \in DOMAIN workers'[v].results : s = <<v, k>>
      BY ReportedFacts
    <3>1. PICK k \in DOMAIN workers'[v].results : s = <<v, k>>
      BY <3>0
    <3>2. k \in DOMAIN workers[v].results
      <4>1. CASE v # w
        BY <1>1, <3>1, <4>1
      <4>2. CASE v = w
        <5>1. k \in 1..(Len(results) + 1) /\ k # Len(results) + 1
          BY <1>7, <2>4, <3>1, <4>2 DEF results
        <5> QED
          BY <1>7, <4>2, <5>1 DEF results
      <4> QED
        BY <4>1, <4>2
    <3> QED
      BY <1>1, <3>1, <3>2, ReportedFacts
  <2> QED
    BY <2>1, <2>2, <2>3, <2>4
<1>9. Result(new)' = r
  BY <1>7 DEF Result, results
<1>10. \A s \in Reported : Result(s)' = Result(s)
  <2> SUFFICES ASSUME NEW s \in Reported PROVE Result(s)' = Result(s)
    OBVIOUS
  <2>0. PICK v \in DOMAIN workers : \E k \in DOMAIN workers[v].results : s = <<v, k>>
    BY ReportedFacts
  <2>1. PICK k \in DOMAIN workers[v].results : s = <<v, k>>
    BY <2>0
  <2>2. workers'[v].results[k] = workers[v].results[k]
    BY <1>1, <1>7, <2>1 DEF results
  <2> QED
    BY <2>1, <2>2 DEF Result
<1> QED
  BY <1>1, <1>3, <1>6, <1>8, <1>9, <1>10 DEF Successes, ids

LEMMA ResultTypes ==
    /\ \A id \in Nat : NoResult(id) \in ResultType /\ ~NoResult(id).success
    /\ \A w \in DOMAIN workers : RecoveryType /\ workers[w].ids # <<>>
           => Head(workers[w].ids) \in Nat
<1>1. ASSUME NEW id \in Nat PROVE NoResult(id) \in ResultType /\ ~NoResult(id).success
  BY DEF NoResult, ResultType, Paths
<1>2. ASSUME NEW w \in DOMAIN workers, RecoveryType, workers[w].ids # <<>>
      PROVE  Head(workers[w].ids) \in Nat
  <2> DEFINE ids == workers[w].ids
  <2>1. ids \in Seq(Nat) /\ ids # <<>>
    BY <1>2, WorkersFacts DEF WorkerType
  <2> HIDE DEF ids
  <2>2. Head(ids) \in Nat
    BY <2>1
  <2> QED
    BY <2>2 DEF ids
<1> QED
  BY <1>1, <1>2

\* A step that leaves the folder and the reports as they are, and in which a
\* worker at most takes a path that is free
ParkedOrFree(v) ==
    \/ v \in DOMAIN workers /\ workers'[v] = workers[v]
    \/ /\ workers'[v].pc = "open" /\ workers'[v].ids # <<>> /\ Head(workers'[v].ids) \in Ids
       /\ workers'[v].path \in Chosen(Records[Head(workers'[v].ids)].name)
       /\ workers'[v].path \notin DOMAIN dest

LEMMA QuietStep ==
    ASSUME RecoveryInv, dest' = dest, recoveredFiles' = recoveredFiles,
           Successes' = Successes, \A s \in Successes : Result(s)' = Result(s),
           \A v \in DOMAIN workers' :
               workers'[v].pc \in {"open", "write"} => ParkedOrFree(v)
    PROVE  PathsChosen' /\ FilesKept' /\ Counts' /\ (FilesTrue => FilesTrue')
<1>1. PathsChosen'
  BY DEF RecoveryInv, PathsChosen, Writing, Current, ParkedOrFree
<1>2. FilesKept'
  <2>1. \A s \in Successes' : \A w \in DOMAIN workers' :
            workers'[w].pc = "write" => workers'[w].path # Result(s)'.path
    BY DEF RecoveryInv, FilesKept, ParkedOrFree
  <2> QED
    BY <2>1 DEF RecoveryInv, FilesKept
<1>3. Counts'
  BY DEF RecoveryInv, Counts
<1>4. FilesTrue => FilesTrue'
  BY DEF FilesTrue
<1> QED
  BY <1>1, <1>2, <1>3, <1>4

LEMMA Moved ==
    ASSUME RecoveryType, NEW w \in DOMAIN workers, NEW x \in WorkerType,
           x.results = workers[w].results, workers' = [workers EXCEPT ![w] = x]
    PROVE  /\ RecoveryType' /\ DOMAIN workers' = DOMAIN workers /\ workers'[w] = x
           /\ \A v \in DOMAIN workers : v # w => workers'[v] = workers[v]
           /\ Successes' = Successes /\ \A s \in Successes : Result(s)' = Result(s)
<1> HIDE DEF WorkerType
<1>1. workers \in Seq(WorkerType)
  BY DEF RecoveryType
<1>2. /\ workers' \in Seq(WorkerType) /\ Len(workers') = Len(workers)
      /\ DOMAIN workers' = DOMAIN workers /\ workers'[w] = x
      /\ \A v \in DOMAIN workers : v # w => workers'[v] = workers[v]
  BY <1>1
<1>3. RecoveryType'
  BY <1>2 DEF RecoveryType
<1>4. \A v \in DOMAIN workers : workers'[v].results = workers[v].results
  BY <1>2
<1> QED
  BY <1>2, <1>3, <1>4, NothingReported

\* What an action has to keep
Kept == RecoveryInv' /\ (~DestMayFill /\ FilesTrue => FilesTrue')

LEMMA RecoverKeeps == ASSUME RecoveryInv, Recover PROVE Kept
<1> DEFINE n == Len(workers)
           request == Requests[n + 1]
           x == [pc |-> "record", batch |-> request.batch, ids |-> request.ids,
                 path |-> NoPath, results |-> <<>>]
<1>1. workers \in Seq(WorkerType) /\ n \in Nat /\ n + 1 \in DOMAIN Requests
  BY RecoveryAssumption DEF Recover, RecoveryInv, RecoveryType
<1>2. request \in [batch : BOOLEAN, ids : Seq(Nat)]
  <2> DEFINE Q == [batch : BOOLEAN, ids : Seq(Nat)]
  <2>1. Requests \in Seq(Q)
    BY RecoveryAssumption
  <2> HIDE DEF Q
  <2>2. request \in Q
    BY <1>1, <2>1
  <2> QED
    BY <2>2 DEF Q
<1>3. x \in WorkerType
  <2>1. <<>> \in Seq(ResultType) /\ NoPath \in Paths
    BY DEF Paths
  <2> QED
    BY <1>2, <2>1 DEF WorkerType
<1>4. /\ workers' = Append(workers, x) /\ UNCHANGED <<dest, recoveredFiles>>
      /\ Len(workers) < Len(Requests)
  BY DEF Recover
<1>5. x.results = <<>> /\ x.pc = "record" /\ x.ids = request.ids
  OBVIOUS
<1> HIDE DEF x, WorkerType
<1>6. /\ workers' \in Seq(WorkerType) /\ Len(workers') = n + 1
      /\ DOMAIN workers' = 1..(n + 1) /\ DOMAIN workers = 1..n
      /\ workers'[n + 1] = x /\ \A v \in 1..n : workers'[v] = workers[v]
  BY <1>1, <1>3, <1>4
<1>7. RecoveryType'
  <2>1. Len(Requests) \in Nat
    BY RecoveryAssumption
  <2> QED
    BY <1>1, <1>4, <1>6, <2>1 DEF RecoveryType
<1>8. \A v \in DOMAIN workers' : v \in DOMAIN workers \/ v = n + 1
  BY <1>1, <1>6
<1>9. Successes' = Successes /\ \A s \in Successes : Result(s)' = Result(s)
  <2>1. DOMAIN workers \subseteq DOMAIN workers'
    BY <1>1, <1>6
  <2>2. \A v \in DOMAIN workers' \ DOMAIN workers : workers'[v].results = <<>>
    BY <1>5, <1>6, <1>8
  <2> QED
    BY <1>6, <2>1, <2>2, NothingReported DEF RecoveryInv
<1>10. \A v \in DOMAIN workers' : workers'[v].pc \in {"open", "write"} => ParkedOrFree(v)
  BY <1>5, <1>6, <1>8 DEF ParkedOrFree
<1>11. PathsChosen' /\ FilesKept' /\ Counts' /\ (FilesTrue => FilesTrue')
  BY <1>4, <1>9, <1>10, QuietStep
<1>12. IdsOfRequest'
  BY <1>5, <1>6, <1>8 DEF RecoveryInv, IdsOfRequest
<1> QED
  BY <1>7, <1>11, <1>12 DEF Kept, RecoveryInv

LEMMA OtherKeeps ==
    ASSUME RecoveryInv, UNCHANGED <<dest, workers, recoveredFiles>> PROVE Kept
<1>1. Successes' = Successes /\ \A s \in Successes : Result(s)' = Result(s)
  BY DEF Successes, Reported, Result
<1>2. \A v \in DOMAIN workers' : ParkedOrFree(v)
  BY DEF ParkedOrFree
<1>3. PathsChosen' /\ FilesKept' /\ Counts' /\ (FilesTrue => FilesTrue')
  BY <1>1, <1>2, QuietStep
<1>4. RecoveryType' /\ IdsOfRequest'
  BY DEF RecoveryInv, RecoveryType, IdsOfRequest
<1> QED
  BY <1>3, <1>4 DEF Kept, RecoveryInv

LEMMA IdsGoOn ==
    ASSUME RecoveryInv, NEW w \in DOMAIN workers, workers[w].ids # <<>>,
           DOMAIN workers' = DOMAIN workers,
           \A v \in DOMAIN workers : v # w => workers'[v] = workers[v],
           workers'[w].ids \in {workers[w].ids, Tail(workers[w].ids)}
    PROVE  IdsOfRequest'
<1> DEFINE ids == workers[w].ids
<1>1. ids \in Seq(Nat)
  BY WorkersFacts DEF WorkerType, RecoveryInv
<1>2. ids # <<>>
  OBVIOUS
<1>3. \A k \in DOMAIN workers'[w].ids : \E i \in DOMAIN ids : workers'[w].ids[k] = ids[i]
  <2>1. \A k \in DOMAIN Tail(ids) : k + 1 \in DOMAIN ids /\ Tail(ids)[k] = ids[k + 1]
    <3> HIDE DEF ids
    <3> QED
      BY <1>1, <1>2
  <2> QED
    BY <2>1
<1>4. \A i \in DOMAIN ids : \E j \in DOMAIN Requests[w].ids : Requests[w].ids[j] = ids[i]
  BY DEF RecoveryInv, IdsOfRequest
<1> HIDE DEF ids
<1>5. \A k \in DOMAIN workers'[w].ids :
          \E j \in DOMAIN Requests[w].ids : Requests[w].ids[j] = workers'[w].ids[k]
  BY <1>3, <1>4
<1>6. \A v \in DOMAIN workers : v # w =>
          \A k \in DOMAIN workers'[v].ids :
              \E j \in DOMAIN Requests[v].ids : Requests[v].ids[j] = workers'[v].ids[k]
  BY DEF RecoveryInv, IdsOfRequest
<1> QED
  BY <1>5, <1>6 DEF IdsOfRequest

\* A file that fails before it is written
LEMMA FailedKeeps ==
    ASSUME RecoveryInv, NEW w \in DOMAIN workers, workers[w].ids # <<>>,
           workers' = Done(w, NoResult(Head(workers[w].ids))),
           dest' = dest, recoveredFiles' = recoveredFiles
    PROVE  Kept
<1> DEFINE r == NoResult(Head(workers[w].ids))
           new == <<w, Len(workers[w].results) + 1>>
<1>1. RecoveryType
  BY DEF RecoveryInv
<1>2. r \in ResultType /\ ~r.success
  BY <1>1, ResultTypes
<1>3. workers' = Done(w, r)
  OBVIOUS
<1> HIDE DEF r
<1>4. /\ RecoveryType' /\ DOMAIN workers' = DOMAIN workers
      /\ \A v \in DOMAIN workers : v # w => workers'[v] = workers[v]
      /\ workers'[w].pc = "record" /\ workers'[w].ids = Tail(workers[w].ids)
      /\ Successes' = Successes
      /\ \A s \in Successes : Result(s)' = Result(s)
  BY <1>1, <1>2, <1>3, ResultGiven
<1>5. \A v \in DOMAIN workers' : workers'[v].pc \in {"open", "write"} => ParkedOrFree(v)
  BY <1>4 DEF ParkedOrFree
<1>6. PathsChosen' /\ FilesKept' /\ Counts' /\ (FilesTrue => FilesTrue')
  BY <1>4, <1>5, QuietStep
<1>7. IdsOfRequest'
  BY <1>4, IdsGoOn
<1> QED
  BY <1>4, <1>6, <1>7 DEF Kept, RecoveryInv

\* A worker that goes on without a result, and not to a path that is taken
LEMMA MovedKeeps ==
    ASSUME RecoveryInv, NEW w \in DOMAIN workers,
           NEW x \in WorkerType, x.results = workers[w].results, x.ids = workers[w].ids,
           workers' = [workers EXCEPT ![w] = x],
           x.pc \in {"open", "write"} =>
               /\ x.pc = "open" /\ x.ids # <<>> /\ Head(x.ids) \in Ids
               /\ x.path \in Chosen(Records[Head(x.ids)].name) /\ x.path \notin DOMAIN dest,
           dest' = dest, recoveredFiles' = recoveredFiles
    PROVE  Kept
<1>1. RecoveryType
  BY DEF RecoveryInv
<1>2. /\ RecoveryType' /\ DOMAIN workers' = DOMAIN workers /\ workers'[w] = x
      /\ \A v \in DOMAIN workers : v # w => workers'[v] = workers[v]
      /\ Successes' = Successes /\ \A s \in Successes : Result(s)' = Result(s)
  BY <1>1, Moved
<1>3. \A v \in DOMAIN workers' : workers'[v].pc \in {"open", "write"} => ParkedOrFree(v)
  BY <1>2 DEF ParkedOrFree
<1>4. PathsChosen' /\ FilesKept' /\ Counts' /\ (FilesTrue => FilesTrue')
  BY <1>2, <1>3, QuietStep
<1>5. IdsOfRequest'
  BY <1>2 DEF RecoveryInv, IdsOfRequest
<1> QED
  BY <1>2, <1>4, <1>5 DEF Kept, RecoveryInv

LEMMA ChoosePathKeeps == ASSUME RecoveryInv, NEW w \in DOMAIN workers, ChoosePath(w) PROVE Kept
<1> DEFINE id == Head(workers[w].ids)
<1>1. dest' = dest /\ recoveredFiles' = recoveredFiles /\ workers[w].ids # <<>>
  BY DEF ChoosePath
<1>2. CASE workers' = Done(w, NoResult(id))
  BY <1>1, <1>2, FailedKeeps
<1>3. CASE id \in Ids /\ \E path \in UniqueDestPath(<<Records[id].name>>) :
                workers' = [workers EXCEPT ![w].pc = "open", ![w].path = path]
  <2>1. PICK path \in UniqueDestPath(<<Records[id].name>>) :
            workers' = [workers EXCEPT ![w].pc = "open", ![w].path = path]
    BY <1>3
  <2>2. path \in Chosen(Records[id].name) /\ path \notin DOMAIN dest
    BY ChosenPath
  <2>3. path \in Paths
    BY <1>3, <2>2, ChosenType
  <2> DEFINE x == [workers[w] EXCEPT !.pc = "open", !.path = path]
  <2>4. workers[w] \in WorkerType
    BY WorkersFacts DEF RecoveryInv
  <2>5. /\ x \in WorkerType /\ x.results = workers[w].results /\ x.ids = workers[w].ids
        /\ x.pc = "open" /\ x.path = path
    BY <2>3, <2>4 DEF WorkerType
  <2>6. workers' = [workers EXCEPT ![w] = x]
    BY <2>1
  <2> HIDE DEF x
  <2> QED
    BY <1>1, <1>3, <2>2, <2>5, <2>6, MovedKeeps
<1> QED
  BY <1>2, <1>3 DEF ChoosePath

LEMMA ParkKeeps ==
    ASSUME RecoveryInv, NEW w \in DOMAIN workers, NEW pc \in {"fulfilled", "rejected"},
           workers' = [workers EXCEPT ![w].pc = pc], dest' = dest, recoveredFiles' = recoveredFiles
    PROVE  Kept
<1> DEFINE x == [workers[w] EXCEPT !.pc = pc]
<1>1. workers[w] \in WorkerType
  BY WorkersFacts DEF RecoveryInv
<1>2. /\ x \in WorkerType /\ x.results = workers[w].results /\ x.ids = workers[w].ids
      /\ x.pc = pc
  BY <1>1 DEF WorkerType
<1>3. workers' = [workers EXCEPT ![w] = x]
  OBVIOUS
<1> HIDE DEF x
<1> QED
  BY <1>2, <1>3, MovedKeeps

LEMMA RivalPaths ==
    ASSUME RecoveryInv, NoRivals, NEW v \in DOMAIN workers, NEW w \in DOMAIN workers,
           v # w, Writing(v), Writing(w)
    PROVE  workers[v].path # workers[w].path
<1>1. /\ workers[v].path \in Chosen(Current(v).name)
      /\ workers[w].path \in Chosen(Current(w).name)
  BY DEF RecoveryInv, PathsChosen
<1>2. Current(v).name # Current(w).name
  BY DEF NoRivals
<1> QED
  BY <1>1, <1>2, ChosenApart

LEMMA OpenDestKeeps ==
    ASSUME RecoveryInv, NoRivals, NEW w \in DOMAIN workers, OpenDest(w) PROVE Kept
<1> DEFINE path == workers[w].path
           x == [workers[w] EXCEPT !.pc = "write"]
<1>1. /\ Writing(w) /\ workers[w].ids # <<>> /\ Head(workers[w].ids) \in Ids
      /\ path \notin DOMAIN dest /\ recoveredFiles' = recoveredFiles
      /\ path \in Chosen(Current(w).name)
  BY DEF OpenDest, RecoveryInv, PathsChosen, Writing
<1>2. CASE workers' = Done(w, NoResult(Head(workers[w].ids))) /\ UNCHANGED dest
  BY <1>1, <1>2, FailedKeeps
<1>3. CASE workers' = [workers EXCEPT ![w].pc = "write"] /\ dest' = Put(path, <<>>)
  <2>1. workers[w] \in WorkerType
    BY WorkersFacts DEF RecoveryInv
  <2>2. /\ x \in WorkerType /\ x.results = workers[w].results /\ x.ids = workers[w].ids
        /\ x.pc = "write" /\ x.path = path
    BY <2>1 DEF WorkerType
  <2>3. workers' = [workers EXCEPT ![w] = x]
    BY <1>3
  <2> HIDE DEF x
  <2>4. /\ RecoveryType' /\ DOMAIN workers' = DOMAIN workers /\ workers'[w] = x
        /\ \A v \in DOMAIN workers : v # w => workers'[v] = workers[v]
        /\ Successes' = Successes /\ \A s \in Successes : Result(s)' = Result(s)
    BY <2>2, <2>3, Moved DEF RecoveryInv
  <2>5. /\ DOMAIN dest' = DOMAIN dest \cup {path}
        /\ \A p \in DOMAIN dest : dest'[p] = dest[p]
    BY <1>1, <1>3 DEF Put
  <2>6. path \notin Existing
    BY <1>1 DEF RecoveryInv, FilesKept
  <2>7. PathsChosen'
    <3> SUFFICES ASSUME NEW v \in DOMAIN workers, Writing(v)'
                 PROVE  /\ workers'[v].ids # <<>> /\ Head(workers'[v].ids) \in Ids
                        /\ workers'[v].path \in Chosen(Current(v)'.name)
                        /\ workers'[v].pc = "open" => workers'[v].path \notin DOMAIN dest'
                        /\ workers'[v].pc = "write" => workers'[v].path \in DOMAIN dest' \ Existing
      BY <2>4 DEF PathsChosen, Writing
    <3>1. CASE v = w
      BY <1>1, <2>2, <2>4, <2>5, <2>6, <3>1 DEF Current
    <3>2. CASE v # w
      <4>1. workers'[v] = workers[v] /\ Writing(v) /\ Current(v)' = Current(v)
        BY <2>4, <3>2 DEF Writing, Current
      <4>2. workers[v].path # path
        BY <1>1, <3>2, <4>1, RivalPaths
      <4> QED
        BY <2>5, <4>1, <4>2 DEF RecoveryInv, PathsChosen
    <3> QED
      BY <3>1, <3>2
  <2>8. FilesKept'
    <3>1. \A p \in Existing : p \in DOMAIN dest' /\ dest'[p] = <<Zero>>
      BY <2>5 DEF RecoveryInv, FilesKept
    <3>2. \A s \in Successes : Result(s).path \in DOMAIN dest' \ Existing
      BY <2>5 DEF RecoveryInv, FilesKept
    <3>3. \A s \in Successes : \A v \in DOMAIN workers :
              workers'[v].pc = "write" => workers'[v].path # Result(s).path
      BY <1>1, <2>2, <2>4 DEF RecoveryInv, FilesKept
    <3>4. \A r, s \in Successes : Result(r).path = Result(s).path => r = s
      BY DEF RecoveryInv, FilesKept
    <3> QED
      BY <2>4, <3>1, <3>2, <3>3, <3>4 DEF FilesKept
  <2>9. Counts'
    BY <1>1, <2>4 DEF RecoveryInv, Counts
  <2>10. FilesTrue => FilesTrue'
    <3>1. \A s \in Successes : dest'[Result(s).path] = dest[Result(s).path]
      BY <2>5 DEF RecoveryInv, FilesKept
    <3> QED
      BY <2>4, <3>1 DEF FilesTrue
  <2>11. IdsOfRequest'
    BY <2>2, <2>4 DEF RecoveryInv, IdsOfRequest
  <2> QED
    BY <2>4, <2>7, <2>8, <2>9, <2>10, <2>11 DEF Kept, RecoveryInv
<1> QED
  BY <1>2, <1>3 DEF OpenDest

LEMMA ThrowsKeeps == ASSUME RecoveryInv, NEW w \in DOMAIN workers, Throws(w) PROVE Kept
<1>1. workers[w].ids # <<>> /\ dest' = dest /\ recoveredFiles' = recoveredFiles
  BY DEF Throws
<1>2. CASE workers' = [workers EXCEPT ![w].pc = "rejected"]
  BY <1>1, <1>2, ParkKeeps
<1>3. CASE workers' = Done(w, NoResult(Head(workers[w].ids)))
  BY <1>1, <1>3, FailedKeeps
<1> QED
  BY <1>2, <1>3 DEF Throws

LEMMA FulfilKeeps == ASSUME RecoveryInv, NEW w \in DOMAIN workers, Fulfil(w) PROVE Kept
  BY ParkKeeps DEF Fulfil

LEMMA ResultRecord ==
    ASSUME NEW id \in Nat, NEW path \in Paths, NEW size \in Nat, NEW padded \in BOOLEAN,
           NEW success \in BOOLEAN
    PROVE  [id |-> id, path |-> path, size |-> size, zeroFilled |-> padded,
            success |-> success] \in ResultType
  BY DEF ResultType

\* What WriteAndSettle leaves in the folder, and the result it gives
LEMMA Written ==
    ASSUME RecoveryInv, NEW w \in DOMAIN workers, WriteAndSettle(w)
    PROVE  \E r \in ResultType :
             LET id == Head(workers[w].ids)
                 path == workers[w].path
             IN  /\ workers' = Done(w, r)
                 /\ recoveredFiles' = recoveredFiles + (IF r.success THEN 1 ELSE 0)
                 /\ r.id = id /\ r.path = path
                 /\ DOMAIN dest \subseteq DOMAIN dest'
                 /\ \A p \in DOMAIN dest : p # path => dest'[p] = dest[p]
                 /\ \A p \in DOMAIN dest' \ DOMAIN dest : \A name : p \notin Chosen(name)
                 /\ r.success /\ ~DestMayFill =>
                      /\ dest'[path] = Evidence(id)
                      /\ r.size = Delivered(Records[id]) /\ Enough(id)
<1> DEFINE id == Head(workers[w].ids)
           path == workers[w].path
           sectors == Sectors(id)
           content(n) == SubSeq(sectors, 1, n)
           written(n) == Put(path, content(n))
           copies(n) == IF ~Padded(id) /\ Repaired(Records[id], content(n))
                        THEN UniqueDestPath(Append(path, "repaired")) ELSE {}
           result(l, n) == Outcome(id, path, content(n), l, copies(n) # {})
<1>0. PICK length \in Lengths(Records[id]) :
        \E n \in (IF DestMayFill THEN 0..length ELSE {}) \cup {length} :
          /\ dest' = [p \in DOMAIN written(n) \cup copies(n) |->
                        IF p \in copies(n) THEN content(n) ELSE written(n)[p]]
          /\ workers' = Done(w, result(length, n))
          /\ recoveredFiles' = recoveredFiles + Counted(result(length, n))
  BY DEF WriteAndSettle
<1>1. PICK n \in (IF DestMayFill THEN 0..length ELSE {}) \cup {length} :
          /\ dest' = [p \in DOMAIN written(n) \cup copies(n) |->
                        IF p \in copies(n) THEN content(n) ELSE written(n)[p]]
          /\ workers' = Done(w, result(length, n))
          /\ recoveredFiles' = recoveredFiles + Counted(result(length, n))
  BY <1>0
<1>2. /\ workers[w].ids # <<>> /\ id \in Ids /\ path \in Chosen(Records[id].name)
      /\ path \in DOMAIN dest \ Existing
  BY DEF WriteAndSettle, RecoveryInv, PathsChosen, Writing, Current
<1>3. id \in Nat /\ path \in Paths
  BY <1>2, ResultTypes, ChosenType DEF RecoveryInv
<1>4. length \in Nat \cup {Corrupt}
  BY <1>2, LengthFacts
<1> DEFINE r == result(length, n)
<1>5. /\ r.id = id /\ r.path = path /\ r.size = (IF length = Corrupt THEN 0 ELSE length)
      /\ r.success => ~r.zeroFilled /\ length # Corrupt
  BY DEF Outcome
<1>6. r \in ResultType
  <2>1. (IF length = Corrupt THEN 0 ELSE length) \in Nat
    BY <1>4
  <2>2. r = [id |-> r.id, path |-> r.path, size |-> r.size, zeroFilled |-> r.zeroFilled,
             success |-> r.success]
    BY DEF Outcome
  <2> HIDE DEF r, id, path, sectors
  <2>3. [id |-> r.id, path |-> r.path, size |-> r.size, zeroFilled |-> r.zeroFilled,
         success |-> r.success] \in ResultType
    <3>1. r.id \in Nat /\ r.path \in Paths /\ r.size \in Nat
      BY <1>3, <1>5, <2>1
    <3>2. r.success \in BOOLEAN /\ r.zeroFilled \in BOOLEAN
      BY DEF Outcome, r
    <3> QED
      BY <3>1, <3>2, ResultRecord
  <2> QED
    BY <2>2, <2>3
<1>7. \A p \in copies(n) : p \notin DOMAIN dest /\ \A name : p \notin Chosen(name)
  BY <1>2, RepairedPath
<1>8. recoveredFiles' = recoveredFiles + (IF r.success THEN 1 ELSE 0)
  BY <1>1, <1>5 DEF Counted, CountsAsRecovered
<1>9. r.success /\ ~DestMayFill =>
        content(n) = Evidence(id) /\ r.size = Delivered(Records[id]) /\ Enough(id)
  <2> SUFFICES ASSUME r.success, ~DestMayFill
               PROVE  content(n) = Evidence(id) /\ r.size = Delivered(Records[id]) /\ Enough(id)
    OBVIOUS
  <2>1. n = length
    BY <1>1
  <2>2. Outcome(id, path, SubSeq(Sectors(id), 1, length), length, copies(n) # {}).success
    <3> HIDE DEF copies
    <3> QED
      BY <2>1
  <2>3. SubSeq(Sectors(id), 1, length) = Evidence(id) /\ length = Delivered(Records[id]) /\ Enough(id)
    <3> HIDE DEF copies
    <3> QED
      BY <1>2, <2>2, SuccessIsWhole
  <2> HIDE DEF r
  <2> QED
    BY <1>5, <2>1, <2>3
<1> HIDE DEF r, copies, content
<1>10. /\ DOMAIN dest' = DOMAIN dest \cup copies(n)
       /\ dest'[path] = content(n)
       /\ \A p \in DOMAIN dest : p # path => dest'[p] = dest[p]
  BY <1>1, <1>2, <1>7 DEF Put
<1>11. workers' = Done(w, r)
  BY <1>1 DEF r
<1> QED
  BY <1>5, <1>6, <1>7, <1>8, <1>9, <1>10, <1>11

LEMMA WriteKeeps ==
    ASSUME RecoveryInv, NoRivals, NEW w \in DOMAIN workers, WriteAndSettle(w) PROVE Kept
<1> DEFINE path == workers[w].path
<1>1. /\ Writing(w) /\ workers[w].ids # <<>> /\ Head(workers[w].ids) \in Ids
      /\ path \in DOMAIN dest \ Existing
  BY DEF WriteAndSettle, RecoveryInv, PathsChosen, Writing
<1>2. PICK r \in ResultType :
          /\ workers' = Done(w, r)
          /\ recoveredFiles' = recoveredFiles + (IF r.success THEN 1 ELSE 0)
          /\ r.id = Head(workers[w].ids) /\ r.path = path
          /\ DOMAIN dest \subseteq DOMAIN dest'
          /\ \A p \in DOMAIN dest : p # path => dest'[p] = dest[p]
          /\ \A p \in DOMAIN dest' \ DOMAIN dest : \A name : p \notin Chosen(name)
          /\ r.success /\ ~DestMayFill =>
               /\ dest'[path] = Evidence(Head(workers[w].ids))
               /\ r.size = Delivered(Records[Head(workers[w].ids)]) /\ Enough(Head(workers[w].ids))
  BY Written
<1>0. PICK new : new = <<w, Len(workers[w].results) + 1>>
  OBVIOUS
<1>3. /\ RecoveryType' /\ DOMAIN workers' = DOMAIN workers
      /\ \A v \in DOMAIN workers : v # w => workers'[v] = workers[v]
      /\ workers'[w].pc = "record" /\ workers'[w].ids = Tail(workers[w].ids)
      /\ new \notin Successes /\ Result(new)' = r
      /\ Successes' = IF r.success THEN Successes \cup {new} ELSE Successes
      /\ \A s \in Successes : Result(s)' = Result(s)
  BY <1>0, <1>1, <1>2, ResultGiven DEF RecoveryInv
<1>4. \A v \in DOMAIN workers : Writing(v)' =>
          /\ v # w /\ Writing(v) /\ workers'[v] = workers[v] /\ workers[v].path # path
          /\ Current(v)' = Current(v)
  <2> SUFFICES ASSUME NEW v \in DOMAIN workers, Writing(v)'
               PROVE  /\ v # w /\ Writing(v) /\ workers'[v] = workers[v]
                      /\ workers[v].path # path /\ Current(v)' = Current(v)
    OBVIOUS
  <2>1. v # w
    BY <1>3 DEF Writing
  <2>2. workers'[v] = workers[v] /\ Writing(v) /\ Current(v)' = Current(v)
    BY <1>3, <2>1 DEF Writing, Current
  <2> QED
    BY <1>1, <2>1, <2>2, RivalPaths
<1>5. PathsChosen'
  <2> SUFFICES ASSUME NEW v \in DOMAIN workers, Writing(v)'
               PROVE  /\ workers'[v].ids # <<>> /\ Head(workers'[v].ids) \in Ids
                      /\ workers'[v].path \in Chosen(Current(v)'.name)
                      /\ workers'[v].pc = "open" => workers'[v].path \notin DOMAIN dest'
                      /\ workers'[v].pc = "write" => workers'[v].path \in DOMAIN dest' \ Existing
    BY <1>3 DEF PathsChosen, Writing
  <2>1. /\ workers[v].ids # <<>> /\ Head(workers[v].ids) \in Ids
        /\ workers[v].path \in Chosen(Current(v).name)
        /\ workers[v].pc = "open" => workers[v].path \notin DOMAIN dest
        /\ workers[v].pc = "write" => workers[v].path \in DOMAIN dest \ Existing
    BY <1>4 DEF RecoveryInv, PathsChosen
  <2> QED
    BY <1>2, <1>4, <2>1
<1>6. \A s \in Successes : /\ Result(s).path \in DOMAIN dest \ Existing
                           /\ Result(s).path # path
  <2>1. workers[w].pc = "write"
    BY DEF WriteAndSettle
  <2> QED
    BY <2>1 DEF RecoveryInv, FilesKept
<1>7. \A s \in Successes' : s \in Successes \/ (s = new /\ r.success)
  BY <1>3
<1>8. FilesKept'
  <2>1. \A p \in Existing : p \in DOMAIN dest' /\ dest'[p] = <<Zero>>
    BY <1>1, <1>2 DEF RecoveryInv, FilesKept
  <2>2. \A s \in Successes' : Result(s)'.path \in DOMAIN dest' \ Existing
    BY <1>1, <1>2, <1>3, <1>6, <1>7
  <2>3. \A s \in Successes' : \A v \in DOMAIN workers' :
            workers'[v].pc = "write" => workers'[v].path # Result(s)'.path
    <3> SUFFICES ASSUME NEW s \in Successes', NEW v \in DOMAIN workers, workers'[v].pc = "write"
                 PROVE  workers'[v].path # Result(s)'.path
      BY <1>3
    <3>1. workers'[v] = workers[v] /\ workers[v].path # path
      BY <1>4 DEF Writing
    <3>2. CASE s \in Successes
      BY <1>3, <3>1, <3>2 DEF RecoveryInv, FilesKept
    <3>3. CASE s = new
      BY <1>2, <1>3, <3>1, <3>3
    <3> QED
      BY <1>7, <3>2, <3>3
  <2>4. \A q, s \in Successes' : Result(q)'.path = Result(s)'.path => q = s
    <3>1. \A q, s \in Successes : Result(q).path = Result(s).path => q = s
      BY DEF RecoveryInv, FilesKept
    <3> QED
      BY <1>2, <1>3, <1>6, <1>7, <3>1
  <2> QED
    BY <2>1, <2>2, <2>3, <2>4 DEF FilesKept
<1>9. Counts'
  <2>1. IsFiniteSet(Successes) /\ recoveredFiles = Cardinality(Successes)
    BY DEF RecoveryInv, Counts
  <2>2. /\ IsFiniteSet(Successes \cup {new})
        /\ Cardinality(Successes \cup {new}) = Cardinality(Successes) + 1
    BY <1>3, <2>1, FS_AddElement
  <2>3. Cardinality(Successes) \in Nat
    BY <2>1, FS_CardinalityType
  <2> QED
    BY <1>2, <1>3, <2>1, <2>2, <2>3 DEF Counts
<1>10. ~DestMayFill /\ FilesTrue => FilesTrue'
  <2> SUFFICES ASSUME ~DestMayFill, FilesTrue, NEW s \in Successes'
               PROVE  LET id == Result(s)'.id
                      IN  /\ id \in Ids /\ dest'[Result(s)'.path] = Evidence(id)
                          /\ Result(s)'.size = Delivered(Records[id]) /\ Enough(id)
    BY DEF FilesTrue
  <2>1. CASE s \in Successes
    BY <1>2, <1>3, <1>6, <2>1 DEF FilesTrue
  <2>2. CASE s = new /\ r.success
    BY <1>1, <1>2, <1>3, <2>2
  <2> QED
    BY <1>7, <2>1, <2>2
<1>11. IdsOfRequest'
  BY <1>1, <1>3, IdsGoOn
<1> QED
  BY <1>3, <1>5, <1>8, <1>9, <1>10, <1>11 DEF Kept, RecoveryInv

----------------------------------------------------------------------------
(* The theorems                                                            *)

LEMMA RecoveryInitInv == RecoveryInit => RecoveryInv /\ FilesTrue
<1> SUFFICES ASSUME RecoveryInit PROVE RecoveryInv /\ FilesTrue
  OBVIOUS
<1>1. workers = <<>> /\ DOMAIN workers = {} /\ recoveredFiles = 0
  BY DEF RecoveryInit
<1>2. Successes = {}
  BY <1>1 DEF Successes, Reported
<1>3. RecoveryType
  BY <1>1, RecoveryAssumption DEF RecoveryType
<1>4. PathsChosen /\ IdsOfRequest
  BY <1>1 DEF PathsChosen, IdsOfRequest
<1>5. FilesKept
  BY <1>2 DEF FilesKept, RecoveryInit
<1>6. Counts
  BY <1>1, <1>2, FS_EmptySet DEF Counts
<1>7. FilesTrue
  BY <1>2 DEF FilesTrue
<1> QED
  BY <1>3, <1>4, <1>5, <1>6, <1>7 DEF RecoveryInv

LEMMA RecoveryStep ==
    ASSUME RecoveryInv, NoRivals, [RecoveryNext]_recoveryVars PROVE Kept
<1>1. CASE Recover
  BY <1>1, RecoverKeeps
<1>2. CASE OtherOperation
  BY <1>2, OtherKeeps DEF OtherOperation
<1>3. ASSUME NEW w \in DOMAIN workers, RecoverWorker(w) PROVE Kept
  <2>1. CASE ChoosePath(w)
    BY <2>1, ChoosePathKeeps
  <2>2. CASE OpenDest(w)
    BY <2>2, OpenDestKeeps
  <2>3. CASE WriteAndSettle(w)
    BY <2>3, WriteKeeps
  <2>4. CASE Fulfil(w)
    BY <2>4, FulfilKeeps
  <2>5. CASE Throws(w)
    BY <2>5, ThrowsKeeps
  <2> QED
    BY <1>3, <2>1, <2>2, <2>3, <2>4, <2>5 DEF RecoverWorker
<1>4. CASE UNCHANGED recoveryVars
  BY <1>4, OtherKeeps DEF recoveryVars
<1> QED
  BY <1>1, <1>2, <1>3, <1>4 DEF RecoveryNext

LEMMA InvSaysMore ==
    /\ RecoveryInv => NothingOverwritten /\ CountIsHonest
    /\ RecoveryInv /\ FilesTrue => ReportIsTrue
<1>1. RecoveryInv => NothingOverwritten /\ CountIsHonest
  BY DEF RecoveryInv, FilesKept, Counts, NothingOverwritten, CountIsHonest
<1>2. FilesTrue => SuccessIsTrue
  BY DEF FilesTrue, SuccessIsTrue, Evidence, Enough
<1> QED
  BY <1>1, <1>2 DEF ReportIsTrue

\* Of requests that share no name, no two write files of one name.
LEMMA ApartNoRivals == ASSUME RequestsApart, RecoveryInv PROVE NoRivals
<1>1. ASSUME NEW w \in DOMAIN workers, Writing(w)
      PROVE  w \in DOMAIN Requests /\ Current(w).name \in NamesOf(Requests[w].ids)
  <2> DEFINE ids == workers[w].ids
  <2>1. ids \in Seq(Nat) /\ ids # <<>> /\ Head(ids) \in Ids
    BY <1>1, WorkersFacts DEF WorkerType, RecoveryInv, PathsChosen
  <2>2. 1 \in DOMAIN ids /\ Head(ids) = ids[1]
    <3> HIDE DEF ids
    <3> QED
      BY <2>1
  <2>3. PICK j \in DOMAIN Requests[w].ids : Requests[w].ids[j] = ids[1]
    BY <2>2 DEF RecoveryInv, IdsOfRequest
  <2>4. w \in DOMAIN Requests
    <3> HIDE DEF WorkerType
    <3>1. workers \in Seq(WorkerType) /\ Len(workers) <= Len(Requests)
      BY DEF RecoveryInv, RecoveryType
    <3>2. Len(Requests) \in Nat /\ DOMAIN Requests = 1..Len(Requests)
      BY RecoveryAssumption
    <3> QED
      BY <3>1, <3>2
  <2>5. Current(w).name = Records[Requests[w].ids[j]].name /\ Requests[w].ids[j] \in Ids
    BY <2>1, <2>2, <2>3 DEF Current
  <2> QED
    BY <2>4, <2>5 DEF NamesOf
<1> SUFFICES ASSUME NEW v \in DOMAIN workers, NEW w \in DOMAIN workers,
                    v # w, Writing(v), Writing(w)
             PROVE  Current(v).name # Current(w).name
  BY DEF NoRivals
<1>2. /\ v \in DOMAIN Requests /\ Current(v).name \in NamesOf(Requests[v].ids)
      /\ w \in DOMAIN Requests /\ Current(w).name \in NamesOf(Requests[w].ids)
  BY <1>1
<1> QED
  BY <1>2 DEF RequestsApart

\* No recovery touches what was in the folder before it, and no two files are
\* recovered to the same path, as long as no two requests are between the
\* choice of a path and the end of the write with files of one name: one
\* uniqueDestPath does not see what the other has found free.  Whatever fails,
\* throws or runs full on the way, and however the requests interleave.
THEOREM NothingIsOverwritten == RecoverySpec /\ []NoRivals => []NothingOverwritten
<1>1. RecoveryInit => RecoveryInv
  BY RecoveryInitInv
<1>2. RecoveryInv /\ NoRivals /\ [RecoveryNext]_recoveryVars => RecoveryInv'
  BY RecoveryStep DEF Kept
<1>3. RecoveryInv => NothingOverwritten
  BY InvSaysMore
<1> QED
  BY <1>1, <1>2, <1>3, PTL DEF RecoverySpec

\* A file reported as recovered holds the sectors of the evidence, in their
\* order, and is as long as the result says, which for a compressed file may be
\* less than the file; of a deleted one enough of them; and the count in the
\* database is the number of such reports, if the destination does not run full
\* (no write is checked) and under the same condition on names.
THEOREM ReportsAreTrue ==
    ASSUME ~DestMayFill PROVE RecoverySpec /\ []NoRivals => []ReportIsTrue
<1>1. RecoveryInit => RecoveryInv /\ FilesTrue
  BY RecoveryInitInv
<1>2. RecoveryInv /\ FilesTrue /\ NoRivals /\ [RecoveryNext]_recoveryVars
        => RecoveryInv' /\ FilesTrue'
  BY RecoveryStep DEF Kept
<1>3. RecoveryInv /\ FilesTrue => ReportIsTrue
  BY InvSaysMore
<1> QED
  BY <1>1, <1>2, <1>3, PTL DEF RecoverySpec

\* Requests that share no file name need no condition on their interleaving
\* for either; nor does a folder that fills up cost the files already there or
\* the count.
THEOREM ApartIsSafe ==
    ASSUME RequestsApart
    PROVE  /\ RecoverySpec => [](NothingOverwritten /\ CountIsHonest)
           /\ ~DestMayFill => (RecoverySpec => []ReportIsTrue)
<1>1. RecoveryInit => RecoveryInv /\ FilesTrue
  BY RecoveryInitInv
<1>2. RecoveryInv /\ [RecoveryNext]_recoveryVars => RecoveryInv'
  BY RecoveryStep, ApartNoRivals DEF Kept
<1>3. RecoveryInv => NothingOverwritten /\ CountIsHonest
  BY InvSaysMore
<1>4. RecoverySpec => [](NothingOverwritten /\ CountIsHonest)
  BY <1>1, <1>2, <1>3, PTL DEF RecoverySpec
<1>5. ASSUME ~DestMayFill PROVE RecoverySpec => []ReportIsTrue
  <2>1. RecoveryInv /\ FilesTrue /\ [RecoveryNext]_recoveryVars => RecoveryInv' /\ FilesTrue'
    BY <1>5, RecoveryStep, ApartNoRivals DEF Kept
  <2>2. RecoveryInv /\ FilesTrue => ReportIsTrue
    BY InvSaysMore
  <2> QED
    BY <1>1, <2>1, <2>2, PTL DEF RecoverySpec
<1> QED
  BY <1>4, <1>5
=============================================================================
