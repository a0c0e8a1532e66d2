------------------------ MODULE ParallelCarve_proofs ------------------------
(***************************************************************************)
(* Theorems of the carve phase, for any list of ranges, any number of      *)
(* workers and any capacity of the queue; and of the map that says which   *)
(* ranges a deep scan carves, for any disks.                               *)
(***************************************************************************)
EXTENDS ParallelCarve, FreeSpace, FiniteSetTheorems, NaturalRecursion, TLAPS

\* The thread-free states of the calling thread: before the workers are started
\* and in the sequential loop, and after they were joined.
Alone == {"plan", "range", "chunk", "emit", "flush"}
Joined == {"drain", "drainCall", "final"}

Threads ==
    wpc \in [Workers -> {"none", "next", "scan", "push", "full", "tick", "exit"}]

\* Between plan and join the calling thread never leaves the branch it is in.
CarveInv ==
    /\ Threads
    /\ cpc \in Alone => \A w \in Workers : wpc[w] = "none"
    /\ cpc \in Joined => AllExited
    /\ NoThreadLeft

\* No thread is there before the phase plans.
LEMMA CarveStarts == Init => CarveInv
  BY DEF Init, CarveInv, Threads, Alone, Joined, NoThreadLeft

\* A step of a worker is a step of one that is neither absent nor gone.
LEMMA WorkerKeeps == ASSUME CarveInv, NEW w \in Workers, Worker(w) PROVE CarveInv'
<1>1. wpc[w] \in {"next", "scan", "push", "tick"} /\ cpc' = cpc
  BY DEF Worker, ClaimRange, GoHome, ReadChunk, EndRange, BreakOff, Push, TickWorker, WorkerThrows,
         workerFrame
<1>2. \E s \in {"next", "scan", "push", "full", "tick", "exit"} : wpc' = [wpc EXCEPT ![w] = s]
  <2>1. CASE ClaimRange(w)
    BY <2>1 DEF ClaimRange
  <2>2. CASE GoHome(w)
    BY <2>2 DEF GoHome
  <2>3. CASE ReadChunk(w)
    BY <2>3 DEF ReadChunk
  <2>4. CASE EndRange(w) \/ BreakOff(w)
    BY <2>4 DEF EndRange, BreakOff
  <2>5. CASE Push(w)
    BY <2>5 DEF Push
  <2>6. CASE TickWorker(w)
    BY <2>6 DEF TickWorker
  <2>7. CASE WorkerThrows(w)
    BY <2>7 DEF WorkerThrows
  <2> QED
    BY <2>1, <2>2, <2>3, <2>4, <2>5, <2>6, <2>7 DEF Worker
<1>3. cpc \notin Alone /\ cpc \notin Joined /\ cpc \notin {"done", "thrown"}
  BY <1>1 DEF CarveInv, AllExited, NoThreadLeft
<1>4. Threads'
  BY <1>2 DEF CarveInv, Threads
<1> QED
  BY <1>1, <1>3, <1>4 DEF CarveInv, NoThreadLeft

\* The calling thread goes on alone only after every worker is gone.
LEMMA CallerKeeps == ASSUME CarveInv, Caller PROVE CarveInv'
<1>0. Threads /\ (cpc \in Alone => \A w \in Workers : wpc[w] = "none")
      /\ (cpc \in Joined => AllExited)
  BY DEF CarveInv
<1>1. CASE StartWorkers
  <2>1. Threads' /\ cpc' = "pop"
    BY <1>1 DEF StartWorkers, Threads
  <2> QED
    BY <2>1 DEF CarveInv, Alone, Joined, NoThreadLeft
<1>2. CASE FallBack \/ EnterRange \/ CarveChunk \/ EmitChunk \/ FlushRange \/ LeaveRange
  <2>1. cpc \in Alone /\ wpc' = wpc /\ cpc' \in Alone \cup {"done"}
    BY <1>2 DEF FallBack, EnterRange, CarveChunk, EmitChunk, FlushRange, LeaveRange, seqFrame, workerVars, Alone
  <2> QED
    BY <1>0, <2>1 DEF CarveInv, Threads, Alone, Joined, NoThreadLeft
<1>3. CASE \/ Pop("pop", "notify") \/ Deliver("call", "pop") \/ Poll \/ LeaveLoop
  <2>1. wpc' = wpc /\ cpc' \in {"notify", "pop", "poll", "join"}
    BY <1>3 DEF Pop, Deliver, Poll, LeaveLoop, workerVars
  <2> QED
    BY <1>0, <2>1 DEF CarveInv, Threads, Alone, Joined, NoThreadLeft
<1>4. CASE Notify
  <2>1. cpc' = "call"
    BY <1>4 DEF Notify
  <2>2. Threads'
    BY <1>0, <1>4 DEF Notify, Threads
  <2> QED
    BY <2>1, <2>2 DEF CarveInv, Alone, Joined, NoThreadLeft
<1>5. CASE JoinWorkers \/ Rethrow
  <2>1. wpc' = wpc /\ AllExited /\ cpc' \in {"drain", "thrown"}
    BY <1>5 DEF JoinWorkers, Rethrow, workerVars
  <2> QED
    BY <1>0, <2>1 DEF CarveInv, Threads, Alone, Joined, NoThreadLeft, AllExited
<1>6. CASE Pop("drain", "drainCall") \/ Deliver("drainCall", "drain") \/ Drained \/ ReportTotal
  <2>1. wpc' = wpc /\ cpc \in Joined /\ cpc' \in Joined \cup {"done"}
    BY <1>6 DEF Pop, Deliver, Drained, ReportTotal, workerVars, Joined
  <2> QED
    BY <1>0, <2>1 DEF CarveInv, Threads, Alone, Joined, NoThreadLeft, AllExited
<1>7. CASE CallbackThrows
  <2>1. wpc' = wpc /\ (cpc' = "throw" \/ (cpc' = "thrown" /\ cpc \in Alone))
    BY <1>7 DEF CallbackThrows, workerVars, Alone
  <2> QED
    BY <1>0, <2>1 DEF CarveInv, Threads, Alone, Joined, NoThreadLeft
<1>8. CASE Abandon
  <2>1. cpc' = "joinThrow" /\ Threads'
    BY <1>0, <1>8 DEF Abandon, Threads
  <2> QED
    BY <2>1 DEF CarveInv, Alone, Joined, NoThreadLeft
<1> QED
  BY <1>1, <1>2, <1>3, <1>4, <1>5, <1>6, <1>7, <1>8 DEF Caller

\* scan_coordinator.cpp:1094-1099: whichever way the phase ends, by return from
\* either branch or by an exception, no thread of it is joinable.
THEOREM NoThreadLeftBehind == Spec => []NoThreadLeft
<1>1. CarveInv /\ [Next]_vars => CarveInv'
  <2> SUFFICES ASSUME CarveInv, [Next]_vars PROVE CarveInv'
    OBVIOUS
  <2>1. CASE Caller
    BY <2>1, CallerKeeps
  <2>2. CASE \E w \in Workers : Worker(w)
    BY <2>2, WorkerKeeps
  <2>3. CASE Stop \/ UNCHANGED vars
    <3>1. cpc' = cpc /\ wpc' = wpc
      BY <2>3 DEF Stop, vars, workerVars
    <3> QED
      BY <3>1 DEF CarveInv, Threads, NoThreadLeft, AllExited
  <2> QED
    BY <2>1, <2>2, <2>3 DEF Next
<1>2. CarveInv => NoThreadLeft
  BY DEF CarveInv
<1> QED
  BY CarveStarts, <1>1, <1>2, PTL DEF Spec

----------------------------------------------------------------------------
(* Ranges, chunks and positions                                            *)

LEMMA RangeFacts ==
    /\ Len(Lens) \in Nat /\ Len(Lens) > 0 /\ Ranges = 1..Len(Lens)
    /\ \A r \in Ranges : Lens[r] \in Nat /\ Lens[r] > 0
  BY CarveAssumption DEF Ranges

\* The recursive definition of before has a solution.
LEMMA BeforeFacts ==
    /\ before \in [Ranges -> Nat] /\ before[1] = 0
    /\ \A r \in Ranges : r + 1 \in Ranges => before[r + 1] = before[r] + Lens[r]
<1> DEFINE Fits(f, n) == /\ f \in [1..n -> Nat]
                         /\ \A r \in 1..n : f[r] = IF r = 1 THEN 0 ELSE f[r - 1] + Lens[r - 1]
           Without == {n \in 0..Len(Lens) : ~\E f : Fits(f, n)}
<1>1. \E f : Fits(f, 0)
  <2>1. [r \in 1..0 |-> 0] \in [1..0 -> Nat] /\ 1..0 = {}
    OBVIOUS
  <2>2. Fits([r \in 1..0 |-> 0], 0)
    BY <2>1
  <2> QED
    BY <2>2
<1>2. ASSUME NEW n \in 1..Len(Lens), NEW f, Fits(f, n - 1) PROVE \E g : Fits(g, n)
  <2> DEFINE g == [r \in 1..n |-> IF r < n THEN f[r]
                                  ELSE IF n = 1 THEN 0 ELSE f[n - 1] + Lens[n - 1]]
  <2>1. ASSUME NEW r \in 1..n
        PROVE  g[r] \in Nat /\ g[r] = IF r = 1 THEN 0 ELSE g[r - 1] + Lens[r - 1]
    <3>1. n \in Nat /\ (n # 1 => n - 1 \in 1..(n - 1) /\ Lens[n - 1] \in Nat)
      BY RangeFacts
    <3>2. CASE r < n
      <4>1. r \in 1..(n - 1) /\ g[r] = f[r] /\ (r # 1 => r - 1 \in 1..(n - 1) /\ g[r - 1] = f[r - 1])
        BY <3>1, <3>2
      <4> QED
        BY <1>2, <4>1
    <3>3. CASE r = n
      <4>1. n # 1 => g[n - 1] = f[n - 1] /\ f[n - 1] \in Nat
        BY <1>2, <3>1
      <4>2. g[n] = IF n = 1 THEN 0 ELSE f[n - 1] + Lens[n - 1]
        BY <3>1
      <4> HIDE DEF g
      <4> QED
        BY <3>1, <3>3, <4>1, <4>2
    <3> QED
      BY <3>1, <3>2, <3>3
  <2>2. DOMAIN g = 1..n
    OBVIOUS
  <2>3. g \in [1..n -> Nat]
    BY <2>1
  <2> HIDE DEF g
  <2> QED
    BY <2>1, <2>3
<1> HIDE DEF Fits
<1>3. Without = {}
  <2> SUFFICES ASSUME Without # {} PROVE FALSE
    OBVIOUS
  <2>1. Without \subseteq Nat
    BY RangeFacts
  <2>2. PICK n \in Without : \A m \in Without : n <= m
    BY <2>1, LeastNatural
  <2>3. n \in 1..Len(Lens)
    BY <1>1, RangeFacts
  <2>4. n - 1 \in 0..Len(Lens) /\ ~(n <= n - 1)
    BY <2>3, RangeFacts
  <2>5. n - 1 \notin Without
    BY <2>2, <2>4
  <2>6. PICK f : Fits(f, n - 1)
    BY <2>4, <2>5
  <2> QED
    BY <1>2, <2>3, <2>6
<1>4. PICK f : Fits(f, Len(Lens))
  BY <1>3, RangeFacts
<1>5. f \in [Ranges -> Nat] /\ f = [r \in Ranges |-> IF r = 1 THEN 0 ELSE f[r - 1] + Lens[r - 1]]
  BY <1>4, RangeFacts DEF Fits
<1>6. before = [r \in Ranges |-> IF r = 1 THEN 0 ELSE before[r - 1] + Lens[r - 1]]
  BY <1>5 DEF before
<1>7. /\ before[1] = 0
      /\ \A r \in Ranges : r + 1 \in Ranges => before[r + 1] = before[r] + Lens[r]
  <2>1. 1 \in Ranges
    BY RangeFacts
  <2>2. ASSUME NEW r \in Ranges, r + 1 \in Ranges PROVE before[r + 1] = before[r] + Lens[r]
    <3>1. r + 1 # 1 /\ (r + 1) - 1 = r
      BY RangeFacts
    <3> QED
      BY <1>6, <2>2, <3>1
  <2> QED
    BY <1>6, <2>1, <2>2
<1>8. \A r \in Ranges : before[r] \in Nat
  <2> DEFINE Others == {r \in Ranges : before[r] \notin Nat}
  <2> SUFFICES ASSUME Others # {} PROVE FALSE
    OBVIOUS
  <2>1. Others \subseteq Nat
    BY RangeFacts
  <2>2. PICK r \in Others : \A q \in Others : r <= q
    BY <2>1, LeastNatural
  <2>3. r # 1
    BY <1>7, <2>2
  <2>4. r - 1 \in Ranges /\ ~(r <= r - 1) /\ (r - 1) + 1 = r
    BY <2>2, <2>3, RangeFacts
  <2>5. before[r - 1] \in Nat /\ Lens[r - 1] \in Nat
    BY <2>2, <2>4, RangeFacts
  <2>6. before[r] = before[r - 1] + Lens[r - 1]
    BY <1>7, <2>2, <2>4
  <2> QED
    BY <2>2, <2>5, <2>6
<1>9. DOMAIN before = Ranges
  BY <1>6
<1> QED
  BY <1>6, <1>7, <1>8, <1>9

\* Ranges follow each other, and the last ends at the total.
LEMMA RangesFollow ==
    /\ \A r, q \in Ranges : r < q => before[r] + Lens[r] <= before[q]
    /\ \A r \in Ranges : before[r] + Lens[r] <= Total
    /\ Total \in Nat
<1>1. ASSUME NEW r \in Ranges PROVE \A q \in Ranges : r < q => before[r] + Lens[r] <= before[q]
  <2> DEFINE Behind == {q \in Ranges : r < q /\ ~(before[r] + Lens[r] <= before[q])}
  <2> SUFFICES ASSUME Behind # {} PROVE FALSE
    OBVIOUS
  <2>1. Behind \subseteq Nat
    BY RangeFacts
  <2>2. PICK q \in Behind : \A p \in Behind : q <= p
    BY <2>1, LeastNatural
  <2>3. q - 1 \in Ranges /\ ~(q <= q - 1) /\ (q - 1) + 1 = q /\ q \in Ranges /\ r <= q - 1
    BY <2>2, RangeFacts
  <2>4. before[q] = before[q - 1] + Lens[q - 1] /\ before[q - 1] \in Nat /\ Lens[q - 1] \in Nat
        /\ before[r] \in Nat /\ Lens[r] \in Nat
    BY <2>3, BeforeFacts, RangeFacts
  <2>5. CASE r = q - 1
    BY <2>2, <2>4, <2>5
  <2>6. CASE r # q - 1
    <3>1. q - 1 \notin Behind /\ r < q - 1
      BY <2>2, <2>3, <2>6, RangeFacts
    <3> QED
      BY <2>2, <2>3, <2>4, <3>1
  <2> QED
    BY <2>5, <2>6
<1>2. Len(Lens) \in Ranges
  BY RangeFacts
<1>3. ASSUME NEW r \in Ranges PROVE before[r] + Lens[r] <= Total
  <2>1. CASE r = Len(Lens)
    BY <1>2, <2>1, BeforeFacts, RangeFacts DEF Total
  <2>2. CASE r # Len(Lens)
    <3>1. r < Len(Lens)
      BY <2>2, RangeFacts
    <3>2. before[r] + Lens[r] <= before[Len(Lens)]
      BY <1>1, <1>2, <3>1
    <3>3. before[r] \in Nat /\ Lens[r] \in Nat /\ before[Len(Lens)] \in Nat /\ Lens[Len(Lens)] \in Nat
      BY <1>2, BeforeFacts, RangeFacts
    <3> QED
      BY <3>2, <3>3 DEF Total
  <2> QED
    BY <2>1, <2>2
<1>4. Total \in Nat
  BY <1>2, BeforeFacts, RangeFacts DEF Total
<1> QED
  BY <1>1, <1>3, <1>4

\* A place is a number within its range, or one more than it has.
LEMMA PlaceFacts ==
    /\ \A r \in Ranges, k \in Nat : <<r, k>> \in Places <=> k \in 1..(Lens[r] + 1)
    /\ \A c \in Places : c = <<c[1], c[2]>> /\ c[1] \in Ranges /\ c[2] \in 1..(Lens[c[1]] + 1)
    /\ \A c \in Chunks : c \in Places /\ c[2] \in 1..Lens[c[1]]
    /\ \A c \in Places : Opens[c] \in Nat /\ Opens[c] <= c[2] /\ Opens[c] <= Lens[c[1]]
<1>1. ASSUME NEW r \in Ranges, NEW k \in Nat PROVE <<r, k>> \in Places <=> k \in 1..(Lens[r] + 1)
  <2>1. before[r] \in Nat /\ Lens[r] \in Nat /\ before[r] + Lens[r] <= Total /\ Total \in Nat
    BY BeforeFacts, RangeFacts, RangesFollow
  <2>2. k \in 1..(Lens[r] + 1) => k \in 1..(Total + 1)
    BY <2>1
  <2> QED
    BY <2>1, <2>2, RangesFollow DEF Places
<1>2. ASSUME NEW c \in Places
      PROVE  c = <<c[1], c[2]>> /\ c[1] \in Ranges /\ c[2] \in 1..(Lens[c[1]] + 1)
  BY RangesFollow, RangeFacts DEF Places
<1>3. ASSUME NEW c \in Chunks PROVE c \in Places /\ c[2] \in 1..Lens[c[1]]
  <2>1. c \in Places /\ c[2] <= Lens[c[1]]
    BY DEF Chunks
  <2> QED
    BY <1>2, <2>1, RangeFacts
<1>4. ASSUME NEW c \in Places PROVE Opens[c] \in Nat /\ Opens[c] <= c[2] /\ Opens[c] <= Lens[c[1]]
  BY CarveAssumption
<1> QED
  BY <1>1, <1>2, <1>3, <1>4

\* What a resume at some place leaves of a range
LEMMA FirstFromFacts ==
    ASSUME NEW p \in Int, NEW r \in Ranges
    PROVE  /\ FirstFrom(p, r) \in Nat /\ FirstFrom(p, r) <= Lens[r]
           /\ before[r] + Lens[r] > p => FirstFrom(p, r) < Lens[r]
           /\ before[r] + Lens[r] <= p => FirstFrom(p, r) = Lens[r]
           /\ \A k \in 1..Lens[r] : k <= FirstFrom(p, r) <=> before[r] + k <= p
<1>1. before[r] \in Nat /\ Lens[r] \in Nat /\ Lens[r] > 0
  BY BeforeFacts, RangeFacts
<1> QED
  BY <1>1 DEF FirstFrom

\* What this phase finds done in a range: a range that is passed over whole counts with its end.
Start(r) == IF First(r) = Lens[r] THEN Lens[r] + 1 ELSE First(r)

LEMMA ResumeFacts ==
    ASSUME resume \in Nat
    PROVE  /\ \A r \in Ranges : First(r) \in Nat /\ First(r) <= Lens[r]
           /\ \A r \in Ranges : before[r] + Lens[r] > resume => First(r) < Lens[r]
           /\ \A r \in Ranges : before[r] + Lens[r] <= resume => First(r) = Lens[r]
           /\ \A r \in Ranges : r \in Pending <=> First(r) < Lens[r]
           /\ \A r \in Ranges, k \in Nat :
                <<r, k>> \in PendingPlaces <=> k \in 1..(Lens[r] + 1) /\ k > Start(r)
           /\ \A c \in Places : Position(c) \in Nat
           /\ Files \subseteq PendingPlaces
           /\ \A c \in Files : c[2] > First(c[1]) /\ First(c[1]) < Lens[c[1]]
<1>1. ASSUME NEW r \in Ranges
      PROVE  /\ First(r) \in Nat /\ First(r) <= Lens[r]
             /\ before[r] + Lens[r] > resume => First(r) < Lens[r]
             /\ before[r] + Lens[r] <= resume => First(r) = Lens[r]
  BY FirstFromFacts DEF First
<1>2. ASSUME NEW r \in Ranges PROVE r \in Pending <=> First(r) < Lens[r]
  <2>1. Lens[r] \in Nat /\ First(r) \in Nat
    BY <1>1, RangeFacts
  <2> QED
    BY <2>1 DEF Pending, Left
<1>3. ASSUME NEW r \in Ranges, NEW k \in Nat
      PROVE  <<r, k>> \in PendingPlaces <=> k \in 1..(Lens[r] + 1) /\ k > Start(r)
  <2>1. Lens[r] \in Nat /\ First(r) \in Nat /\ First(r) <= Lens[r]
    BY <1>1, RangeFacts
  <2>2. <<r, k>> \in PendingPlaces <=> k \in 1..(Lens[r] + 1) /\ First(r) < Lens[r] /\ k > First(r)
    BY <1>2, PlaceFacts DEF PendingPlaces
  <2> QED
    BY <2>1, <2>2 DEF Start
<1>4. ASSUME NEW c \in Places PROVE Position(c) \in Nat
  <2>1. before[c[1]] \in Nat /\ c[2] \in Nat
    BY PlaceFacts, BeforeFacts, RangeFacts
  <2> QED
    BY <2>1 DEF Position
<1>5. ASSUME NEW c \in Files PROVE c \in PendingPlaces /\ c[2] > First(c[1]) /\ First(c[1]) < Lens[c[1]]
  <2>1. c \in Places /\ Opens[c] > First(c[1])
    BY DEF Files, FilesFrom, First
  <2>2. /\ c[1] \in Ranges /\ c[2] \in Nat /\ Opens[c] \in Nat /\ Opens[c] <= c[2] /\ Opens[c] <= Lens[c[1]]
        /\ Lens[c[1]] \in Nat /\ First(c[1]) \in Nat
    BY <1>1, <2>1, PlaceFacts, RangeFacts
  <2>3. First(c[1]) < Lens[c[1]] /\ c[2] > First(c[1])
    BY <2>1, <2>2
  <2> QED
    BY <1>2, <2>1, <2>2, <2>3 DEF PendingPlaces
<1> QED
  BY <1>1, <1>2, <1>3, <1>4, <1>5

\* The work list names every range that is left, and none of them twice.
LEMMA WorkFacts ==
    ASSUME resume \in Nat
    PROVE  /\ Len(Work) \in Nat
           /\ \A i \in 1..Len(Work) : Work[i] \in Pending
           /\ \A i, j \in 1..Len(Work) : Work[i] = Work[j] => i = j
           /\ \A r \in Pending : \E i \in 1..Len(Work) : Work[i] = r
           /\ Len(Work) = Cardinality(Pending)
<1> DEFINE N == Cardinality(Pending)
           Ahead(r) == {q \in Pending : Earlier(q, r)}
           Rank == [r \in Pending |-> Cardinality(Ahead(r))]
<1>1. IsFiniteSet(Pending) /\ N \in Nat
  <2>1. IsFiniteSet(1..Len(Lens)) /\ Pending \subseteq 1..Len(Lens)
    BY FS_Interval, RangeFacts DEF Pending
  <2> QED
    BY <2>1, FS_Subset, FS_CardinalityType
<1>2. \A r \in Pending : Left(r) \in Nat /\ r \in Nat
  BY ResumeFacts, RangeFacts DEF Pending, Left
<1>3. /\ \A r \in Pending : ~Earlier(r, r)
      /\ \A p, q, r \in Pending : Earlier(p, q) /\ Earlier(q, r) => Earlier(p, r)
      /\ \A q, r \in Pending : q # r => Earlier(q, r) \/ Earlier(r, q)
  BY <1>2 DEF Earlier
<1>4. \A r \in Pending : IsFiniteSet(Ahead(r)) /\ Cardinality(Ahead(r)) \in 0..(N - 1)
  <2> TAKE r \in Pending
  <2>1. IsFiniteSet(Ahead(r)) /\ Cardinality(Ahead(r)) \in Nat /\ Cardinality(Ahead(r)) <= N
        /\ (Cardinality(Ahead(r)) = N => Ahead(r) = Pending)
    <3>1. Ahead(r) \in SUBSET Pending
      OBVIOUS
    <3> QED
      BY <1>1, <3>1, FS_Subset, FS_CardinalityType
  <2>2. Ahead(r) # Pending
    BY <1>3
  <2> QED
    BY <1>1, <2>1, <2>2
<1>5. ASSUME NEW q \in Pending, NEW r \in Pending, Earlier(q, r)
      PROVE  Cardinality(Ahead(q)) < Cardinality(Ahead(r))
  <2>1. Ahead(q) \in SUBSET Ahead(r)
    BY <1>3, <1>5
  <2>2. q \in Ahead(r) /\ q \notin Ahead(q)
    BY <1>3, <1>5
  <2>3. Cardinality(Ahead(q)) <= Cardinality(Ahead(r)) /\ Cardinality(Ahead(q)) # Cardinality(Ahead(r))
    BY <1>4, <2>1, <2>2, FS_Subset
  <2>4. Cardinality(Ahead(q)) \in Int /\ Cardinality(Ahead(r)) \in Int
    BY <1>4
  <2> QED
    BY <2>3, <2>4
<1>6. \A q, r \in Pending : Cardinality(Ahead(q)) = Cardinality(Ahead(r)) => q = r
  <2> SUFFICES ASSUME NEW q \in Pending, NEW r \in Pending, q # r
               PROVE  Cardinality(Ahead(q)) # Cardinality(Ahead(r))
    OBVIOUS
  <2>1. Cardinality(Ahead(q)) \in Int /\ Cardinality(Ahead(r)) \in Int
    BY <1>4
  <2> QED
    BY <1>3, <1>5, <2>1
<1> HIDE DEF Ahead
<1>7. \A i \in 1..N : \E r \in Pending : Cardinality(Ahead(r)) = i - 1
  <2>1. Rank \in Injection(Pending, 0..(N - 1))
    BY <1>4, <1>6 DEF Injection, IsInjective
  <2>2. IsFiniteSet(0..(N - 1)) /\ Cardinality(0..(N - 1)) = N
    BY <1>1, FS_Interval
  <2>3. Rank \in Surjection(Pending, 0..(N - 1))
    BY <2>1, <2>2, FS_Injection
  <2>4. \A k \in 0..(N - 1) : \E r \in Pending : Cardinality(Ahead(r)) = k
    BY <2>3 DEF Surjection
  <2> QED
    BY <1>1, <2>4
<1>8. Work = [i \in 1..N |-> CHOOSE r \in Pending : Cardinality(Ahead(r)) = i - 1]
  BY DEF Work, Ahead
<1> HIDE DEF N, Rank
<1>9. \A i \in 1..N : Work[i] \in Pending /\ Cardinality(Ahead(Work[i])) = i - 1
  BY <1>7, <1>8
<1>10. Work \in [1..N -> Pending]
  <2>1. DOMAIN Work = 1..N /\ Work = [i \in DOMAIN Work |-> Work[i]]
    BY <1>8
  <2> QED
    BY <1>9, <2>1
<1>11. Len(Work) = N
  BY <1>1, <1>10 DEF N
<1>12. \A i, j \in 1..N : Work[i] = Work[j] => i = j
  <2> SUFFICES ASSUME NEW i \in 1..N, NEW j \in 1..N, Work[i] = Work[j] PROVE i = j
    OBVIOUS
  <2>1. i - 1 = j - 1 /\ i \in Int /\ j \in Int
    BY <1>9
  <2> QED
    BY <2>1
<1>13. ASSUME NEW r \in Pending PROVE \E i \in 1..N : Work[i] = r
  <2>1. PICK k \in 0..(N - 1) : Cardinality(Ahead(r)) = k
    BY <1>4 DEF N
  <2>2. k + 1 \in 1..N /\ (k + 1) - 1 = k
    BY <1>1, <2>1 DEF N
  <2>3. Work[k + 1] \in Pending /\ Cardinality(Ahead(Work[k + 1])) = k
    BY <1>9, <2>2
  <2> QED
    BY <1>6, <2>1, <2>2, <2>3
<1> QED
  BY <1>1, <1>9, <1>11, <1>12, <1>13 DEF N

----------------------------------------------------------------------------
(* The records of the phase                                                *)

Branch == {"pop", "notify", "call", "poll", "join", "drain", "drainCall", "final",
           "throw", "joinThrow"}
InHand == {"notify", "call", "drainCall", "emit", "flush"}
Active == {"scan", "push", "full", "tick"}
Pushing == {"push", "full"}

CarveType ==
    /\ mode \in {"parallel", "sequential"} /\ resume \in Nat
    /\ isRunning \in BOOLEAN /\ workerFailed \in BOOLEAN /\ closed \in BOOLEAN
    /\ cpc \in Alone \cup Branch \cup {"done", "thrown"}
    /\ (cpc \in Branch => mode = "parallel")
    /\ (consumerGone => cpc \in {"joinThrow", "thrown"})
    /\ wrange \in [Workers -> Ranges] /\ wpos \in [Workers -> Nat]
    /\ nextRange \in Nat \ {0}
    /\ queue \in Seq(Files) /\ delivered \in Seq(Files)
    /\ srange \in 1..(Len(Lens) + 1) /\ spos \in Nat
    /\ last \in Int /\ checkpoint \in Int /\ scannedSectors \in Int
    /\ carved \subseteq Places

\* Of range r the set S of places has the first n.
HasFirst(S, r, n) == \A k \in 1..(Lens[r] + 1) : <<r, k>> \in S <=> k <= n
CarvedTo(r, n) == HasFirst(carved, r, n)

Workable == 1..Len(Work)
Scans(w, i) == wpc[w] \in Active /\ wrange[w] = Work[i]

\* No worker scans a range before it was claimed or along with another, and
\* a claimed range is finished or being scanned, unless the phase was cut short.
Shared ==
    /\ \A i \in Workable : i >= nextRange => CarvedTo(Work[i], First(Work[i]))
    /\ \A w \in Workers : wpc[w] \in Active =>
         /\ \E i \in Workable : i < nextRange /\ wrange[w] = Work[i]
         /\ CarvedTo(wrange[w], wpos[w])
         /\ First(wrange[w]) <= wpos[w] /\ wpos[w] <= Lens[wrange[w]] + 1
         /\ wpc[w] \in Pushing => <<wrange[w], wpos[w]>> \in Files
         /\ wpc[w] \notin Pushing => wpos[w] <= Lens[wrange[w]]
    /\ \A v, w \in Workers :
         wpc[v] \in Active /\ wpc[w] \in Active /\ v # w => wrange[v] # wrange[w]
    /\ isRunning /\ ~workerFailed =>
         /\ \A i \in Workable : i < nextRange =>
              (\E w \in Workers : Scans(w, i)) \/ CarvedTo(Work[i], Lens[Work[i]] + 1)
         /\ cpc \notin {"throw", "joinThrow"} =>
              (\E w \in Workers : wpc[w] # "exit") \/ nextRange > Len(Work)

\* The sequential loop carves the ranges in the order of the list.
InOrder ==
    /\ cpc = "plan" => srange = 1 /\ nextRange = 1
    /\ \A r \in Ranges : r > srange \/ (r = srange /\ cpc \in {"plan", "range"})
                           => CarvedTo(r, Start(r))
    /\ cpc \in {"chunk", "emit", "flush"} =>
         /\ srange \in Ranges /\ CarvedTo(srange, spos)
         /\ First(srange) <= spos /\ First(srange) < Lens[srange]
         /\ IF cpc = "flush" THEN spos = Lens[srange] + 1 ELSE spos <= Lens[srange]
    /\ cpc \in {"emit", "flush"} => record = <<srange, spos>> /\ First(srange) < spos
    /\ isRunning => \A r \in Ranges : r < srange => CarvedTo(r, Lens[r] + 1)

Carving ==
    /\ cpc \in Alone => InOrder
    /\ cpc \in Branch => Shared
    /\ cpc = "done" /\ isRunning /\ ~workerFailed => PendingPlaces \subseteq carved

ChunkOf(w) == <<wrange[w], wpos[w]>>

\* Every file whose carve closed is in one place: delivered, queued, in the hand
\* of the calling thread or in that of a worker that waits to push it.
OnePlace ==
    /\ IsInjective(delivered) /\ IsInjective(queue) /\ Range(delivered) \cap Range(queue) = {}
    /\ Range(delivered) \cup Range(queue) \subseteq carved
    /\ cpc \in InHand \ {"emit", "flush"} => record \in Files
    /\ cpc \in InHand =>
         /\ record \in carved
         /\ record \notin Range(delivered) /\ record \notin Range(queue)
    /\ \A w \in Workers : wpc[w] \in Pushing =>
         /\ ChunkOf(w) \notin Range(delivered) /\ ChunkOf(w) \notin Range(queue)
         /\ cpc \in InHand => record # ChunkOf(w)
    /\ cpc \in Alone \cup {"final", "done"} => queue = <<>>
    /\ closed => cpc \in Joined \cup {"throw", "joinThrow", "done", "thrown"}
    /\ isRunning /\ cpc \notin {"throw", "joinThrow", "thrown"} =>
         \A c \in carved \cap Files :
           \/ c \in Range(delivered) \/ c \in Range(queue)
           \/ cpc \in InHand /\ c = record
           \/ \E w \in Workers : wpc[w] \in Pushing /\ c = ChunkOf(w)

\* How far the sequential loop is with its range: what is in its hand is not yet
\* handed over.
Reach == IF cpc \in {"plan", "range", "done"} THEN 0
         ELSE IF cpc = "chunk" THEN spos ELSE spos - 1
Behind(c) == c[1] < srange \/ (c[1] = srange /\ c[2] <= Reach)

\* What the loop has behind it was read and handed over, and no report but
\* those of the resume is of more.
CheckpointMet ==
    mode = "sequential" /\ isRunning =>
        /\ \A c \in Places : Behind(c) => c \in carved /\ (c \in Files => c \in Range(delivered))
        /\ \A p \in {last, checkpoint} :
             p <= resume \/ srange \notin Ranges \/ p <= before[srange] + Reach
        /\ srange \in Ranges => Reach <= Lens[srange]
        /\ \A c \in Places : Position(c) <= resume /\ c[2] <= Lens[c[1]] => c \in carved

PhaseInv == CarveInv /\ CarveType /\ Carving /\ OnePlace /\ CheckpointMet

----------------------------------------------------------------------------
(* The steps                                                               *)

\* What a phase is given to do does not change.
LEMMA ResumeStays ==
    ASSUME [Next]_vars
    PROVE  /\ resume' = resume /\ mode' = mode /\ Work' = Work
           /\ PendingPlaces' = PendingPlaces /\ Files' = Files
           /\ \A r : First(r)' = First(r) /\ Start(r)' = Start(r)
<1>1. resume' = resume /\ mode' = mode
  BY DEF Next, Caller, Worker, Stop, StartWorkers, FallBack, Pop, Notify, Deliver, Poll, LeaveLoop,
         JoinWorkers, Drained, ReportTotal, CallbackThrows, Abandon, Rethrow, EnterRange,
         CarveChunk, EmitChunk, FlushRange, LeaveRange, ClaimRange, GoHome, ReadChunk, EndRange, BreakOff, Push,
         TickWorker, WorkerThrows, vars, workerFrame, seqFrame
<1>2. \A r : First(r)' = First(r) /\ Start(r)' = Start(r)
  BY <1>1 DEF First, FirstFrom, Start
<1>3. PendingPlaces' = PendingPlaces /\ Files' = Files
  BY <1>1 DEF PendingPlaces, Pending, Left, First, Files, FilesFrom, FirstFrom
<1>4. Work' = Work
  BY <1>1 DEF Work, Pending, Earlier, Left, First, FirstFrom
<1> QED
  BY <1>1, <1>2, <1>3, <1>4

\* The meter and the checkpoint stay numbers.
LEMMA TickType ==
    ASSUME last \in Int, NEW p \in Int, Tick(p)
    PROVE  /\ last' \in Int /\ checkpoint' \in Int /\ checkpoint' = last' /\ last' \in {last, p}
  BY DEF Tick

\* The report of the ranges passed over, if there are any
LEMMA ReportType ==
    ASSUME last \in Int, checkpoint \in Int, ReportSkipped
    PROVE  last' \in Int /\ checkpoint' \in Int
<1>1. CASE Skipped = {}
  BY <1>1 DEF ReportSkipped, meterVars
<1>2. CASE Skipped # {}
  <2> DEFINE FromEnd == {Len(Lens) - s : s \in Skipped}
  <2>1. Skipped \subseteq 1..Len(Lens) /\ FromEnd \subseteq Nat /\ FromEnd # {}
    BY <1>2, RangeFacts DEF Skipped
  <2>2. PICK n \in FromEnd : \A m \in FromEnd : n <= m
    BY <2>1, LeastNatural
  <2>3. PICK s \in Skipped : n = Len(Lens) - s
    BY <2>2, Zenon
  <2>4. ASSUME NEW q \in Skipped PROVE q <= s
    <3>1. Len(Lens) - q \in FromEnd
      OBVIOUS
    <3>2. n <= Len(Lens) - q /\ q \in Int /\ s \in Int
      BY <2>1, <2>2, <3>1
    <3> QED
      BY <2>3, <3>2, RangeFacts
  <2> DEFINE Farthest == CHOOSE p \in Skipped : \A q \in Skipped : q <= p
  <2>5. Farthest \in Skipped
    BY <2>3, <2>4
  <2>6. before[Farthest] + Lens[Farthest] \in Int
    BY <2>5, BeforeFacts, RangeFacts DEF Skipped
  <2>7. Tick(before[Farthest] + Lens[Farthest])
    BY <1>2 DEF ReportSkipped
  <2> QED
    BY <2>6, <2>7, TickType
<1> QED
  BY <1>1, <1>2

LEMMA ParallelTickType ==
    ASSUME CarveType, Tick(ParallelProgress(scannedSectors))
    PROVE  last' \in Int /\ checkpoint' \in Int
<1>1. ParallelProgress(scannedSectors) \in Int
  BY RangesFollow DEF ParallelProgress, CarveType
<1> QED
  BY <1>1, TickType DEF CarveType

\* Which actions touch what
LEMMA Touched ==
    ASSUME [Next]_vars
    PROVE  /\ \/ \E w \in Workers : ClaimRange(w) \/ ReadChunk(w) \/ EndRange(w)
              \/ UNCHANGED <<wrange, wpos, nextRange>>
           /\ \/ Pop("pop", "notify") \/ Pop("drain", "drainCall")
              \/ \E w \in Workers : Push(w)
              \/ UNCHANGED queue
           /\ \/ Deliver("call", "pop") \/ Deliver("drainCall", "drain") \/ EmitChunk \/ LeaveRange
              \/ UNCHANGED delivered
           /\ EnterRange \/ CarveChunk \/ FlushRange \/ LeaveRange \/ UNCHANGED <<srange, spos>>
           /\ \/ CarveChunk \/ FlushRange \/ (\E w \in Workers : ReadChunk(w) \/ EndRange(w))
              \/ UNCHANGED carved
           /\ \/ StartWorkers \/ FallBack \/ Poll \/ Drained \/ ReportTotal
              \/ EnterRange \/ EmitChunk \/ LeaveRange
              \/ UNCHANGED <<last, checkpoint>>
           /\ (\E w \in Workers : TickWorker(w)) \/ UNCHANGED scannedSectors
  BY DEF Next, Caller, Worker, StartWorkers, FallBack, Pop, Notify, Deliver, Poll, LeaveLoop, JoinWorkers, Drained,
         ReportTotal, CallbackThrows, Abandon, Rethrow, EnterRange, CarveChunk, EmitChunk,
         FlushRange, LeaveRange, ClaimRange, GoHome, ReadChunk, EndRange, BreakOff, Push, TickWorker, WorkerThrows,
         Stop, vars, workerFrame, seqFrame, workerVars, queueVars, seqVars, meterVars

LEMMA TypeKept == ASSUME PhaseInv, [Next]_vars PROVE CarveType'
<1>0. /\ CarveType /\ Files' = Files /\ resume' = resume /\ mode' = mode
      /\ Total \in Nat /\ Len(Lens) \in Nat /\ Len(Lens) > 0 /\ Ranges = 1..Len(Lens)
      /\ \A r \in Ranges : before[r] \in Nat /\ Lens[r] \in Nat /\ First(r) \in Nat
  BY ResumeStays, RangesFollow, RangeFacts, BeforeFacts, ResumeFacts DEF PhaseInv, CarveType
<1> USE DEF Alone, Branch
<1>1. ASSUME Caller PROVE /\ cpc' \in Alone \cup Branch \cup {"done", "thrown"}
                          /\ cpc' \in Branch => mode = "parallel"
                          /\ consumerGone' => cpc' \in {"joinThrow", "thrown"}
  BY <1>0, <1>1
     DEF Caller, StartWorkers, FallBack, Pop, Notify, Deliver, Poll, LeaveLoop, JoinWorkers, Drained,
         ReportTotal, CallbackThrows, Abandon, Rethrow, EnterRange, CarveChunk, EmitChunk, FlushRange, LeaveRange,
         seqFrame, CarveType
<1>2. ASSUME ~Caller PROVE cpc' = cpc /\ consumerGone' = consumerGone
  BY <1>2
     DEF Next, Worker, ClaimRange, GoHome, ReadChunk, EndRange, BreakOff, Push, TickWorker,
         WorkerThrows, Stop, vars, workerFrame
<1>3. isRunning' \in BOOLEAN /\ workerFailed' \in BOOLEAN /\ closed' \in BOOLEAN
  BY <1>0
     DEF Next, Caller, Worker, StartWorkers, FallBack, Pop, Notify, Deliver, Poll, LeaveLoop,
         JoinWorkers, Drained, ReportTotal, CallbackThrows, Abandon, Rethrow, EnterRange, CarveChunk,
         EmitChunk, FlushRange, LeaveRange, ClaimRange, GoHome, ReadChunk, EndRange, BreakOff, Push, TickWorker,
         WorkerThrows, Stop, vars, workerFrame, seqFrame, workerVars, queueVars, CarveType
<1>4. wrange' \in [Workers -> Ranges] /\ wpos' \in [Workers -> Nat] /\ nextRange' \in Nat \ {0}
  <2>1. ASSUME NEW w \in Workers, ClaimRange(w)
        PROVE  wrange' \in [Workers -> Ranges] /\ wpos' \in [Workers -> Nat] /\ nextRange' \in Nat \ {0}
    <3>1. ~Exhausted(nextRange) => Work[nextRange] \in Ranges
      <4>1. resume \in Nat /\ nextRange \in Nat /\ nextRange > 0
        BY <1>0 DEF CarveType
      <4>2. Len(Work) \in Nat /\ \A i \in 1..Len(Work) : Work[i] \in Ranges
        BY <4>1, WorkFacts DEF Pending
      <4> QED
        BY <4>1, <4>2 DEF Exhausted
    <3>2. /\ wrange \in [Workers -> Ranges] /\ wpos \in [Workers -> Nat] /\ nextRange \in Nat \ {0}
      BY <1>0 DEF CarveType
    <3>3. /\ nextRange' = nextRange + 1
          /\ \/ UNCHANGED <<wrange, wpos>>
             \/ /\ Work[nextRange] \in Ranges /\ First(Work[nextRange]) \in Nat
                /\ wrange' = [wrange EXCEPT ![w] = Work[nextRange]]
                /\ wpos' = [wpos EXCEPT ![w] = First(Work[nextRange])]
      BY <1>0, <2>1, <3>1 DEF ClaimRange
    <3> QED
      BY <3>2, <3>3
  <2>2. ASSUME NEW w \in Workers, ReadChunk(w) \/ EndRange(w)
        PROVE  wrange' \in [Workers -> Ranges] /\ wpos' \in [Workers -> Nat] /\ nextRange' \in Nat \ {0}
    <3>1. wpos' = [wpos EXCEPT ![w] = @ + 1] /\ wrange' = wrange /\ nextRange' = nextRange
      BY <2>2 DEF ReadChunk, EndRange
    <3>2. wrange \in [Workers -> Ranges] /\ wpos \in [Workers -> Nat] /\ nextRange \in Nat \ {0}
      BY <1>0 DEF CarveType
    <3> QED
      BY <3>1, <3>2
  <2> QED
    BY <1>0, <2>1, <2>2, Touched DEF CarveType
<1>5. queue' \in Seq(Files)
  <2>1. CASE Pop("pop", "notify") \/ Pop("drain", "drainCall")
    <3>1. queue \in Seq(Files) /\ queue # <<>> /\ queue' = Tail(queue)
      BY <1>0, <2>1 DEF Pop, CarveType
    <3> QED
      BY <1>0, <3>1
  <2>2. ASSUME NEW w \in Workers, Push(w) PROVE queue' \in Seq(Files)
    <3>1. cpc \in Branch /\ wpc[w] \in Pushing
      BY <1>0, <2>2 DEF Push, PhaseInv, CarveInv, NoThreadLeft, CarveType, Pushing
    <3> DEFINE c == <<wrange[w], wpos[w]>>
    <3>2. c \in Files
      BY <3>1 DEF PhaseInv, Carving, Shared, Active, Pushing
    <3>3. queue \in Seq(Files) /\ (queue' = queue \/ queue' = Append(queue, c))
      BY <1>0, <2>2 DEF Push, CarveType
    <3> HIDE DEF c
    <3> QED
      BY <3>2, <3>3
  <2> QED
    BY <1>0, <2>1, <2>2, Touched DEF CarveType
<1>6. delivered' \in Seq(Files)
  <2>1. CASE Deliver("call", "pop") \/ Deliver("drainCall", "drain") \/ EmitChunk \/ LeaveRange
    <3>1. delivered \in Seq(Files)
          /\ (delivered' = delivered \/ (record \in Files /\ delivered' = Append(delivered, record)))
      BY <1>0, <2>1 DEF PhaseInv, OnePlace, Deliver, EmitChunk, LeaveRange, HandOver, CarveType, InHand
    <3> QED
      BY <3>1
  <2> QED
    BY <1>0, <2>1, Touched DEF CarveType
<1>7. srange' \in 1..(Len(Lens) + 1) /\ spos' \in Nat
  <2>1. srange \in Nat /\ srange > 0 /\ spos \in Nat /\ srange <= Len(Lens) + 1
    BY <1>0 DEF CarveType
  <2>2. CASE EnterRange
    BY <1>0, <2>1, <2>2 DEF EnterRange
  <2>3. CASE CarveChunk \/ FlushRange
    BY <1>0, <2>1, <2>3 DEF CarveChunk, FlushRange
  <2>4. CASE LeaveRange
    <3>1. srange \in Ranges
      BY <2>4 DEF LeaveRange, PhaseInv, Carving, InOrder
    <3> QED
      BY <1>0, <2>1, <2>4, <3>1 DEF LeaveRange
  <2> QED
    BY <1>0, <2>1, <2>2, <2>3, <2>4, Touched DEF CarveType
<1>8. last' \in Int /\ checkpoint' \in Int
  <2>1. last \in Int /\ checkpoint \in Int
    BY <1>0 DEF CarveType
  <2>2. CASE StartWorkers \/ FallBack
    BY <2>1, <2>2, ReportType DEF StartWorkers, FallBack, meterVars
  <2>3. CASE Poll \/ Drained
    BY <1>0, <2>3, ParallelTickType DEF Poll, Drained
  <2>4. CASE ReportTotal
    BY <1>0, <2>1, <2>4, TickType DEF ReportTotal
  <2>5. CASE EnterRange \/ EmitChunk \/ LeaveRange
    <3>1. (\E p \in Int : Tick(p)) \/ UNCHANGED meterVars
      <4>1. CASE EmitChunk \/ LeaveRange
        <5>1. srange \in Ranges /\ spos \in Int
          BY <1>0, <4>1 DEF EmitChunk, FlushRange, LeaveRange, PhaseInv, Carving, InOrder, CarveType
        <5> QED
          BY <1>0, <4>1, <5>1 DEF EmitChunk, FlushRange, LeaveRange
      <4>2. CASE EnterRange
        <5>1. srange \in Ranges \/ srange > Len(Lens)
          BY <1>0 DEF CarveType
        <5> QED
          BY <1>0, <4>2, <5>1 DEF EnterRange, meterVars
      <4> QED
        BY <2>5, <4>1, <4>2
    <3> QED
      BY <2>1, <3>1, TickType DEF meterVars
  <2> QED
    BY <2>1, <2>2, <2>3, <2>4, <2>5, Touched
<1>9. scannedSectors' \in Int
  <2>1. ASSUME NEW w \in Workers, TickWorker(w) PROVE scannedSectors' \in Int
    <3>1. wpos[w] \in Int /\ First(wrange[w]) \in Int /\ scannedSectors \in Int
      BY <1>0 DEF CarveType
    <3> QED
      BY <2>1, <3>1 DEF TickWorker
  <2> QED
    BY <1>0, <2>1, Touched DEF CarveType
<1>10. carved' \subseteq Places
  <2>1. CASE CarveChunk \/ FlushRange
    <3>1. srange \in Ranges /\ spos + 1 \in 1..(Lens[srange] + 1) /\ spos + 1 \in Nat
      BY <1>0, <2>1 DEF CarveChunk, FlushRange, PhaseInv, Carving, InOrder, CarveType
    <3>2. <<srange, spos + 1>> \in Places
      BY <3>1, PlaceFacts
    <3> QED
      BY <1>0, <2>1, <3>2 DEF CarveChunk, FlushRange, CarveType
  <2>2. ASSUME NEW w \in Workers, ReadChunk(w) \/ EndRange(w) PROVE carved' \subseteq Places
    <3>1. wrange[w] \in Ranges /\ wpos[w] + 1 \in 1..(Lens[wrange[w]] + 1) /\ wpos[w] + 1 \in Nat
      BY <1>0, <2>2 DEF ReadChunk, EndRange, CarveType
    <3>2. <<wrange[w], wpos[w] + 1>> \in Places
      BY <3>1, PlaceFacts
    <3> QED
      BY <1>0, <2>2, <3>2 DEF ReadChunk, EndRange, CarveType
  <2> QED
    BY <1>0, <2>1, <2>2, Touched DEF CarveType
<1>11. cpc' \in Alone \cup Branch \cup {"done", "thrown"} /\ (cpc' \in Branch => mode' = "parallel")
       /\ (consumerGone' => cpc' \in {"joinThrow", "thrown"})
  <2>1. CASE Caller
    BY <1>0, <1>1, <2>1
  <2>2. CASE ~Caller
    BY <1>0, <1>2, <2>2 DEF CarveType
  <2> QED
    BY <2>1, <2>2
<1> QED
  BY <1>0, <1>3, <1>4, <1>5, <1>6, <1>7, <1>8, <1>9, <1>10, <1>11 DEF CarveType

\* Carving the next chunk of a range leaves the other ranges as they are.
LEMMA HasFirstMore ==
    ASSUME NEW S, NEW r \in Ranges, NEW n \in Nat, HasFirst(S, r, n)
    PROVE  /\ HasFirst(S \cup {<<r, n + 1>>}, r, n + 1)
           /\ \A q, m : q # r => (HasFirst(S \cup {<<r, n + 1>>}, q, m) <=> HasFirst(S, q, m))
<1>1. ASSUME NEW k \in 1..(Lens[r] + 1) PROVE <<r, k>> \in S \cup {<<r, n + 1>>} <=> k <= n + 1
  <2>1. k \in Int /\ (<<r, k>> = <<r, n + 1>> <=> k = n + 1)
    BY RangeFacts
  <2> QED
    BY <2>1 DEF HasFirst
<1> QED
  BY <1>1 DEF HasFirst

\* The steps that neither carve nor claim, start or leave a range.
LEMMA SharedStays ==
    ASSUME PhaseInv, cpc \in Branch, Work' = Work, Files' = Files, \A r : First(r)' = First(r),
           carved' = carved, UNCHANGED <<wrange, wpos, nextRange, workerFailed>>,
           isRunning' => isRunning,
           cpc \in {"throw", "joinThrow"} => cpc' \in {"throw", "joinThrow", "thrown"},
           \A w \in Workers : /\ wpc'[w] \in Active <=> wpc[w] \in Active
                              /\ wpc'[w] \in Pushing => wpc[w] \in Pushing
                              /\ wpc[w] \in Pushing => \/ wpc'[w] \in Pushing
                                                       \/ wpos[w] <= Lens[wrange[w]]
                              /\ wpc'[w] = "exit" <=> wpc[w] = "exit"
    PROVE  cpc' \in Branch => Shared'
<1> SUFFICES ASSUME cpc' \in Branch PROVE Shared'
  OBVIOUS
<1>1. Shared
  BY DEF PhaseInv, Carving
<1>2. cpc' \notin {"throw", "joinThrow"} => cpc \notin {"throw", "joinThrow"}
  BY DEF Branch
<1>3. \A w \in Workers, i \in Workable : Scans(w, i)' <=> Scans(w, i)
  BY DEF Scans
<1>4. Workable' = Workable /\ \A r, n : CarvedTo(r, n)' <=> CarvedTo(r, n)
  BY DEF Workable, CarvedTo
<1> QED
  BY <1>1, <1>2, <1>3, <1>4 DEF Shared, CarvedTo

\* A worker carves its own range only, and leaves it whole.
LEMMA SharedByWorker == ASSUME PhaseInv, NEW w \in Workers, Worker(w) PROVE Shared'
<1>0. /\ wpc \in [Workers -> {"none", "next", "scan", "push", "full", "tick", "exit"}]
      /\ wrange \in [Workers -> Ranges] /\ wpos \in [Workers -> Nat] /\ nextRange \in Nat
      /\ nextRange > 0 /\ resume \in Nat
  BY DEF PhaseInv, CarveType, CarveInv, Threads
<1>1. cpc \in Branch /\ cpc' = cpc /\ isRunning' = isRunning
  <2>1. wpc[w] \in {"next", "scan", "push", "tick"} /\ cpc' = cpc /\ isRunning' = isRunning
    BY DEF Worker, ClaimRange, GoHome, ReadChunk, EndRange, BreakOff, Push, TickWorker, WorkerThrows,
           workerFrame
  <2> QED
    BY <2>1 DEF PhaseInv, CarveInv, NoThreadLeft, CarveType
<1>2. Shared
  BY <1>1 DEF PhaseInv, Carving
<1>3. Workable' = Workable /\ Work' = Work /\ Files' = Files /\ \A r : First(r)' = First(r)
  BY ResumeStays DEF Next, Workable
<1>4. /\ Len(Work) \in Nat /\ \A i \in Workable : Work[i] \in Ranges /\ i \in Nat
      /\ \A i, j \in Workable : Work[i] = Work[j] => i = j
  BY <1>0, WorkFacts DEF Workable, Pending
<1>5. CASE ClaimRange(w)
  <2>1. /\ wpc[w] = "next" /\ nextRange' = nextRange + 1 /\ carved' = carved
        /\ workerFailed' = workerFailed
    BY <1>5 DEF ClaimRange
  <2>2. CASE Exhausted(nextRange)
    <3>1. wpc' = [wpc EXCEPT ![w] = "exit"] /\ wrange' = wrange /\ wpos' = wpos
      BY <1>5, <2>2 DEF ClaimRange
    <3>2. nextRange > Len(Work)
      BY <2>2 DEF Exhausted
    <3>3. /\ \A i \in Workable : i < nextRange
          /\ nextRange' > Len(Work)
      BY <1>0, <1>4, <2>1, <3>2 DEF Workable
    <3>4. \A v \in Workers : wpc'[v] \in Active => v # w /\ wpc'[v] = wpc[v]
      BY <1>0, <3>1 DEF Active
    <3>5. \A v \in Workers, i \in Workable : Scans(v, i) => Scans(v, i)'
      BY <1>0, <1>3, <2>1, <3>1 DEF Scans, Active
    <3>6. \A i \in Workable : ~(i >= nextRange') /\ (i < nextRange')
      BY <1>0, <1>4, <2>1, <3>3
    <3> QED
      BY <1>1, <1>2, <1>3, <2>1, <3>1, <3>3, <3>4, <3>5, <3>6 DEF Shared, CarvedTo
  <2>3. CASE ~Exhausted(nextRange)
    <3> DEFINE r == Work[nextRange]
    <3>1. /\ wpc' = [wpc EXCEPT ![w] = "scan"] /\ wrange' = [wrange EXCEPT ![w] = r]
          /\ wpos' = [wpos EXCEPT ![w] = First(r)]
      BY <1>5, <2>3 DEF ClaimRange
    <3>2. nextRange \in Workable /\ r \in Ranges
      BY <1>0, <1>4, <2>3 DEF Exhausted, Workable
    <3>3. CarvedTo(r, First(r)) /\ First(r) \in Nat /\ First(r) <= Lens[r]
      BY <1>0, <1>2, <3>2, ResumeFacts DEF Shared
    <3>4. wpc'[w] = "scan" /\ wrange'[w] = r /\ wpos'[w] = First(r)
          /\ \A v \in Workers : v # w => wpc'[v] = wpc[v] /\ wrange'[v] = wrange[v] /\ wpos'[v] = wpos[v]
      BY <1>0, <3>1
    <3> HIDE DEF r
    <3>5. \A i \in Workable : i >= nextRange' => CarvedTo(Work[i], First(Work[i]))
      BY <1>0, <1>2, <1>4, <2>1 DEF Shared
    <3>6. ASSUME NEW v \in Workers, wpc'[v] \in Active
          PROVE  /\ \E i \in Workable : i < nextRange' /\ wrange'[v] = Work[i]
                 /\ HasFirst(carved, wrange'[v], wpos'[v])
                 /\ First(wrange'[v]) <= wpos'[v] /\ wpos'[v] <= Lens[wrange'[v]] + 1
                 /\ wpc'[v] \in Pushing => <<wrange'[v], wpos'[v]>> \in Files
                 /\ wpc'[v] \notin Pushing => wpos'[v] <= Lens[wrange'[v]]
      <4>1. CASE v = w
        <5>1. nextRange < nextRange + 1 /\ First(r) <= First(r) /\ First(r) <= Lens[r] + 1
          BY <1>0, <3>2, <3>3, RangeFacts
        <5> QED
          BY <1>0, <2>1, <3>2, <3>3, <3>4, <4>1, <5>1 DEF r, CarvedTo, Pushing
      <4>2. CASE v # w
        <5>1. PICK i \in Workable : i < nextRange /\ wrange[v] = Work[i]
          BY <1>2, <3>4, <3>6, <4>2 DEF Shared
        <5>2. i < nextRange'
          BY <1>0, <1>4, <2>1, <5>1
        <5> QED
          BY <1>2, <3>4, <3>6, <4>2, <5>1, <5>2 DEF Shared, CarvedTo
      <4> QED
        BY <4>1, <4>2
    <3>7. ASSUME NEW u \in Workers, NEW v \in Workers, wpc'[u] \in Active, wpc'[v] \in Active, u # v
          PROVE  wrange'[u] # wrange'[v]
      <4>1. \A x \in Workers : x # w /\ wpc'[x] \in Active => wrange'[x] # r
        <5> SUFFICES ASSUME NEW x \in Workers, x # w, wpc'[x] \in Active PROVE wrange'[x] # r
          OBVIOUS
        <5>1. PICK i \in Workable : i < nextRange /\ wrange[x] = Work[i]
          BY <1>2, <3>4 DEF Shared
        <5>2. i # nextRange
          BY <1>0, <1>4, <5>1
        <5> QED
          BY <1>4, <3>2, <3>4, <5>1, <5>2 DEF r
      <4> QED
        BY <1>2, <3>4, <3>7, <4>1 DEF Shared
    <3>8. ASSUME isRunning, ~workerFailed, NEW i \in Workable, i < nextRange'
          PROVE  (\E v \in Workers : Scans(v, i)') \/ CarvedTo(Work[i], Lens[Work[i]] + 1)
      <4>1. CASE i = nextRange
        BY <1>3, <3>4, <4>1 DEF Scans, Active, r
      <4>2. CASE i # nextRange
        <5>1. i < nextRange
          BY <1>0, <1>4, <2>1, <3>8, <4>2
        <5>2. CASE CarvedTo(Work[i], Lens[Work[i]] + 1)
          BY <5>2
        <5>3. ASSUME NEW v \in Workers, Scans(v, i) PROVE Scans(v, i)'
          <6>1. v # w
            BY <2>1, <5>3 DEF Scans, Active
          <6> QED
            BY <1>3, <3>4, <5>3, <6>1 DEF Scans
        <5> QED
          BY <1>2, <3>8, <5>1, <5>2, <5>3 DEF Shared
      <4> QED
        BY <4>1, <4>2
    <3>9. wpc'[w] # "exit"
      BY <3>4
    <3> QED
      BY <1>1, <1>3, <2>1, <3>5, <3>6, <3>7, <3>8, <3>9 DEF Shared, CarvedTo
  <2> QED
    BY <2>2, <2>3
<1>6. CASE GoHome(w)
  <2>1. /\ wpc[w] = "next" /\ wpc' = [wpc EXCEPT ![w] = "exit"] /\ (consumerGone \/ ~isRunning)
        /\ UNCHANGED <<wrange, wpos, nextRange, workerFailed, carved>>
    BY <1>6 DEF GoHome
  <2>2. isRunning => cpc \in {"throw", "joinThrow"}
    BY <1>1, <2>1 DEF PhaseInv, CarveType, Branch
  <2>3. \A v \in Workers : wpc'[v] \in Active => v # w /\ wpc'[v] = wpc[v]
    BY <1>0, <2>1 DEF Active
  <2>4. \A v \in Workers, i \in Workable : Scans(v, i) => Scans(v, i)'
    BY <1>0, <1>3, <2>1 DEF Scans, Active
  <2> QED
    BY <1>1, <1>2, <1>3, <2>1, <2>2, <2>3, <2>4 DEF Shared, CarvedTo
<1>7. CASE ReadChunk(w) \/ EndRange(w)
  <2> DEFINE r == wrange[w]
             n == wpos[w]
             S == carved \cup {<<r, n + 1>>}
  <2>1. /\ wpc[w] = "scan" /\ n <= Lens[r] /\ carved' = S
        /\ wpos' = [wpos EXCEPT ![w] = n + 1]
        /\ \/ wpc' = [wpc EXCEPT ![w] = "push"] /\ <<r, n + 1>> \in Files
           \/ wpc' = [wpc EXCEPT ![w] = "tick"] /\ n < Lens[r]
           \/ wpc' = [wpc EXCEPT ![w] = "next"] /\ n = Lens[r]
        /\ UNCHANGED <<wrange, nextRange, workerFailed>>
    <3>1. n \in Nat /\ Lens[r] \in Nat
      BY <1>0, RangeFacts
    <3> QED
      BY <1>0, <1>7, <3>1 DEF ReadChunk, EndRange
  <2>2. r \in Ranges /\ n \in Nat /\ Lens[r] \in Nat /\ First(r) \in Nat
    BY <1>0, RangeFacts, ResumeFacts
  <2>3. /\ HasFirst(carved, r, n) /\ First(r) <= n
        /\ \E i \in Workable : i < nextRange /\ r = Work[i]
    BY <1>2, <2>1 DEF Shared, Active, CarvedTo
  <2>4. HasFirst(S, r, n + 1) /\ \A q, m : q # r => (HasFirst(S, q, m) <=> HasFirst(carved, q, m))
    BY <2>2, <2>3, HasFirstMore
  <2>5. /\ wpos'[w] = n + 1 /\ wrange' = wrange /\ wpc'[w] \in {"push", "tick", "next"}
        /\ wpc'[w] = "push" => <<r, n + 1>> \in Files
        /\ wpc'[w] = "tick" => n < Lens[r]
        /\ wpc'[w] = "next" => n = Lens[r]
        /\ \A v \in Workers : v # w => wpc'[v] = wpc[v] /\ wpos'[v] = wpos[v]
    BY <1>0, <2>1
  <2> HIDE DEF S, n
  <2>6. ASSUME NEW i \in Workable, i >= nextRange PROVE HasFirst(S, Work[i], First(Work[i]))
    <3>1. Work[i] # r
      BY <1>0, <1>4, <2>3, <2>6
    <3> QED
      BY <1>2, <2>4, <2>6, <3>1 DEF Shared, CarvedTo
  <2>7. \A v \in Workers : v # w /\ wpc[v] \in Active => wrange[v] # r
    BY <1>2, <2>1 DEF Shared, Active
  <2>8. ASSUME NEW v \in Workers, wpc'[v] \in Active
        PROVE  /\ \E i \in Workable : i < nextRange /\ wrange[v] = Work[i]
               /\ HasFirst(S, wrange[v], wpos'[v])
               /\ First(wrange[v]) <= wpos'[v] /\ wpos'[v] <= Lens[wrange[v]] + 1
               /\ wpc'[v] \in Pushing => <<wrange[v], wpos'[v]>> \in Files
               /\ wpc'[v] \notin Pushing => wpos'[v] <= Lens[wrange[v]]
    <3>1. CASE v = w
      <4>1. First(r) <= n + 1 /\ n + 1 <= Lens[r] + 1 /\ (n < Lens[r] => n + 1 <= Lens[r])
        BY <2>1, <2>2, <2>3
      <4>2. wpc'[v] \in {"push", "tick"}
        BY <2>5, <2>8, <3>1 DEF Active
      <4> QED
        BY <2>3, <2>4, <2>5, <3>1, <4>1, <4>2 DEF Pushing
    <3>2. CASE v # w
      BY <1>2, <2>4, <2>5, <2>7, <2>8, <3>2 DEF Shared, CarvedTo
    <3> QED
      BY <3>1, <3>2
  <2>9. \A v \in Workers : wpc'[v] \in Active => wpc[v] \in Active
    BY <2>1, <2>5 DEF Active
  <2>10. ASSUME isRunning, ~workerFailed, NEW i \in Workable, i < nextRange
         PROVE  (\E v \in Workers : Scans(v, i)') \/ HasFirst(S, Work[i], Lens[Work[i]] + 1)
    <3>1. \A v \in Workers : v # w => (Scans(v, i)' <=> Scans(v, i))
      BY <1>3, <2>5 DEF Scans
    <3>2. CASE Work[i] = r /\ wpc'[w] # "next"
      BY <1>3, <2>5, <3>2 DEF Scans, Active
    <3>3. CASE Work[i] = r /\ wpc'[w] = "next"
      BY <2>4, <2>5, <3>3
    <3>4. CASE Work[i] # r
      <4>1. \A v \in Workers : Scans(v, i) => v # w
        BY <3>4 DEF Scans
      <4> QED
        BY <1>2, <2>4, <2>10, <3>1, <3>4, <4>1 DEF Shared, CarvedTo
    <3> QED
      BY <3>2, <3>3, <3>4
  <2>11. wpc'[w] # "exit"
    BY <2>5
  <2>12. \A u, v \in Workers : wpc'[u] \in Active /\ wpc'[v] \in Active /\ u # v
                                 => wrange'[u] # wrange'[v]
    BY <1>2, <2>5, <2>9 DEF Shared
  <2> HIDE DEF r
  <2> QED
    BY <1>1, <1>3, <2>1, <2>5, <2>6, <2>8, <2>10, <2>11, <2>12 DEF Shared, CarvedTo
<1>8. CASE BreakOff(w) \/ (Push(w) /\ wpc'[w] = "next")
  <2>1. /\ wpc[w] \in Active /\ wpc' = [wpc EXCEPT ![w] = "next"]
        /\ ~isRunning \/ (wpc[w] = "push" /\ ~(wpos[w] <= Lens[wrange[w]]))
        /\ UNCHANGED <<wrange, wpos, nextRange, workerFailed, carved>>
    BY <1>0, <1>8 DEF BreakOff, Push, Active
  <2>2. \A v \in Workers : wpc'[v] \in Active => v # w /\ wpc'[v] = wpc[v]
    BY <1>0, <2>1 DEF Active
  <2>3. ASSUME isRunning, ~workerFailed, NEW i \in Workable, i < nextRange
        PROVE  (\E v \in Workers : Scans(v, i)') \/ CarvedTo(Work[i], Lens[Work[i]] + 1)
    <3>1. CASE Scans(w, i)
      <4>1. CarvedTo(wrange[w], wpos[w]) /\ wpos[w] <= Lens[wrange[w]] + 1
        BY <1>2, <2>1 DEF Shared
      <4>2. wpos[w] = Lens[wrange[w]] + 1
        BY <1>0, <2>1, <2>3, <4>1, RangeFacts
      <4> QED
        BY <2>1, <2>3, <3>1, <4>1, <4>2 DEF Scans
    <3>2. \A v \in Workers : v # w /\ Scans(v, i) => Scans(v, i)'
      BY <1>0, <1>3, <2>1 DEF Scans
    <3> QED
      BY <1>2, <2>3, <3>1, <3>2 DEF Shared
  <2>4. wpc'[w] # "exit"
    BY <1>0, <2>1
  <2> QED
    BY <1>1, <1>2, <1>3, <2>1, <2>2, <2>3, <2>4 DEF Shared, CarvedTo
<1>9. CASE (Push(w) /\ wpc'[w] # "next") \/ TickWorker(w)
  <2>1. /\ UNCHANGED <<wrange, wpos, nextRange, workerFailed, carved>>
        /\ \/ /\ wpc[w] = "push" /\ wpc' = [wpc EXCEPT ![w] = "tick"]
              /\ wpos[w] <= Lens[wrange[w]]
           \/ wpc[w] = "push" /\ wpc' = [wpc EXCEPT ![w] = "full"]
           \/ wpc[w] = "tick" /\ wpc' = [wpc EXCEPT ![w] = "scan"]
    BY <1>0, <1>9 DEF Push, TickWorker
  <2>2. \A v \in Workers : /\ wpc'[v] \in Active <=> wpc[v] \in Active
                           /\ wpc'[v] \in Pushing => wpc[v] \in Pushing
                           /\ wpc[v] \in Pushing => wpc'[v] \in Pushing \/ wpos[v] <= Lens[wrange[v]]
                           /\ wpc'[v] = "exit" <=> wpc[v] = "exit"
    BY <1>0, <2>1 DEF Active, Pushing
  <2> QED
    BY <1>1, <1>3, <2>1, <2>2, SharedStays
<1>10. CASE WorkerThrows(w)
  <2>1. /\ workerFailed' = TRUE /\ wpc' = [wpc EXCEPT ![w] = "exit"]
        /\ UNCHANGED <<wrange, wpos, nextRange, carved>>
    BY <1>10 DEF WorkerThrows
  <2>2. \A v \in Workers : wpc'[v] \in Active => v # w /\ wpc'[v] = wpc[v]
    BY <1>0, <2>1 DEF Active
  <2> QED
    BY <1>1, <1>2, <1>3, <2>1, <2>2 DEF Shared, CarvedTo
<1> QED
  BY <1>5, <1>6, <1>7, <1>8, <1>9, <1>10 DEF Worker

\* The sequential loop, and a plan that falls back on it
LEMMA InOrderKept ==
    ASSUME PhaseInv, cpc \in Alone, Caller
    PROVE  /\ cpc' \in Alone => InOrder'
           /\ cpc' = "done" /\ isRunning => PendingPlaces \subseteq carved
<1>0. /\ resume \in Nat /\ srange \in Nat /\ srange > 0 /\ srange <= Len(Lens) + 1 /\ spos \in Nat
      /\ Len(Lens) \in Nat /\ Ranges = 1..Len(Lens)
      /\ \A r \in Ranges : Lens[r] \in Nat /\ First(r) \in Nat /\ First(r) <= Lens[r]
  BY RangeFacts, ResumeFacts DEF PhaseInv, CarveType
<1>1. InOrder
  BY DEF PhaseInv, Carving
<1>2. isRunning' = isRunning /\ \A r : First(r)' = First(r) /\ Start(r)' = Start(r)
  <2>1. isRunning' = isRunning
    BY DEF Caller, StartWorkers, FallBack, Pop, Notify, Deliver, Poll, LeaveLoop, JoinWorkers, Drained,
           ReportTotal, CallbackThrows, Abandon, Rethrow, EnterRange, CarveChunk, EmitChunk,
           FlushRange, LeaveRange, seqFrame
  <2> QED
    BY <2>1, ResumeStays DEF Next
<1>3. CASE StartWorkers \/ CallbackThrows
  BY <1>3 DEF StartWorkers, CallbackThrows, Alone
<1>4. CASE FallBack
  <2>1. cpc = "plan" /\ cpc' = "range" /\ UNCHANGED <<srange, spos, carved>>
    BY <1>4 DEF FallBack, seqVars
  <2> QED
    BY <1>1, <1>2, <2>1 DEF InOrder, CarvedTo
<1>5. CASE EnterRange
  <2>1. cpc = "range" /\ carved' = carved
    BY <1>5 DEF EnterRange
  <2>2. CASE ~isRunning \/ srange > Len(Lens)
    <3>1. cpc' = "done"
      BY <1>5, <2>2 DEF EnterRange
    <3>2. ASSUME isRunning, NEW c \in PendingPlaces PROVE c \in carved
      <4>1. c = <<c[1], c[2]>> /\ c[1] \in Ranges /\ c[2] \in 1..(Lens[c[1]] + 1)
        BY PlaceFacts DEF PendingPlaces
      <4>2. CarvedTo(c[1], Lens[c[1]] + 1)
        BY <1>0, <1>1, <2>2, <3>2, <4>1 DEF InOrder
      <4>3. c[2] <= Lens[c[1]] + 1
        BY <1>0, <4>1
      <4> QED
        BY <4>1, <4>2, <4>3 DEF CarvedTo, HasFirst
    <3> QED
      BY <3>1, <3>2 DEF Alone
  <2>3. CASE isRunning /\ srange <= Len(Lens) /\ before[srange] + Lens[srange] <= resume
    <3>1. srange' = srange + 1 /\ cpc' = "range"
      BY <1>0, <1>5, <2>1, <2>3 DEF EnterRange
    <3>2. srange \in Ranges /\ CarvedTo(srange, Start(srange)) /\ Start(srange) = Lens[srange] + 1
      BY <1>0, <1>1, <2>1, <2>3, ResumeFacts DEF InOrder, Start
    <3>3. \A r \in Ranges : /\ r < srange' => r < srange \/ r = srange
                            /\ r > srange' \/ r = srange' => r > srange
      BY <1>0, <3>1
    <3> QED
      BY <1>1, <1>2, <2>1, <3>1, <3>2, <3>3 DEF InOrder, CarvedTo
  <2>4. CASE isRunning /\ srange <= Len(Lens) /\ ~(before[srange] + Lens[srange] <= resume)
    <3>1. srange' = srange /\ cpc' = "chunk" /\ spos' = First(srange)
      BY <1>0, <1>5, <2>4 DEF EnterRange
    <3>2. srange \in Ranges /\ First(srange) < Lens[srange]
      <4>1. srange \in Ranges /\ before[srange] \in Nat
        BY <1>0, <2>4, BeforeFacts
      <4> QED
        BY <1>0, <2>4, <4>1, ResumeFacts
    <3>3. /\ First(srange) <= First(srange) /\ First(srange) <= Lens[srange]
          /\ CarvedTo(srange, First(srange))
      BY <1>0, <1>1, <2>1, <3>2 DEF InOrder, Start
    <3> QED
      BY <1>0, <1>1, <1>2, <2>1, <3>1, <3>2, <3>3 DEF InOrder, CarvedTo
  <2> QED
    BY <1>0, <2>2, <2>3, <2>4
<1>6. CASE CarveChunk \/ FlushRange
  <2> DEFINE S == carved \cup {<<srange, spos + 1>>}
  <2>1. /\ cpc = "chunk" /\ spos' = spos + 1 /\ carved' = S /\ record' = <<srange, spos + 1>>
        /\ srange' = srange
        /\ \/ cpc' = "emit" /\ spos < Lens[srange]
           \/ cpc' = "flush" /\ spos = Lens[srange]
    BY <1>6 DEF CarveChunk, FlushRange
  <2>2. srange \in Ranges /\ HasFirst(carved, srange, spos) /\ First(srange) <= spos
        /\ First(srange) < Lens[srange]
    BY <1>1, <2>1 DEF InOrder, CarvedTo
  <2>3. HasFirst(S, srange, spos + 1) /\ \A q, m : q # srange => (HasFirst(S, q, m) <=> HasFirst(carved, q, m))
    BY <1>0, <2>2, HasFirstMore
  <2>4. First(srange) <= spos + 1 /\ First(srange) < spos + 1
        /\ (spos < Lens[srange] => spos + 1 <= Lens[srange])
    BY <1>0, <2>2
  <2>5. \A r \in Ranges : r > srange \/ r < srange => r # srange
    BY <1>0
  <2> HIDE DEF S
  <2> QED
    BY <1>1, <1>2, <2>1, <2>2, <2>3, <2>4, <2>5 DEF InOrder, CarvedTo
<1>7. CASE EmitChunk
  <2>1. cpc = "emit" /\ cpc' = "chunk" /\ UNCHANGED <<srange, spos, carved>>
    BY <1>7 DEF EmitChunk, seqVars
  <2> QED
    BY <1>1, <1>2, <2>1 DEF InOrder, CarvedTo
<1>8. CASE LeaveRange
  <2>1. /\ cpc \in {"chunk", "flush"} /\ cpc' = "range" /\ srange' = srange + 1 /\ carved' = carved
        /\ cpc = "flush" \/ ~isRunning
    BY <1>8 DEF LeaveRange
  <2>2. srange \in Ranges /\ CarvedTo(srange, spos) /\ (cpc = "flush" => spos = Lens[srange] + 1)
    BY <1>1, <2>1 DEF InOrder
  <2>3. \A r \in Ranges : /\ r < srange' => r < srange \/ r = srange
                          /\ r > srange' \/ r = srange' => r > srange
    BY <1>0, <2>1
  <2> QED
    BY <1>1, <1>2, <2>1, <2>2, <2>3 DEF InOrder, CarvedTo
<1> QED
  <2>1. ~(cpc \in Branch)
    BY DEF Alone, Branch
  <2> QED
    BY <1>3, <1>4, <1>5, <1>6, <1>7, <1>8, <2>1
       DEF Caller, Pop, Notify, Deliver, Poll, LeaveLoop, JoinWorkers, Drained, ReportTotal, Abandon,
           Rethrow, Branch

\* The calling thread carves nothing while the workers do; what it reports as
\* done was carved by them.
LEMMA SharedKept ==
    ASSUME PhaseInv, cpc \in Branch, Caller
    PROVE  /\ cpc' \notin Alone
           /\ cpc' \in Branch => Shared'
           /\ cpc' = "done" /\ isRunning /\ ~workerFailed => PendingPlaces \subseteq carved
<1>0. wpc \in [Workers -> {"none", "next", "scan", "push", "full", "tick", "exit"}] /\ resume \in Nat
  BY DEF PhaseInv, CarveInv, Threads, CarveType
<1>1. Work' = Work /\ Files' = Files /\ \A r : First(r)' = First(r)
  BY ResumeStays DEF Next
<1>2. /\ carved' = carved /\ UNCHANGED <<wrange, wpos, nextRange, workerFailed, isRunning>>
      /\ cpc' \in Branch \cup {"done", "thrown"}
      /\ cpc \in {"throw", "joinThrow"} => cpc' \in {"throw", "joinThrow", "thrown"}
      /\ Notify \/ Abandon \/ wpc' = wpc
      /\ cpc' = "done" => ReportTotal
  BY DEF Caller, StartWorkers, FallBack, Pop, Notify, Deliver, Poll, LeaveLoop, JoinWorkers, Drained,
         ReportTotal, CallbackThrows, Abandon, Rethrow, EnterRange, CarveChunk, EmitChunk,
         FlushRange, LeaveRange, workerVars, Branch
<1>3. \A w \in Workers : /\ wpc'[w] \in Active <=> wpc[w] \in Active
                         /\ wpc'[w] \in Pushing <=> wpc[w] \in Pushing
                         /\ wpc'[w] = "exit" <=> wpc[w] = "exit"
  <2>1. CASE Notify
    BY <1>0, <2>1 DEF Notify, Active, Pushing
  <2>2. CASE Abandon
    BY <1>0, <2>2 DEF Abandon, Active, Pushing
  <2> QED
    BY <1>2, <2>1, <2>2
<1>4. ASSUME cpc' = "done", isRunning, ~workerFailed PROVE PendingPlaces \subseteq carved
  <2>1. cpc = "final"
    BY <1>2, <1>4 DEF ReportTotal
  <2>2. Shared /\ AllExited
    BY <2>1 DEF PhaseInv, Carving, CarveInv, Joined, Branch
  <2>3. \A w \in Workers : wpc[w] \notin Active /\ wpc[w] = "exit"
    BY <2>2 DEF AllExited, Active
  <2>4. nextRange > Len(Work)
    BY <1>4, <2>1, <2>2, <2>3 DEF Shared
  <2>5. \A i \in Workable : CarvedTo(Work[i], Lens[Work[i]] + 1)
    <3>1. Len(Work) \in Nat /\ nextRange \in Nat
      BY <1>0, WorkFacts DEF PhaseInv, CarveType
    <3>2. \A i \in Workable : i < nextRange
      BY <2>4, <3>1 DEF Workable
    <3> QED
      BY <1>4, <2>2, <2>3, <3>2 DEF Shared, Scans
  <2>6. ASSUME NEW c \in PendingPlaces PROVE c \in carved
    <3>1. c = <<c[1], c[2]>> /\ c[2] \in 1..(Lens[c[1]] + 1) /\ c[1] \in Ranges /\ c[1] \in Pending
      BY PlaceFacts DEF PendingPlaces
    <3>2. c[2] <= Lens[c[1]] + 1
      BY <3>1, RangeFacts
    <3>3. PICK i \in Workable : Work[i] = c[1]
      BY <1>0, <3>1, WorkFacts DEF Workable
    <3>4. HasFirst(carved, c[1], Lens[c[1]] + 1)
      BY <2>5, <3>3 DEF CarvedTo
    <3> QED
      BY <3>1, <3>2, <3>4 DEF HasFirst
  <2> QED
    BY <2>6
<1>5. cpc' \in Branch => Shared'
  BY <1>1, <1>2, <1>3, SharedStays
<1>6. cpc' \notin Alone
  BY <1>2 DEF Alone, Branch
<1> QED
  BY <1>4, <1>5, <1>6

LEMMA SharedStarts == ASSUME PhaseInv, StartWorkers PROVE cpc' = "pop" /\ Shared'
<1>1. InOrder /\ srange = 1 /\ nextRange = 1 /\ resume \in Nat
  BY DEF PhaseInv, Carving, InOrder, StartWorkers, Alone, CarveType
<1>2. /\ cpc' = "pop" /\ Work' = Work /\ Files' = Files /\ \A r : First(r)' = First(r)
      /\ UNCHANGED <<wrange, wpos, nextRange, workerFailed, carved>>
      /\ \A w \in Workers : wpc'[w] \in {"next", "exit"}
  BY ResumeStays DEF Next, Caller, StartWorkers
<1>3. \E w \in Workers : wpc'[w] # "exit"
  <2>1. PICK W \in SUBSET Workers :
          /\ Cardinality(W) = IF Cardinality(Workers) < Cardinality(Pending)
                              THEN Cardinality(Workers) ELSE Cardinality(Pending)
          /\ wpc' = [w \in Workers |-> IF w \in W THEN "next" ELSE "exit"]
    BY DEF StartWorkers
  <2>2. Cardinality(Pending) >= 2 /\ Cardinality(Workers) >= 2 /\ Cardinality(Workers) \in Nat
    BY CarveAssumption, FS_CardinalityType DEF StartWorkers
  <2>3. Cardinality(W) # 0
    BY <2>1, <2>2
  <2>4. W # {}
    BY <2>3, FS_EmptySet
  <2> QED
    BY <2>1, <2>4
<1>4. ASSUME NEW i \in Workable PROVE CarvedTo(Work[i], First(Work[i])) /\ ~(i < 1)
  <2>1. Work[i] \in Ranges /\ i \in Nat /\ i >= 1 /\ Start(Work[i]) = First(Work[i])
    <3>1. Work[i] \in Pending /\ i \in Nat /\ i >= 1
      BY <1>1, WorkFacts DEF Workable
    <3>2. Work[i] \in Ranges /\ First(Work[i]) < Lens[Work[i]]
      BY <1>1, <3>1, ResumeFacts DEF Pending
    <3>3. First(Work[i]) # Lens[Work[i]]
      BY <1>1, <3>2, RangeFacts, ResumeFacts
    <3> QED
      BY <3>1, <3>2, <3>3 DEF Start
  <2>2. Work[i] > srange \/ Work[i] = srange
    BY <1>1, <2>1, RangeFacts
  <2> QED
    BY <1>1, <2>1, <2>2 DEF InOrder, StartWorkers
<1> QED
  BY <1>1, <1>2, <1>3, <1>4 DEF Shared, CarvedTo, Active, Workable

\* A stop, or nothing at all
LEMMA StopKeeps == ASSUME PhaseInv, Stop \/ UNCHANGED vars PROVE PhaseInv'
<1>1. /\ UNCHANGED <<mode, resume, cpc, record, wpc, wrange, wpos, nextRange, liveWorkers,
                     workerFailed, scannedSectors, consumerGone, queue, closed, srange, spos,
                     last, checkpoint, carved, delivered>>
      /\ isRunning' = FALSE \/ isRunning' = isRunning
  BY DEF Stop, vars, workerVars, queueVars, seqVars, meterVars
<1>2. /\ Work' = Work /\ PendingPlaces' = PendingPlaces /\ Files' = Files
      /\ \A r : First(r)' = First(r) /\ Start(r)' = Start(r)
  BY ResumeStays DEF Next
<1>3. CarveType'
  BY TypeKept DEF Next
<1>4. CarveInv'
  BY <1>1 DEF PhaseInv, CarveInv, Threads, AllExited, NoThreadLeft
<1>5. Shared => Shared'
  <2>1. \A w, i : Scans(w, i)' <=> Scans(w, i)
    BY <1>1, <1>2 DEF Scans
  <2>2. isRunning' => isRunning
    BY <1>1, <1>3 DEF CarveType
  <2> QED
    BY <1>1, <1>2, <2>1, <2>2 DEF Shared, Workable, CarvedTo
<1>6. InOrder => InOrder'
  <2>1. isRunning' => isRunning
    BY <1>1
  <2> QED
    BY <1>1, <1>2, <2>1 DEF InOrder, CarvedTo
<1>7. Carving'
  <2>1. isRunning' => isRunning
    BY <1>1
  <2> QED
    BY <1>1, <1>2, <1>5, <1>6, <2>1 DEF PhaseInv, Carving
<1>8. OnePlace'
  <2>1. isRunning' => isRunning
    BY <1>1
  <2>2. \A w : ChunkOf(w)' = ChunkOf(w)
    BY <1>1 DEF ChunkOf
  <2> QED
    BY <1>1, <1>2, <2>1, <2>2 DEF PhaseInv, OnePlace
<1>9. CheckpointMet'
  <2>1. isRunning' => isRunning
    BY <1>1
  <2> QED
    BY <1>1, <1>2, <2>1 DEF PhaseInv, CheckpointMet, Behind, Reach
<1> QED
  BY <1>3, <1>4, <1>7, <1>8, <1>9 DEF PhaseInv

LEMMA CarvingKept == ASSUME PhaseInv, Next PROVE Carving'
<1>0. /\ CarveType /\ PendingPlaces' = PendingPlaces /\ carved \subseteq carved'
      /\ isRunning' => isRunning
      /\ workerFailed => workerFailed'
  <2>1. PendingPlaces' = PendingPlaces
    BY ResumeStays
  <2>2. carved \subseteq carved'
    BY Touched DEF CarveChunk, FlushRange, ReadChunk, EndRange
  <2>3. isRunning' = isRunning \/ isRunning' = FALSE
    BY DEF Next, Caller, Worker, Stop, StartWorkers, FallBack, Pop, Notify, Deliver, Poll, LeaveLoop,
           JoinWorkers, Drained, ReportTotal, CallbackThrows, Abandon, Rethrow, EnterRange,
           CarveChunk, EmitChunk, FlushRange, LeaveRange, ClaimRange, GoHome, ReadChunk, EndRange, BreakOff, Push,
           TickWorker, WorkerThrows, workerFrame, seqFrame
  <2>4. workerFailed' = workerFailed \/ workerFailed' = TRUE
    BY DEF Next, Caller, Worker, Stop, StartWorkers, FallBack, Pop, Notify, Deliver, Poll, LeaveLoop,
           JoinWorkers, Drained, ReportTotal, CallbackThrows, Abandon, Rethrow, EnterRange,
           CarveChunk, EmitChunk, FlushRange, LeaveRange, ClaimRange, GoHome, ReadChunk, EndRange, BreakOff, Push,
           TickWorker, WorkerThrows, workerFrame, seqFrame, workerVars
  <2> QED
    BY <2>1, <2>2, <2>3, <2>4 DEF PhaseInv
<1>1. CASE \E w \in Workers : Worker(w)
  <2>1. PICK w \in Workers : Worker(w)
    BY <1>1
  <2>2. Shared'
    BY <2>1, SharedByWorker
  <2>3. cpc \in Branch /\ cpc' = cpc
    <3>1. wpc[w] \in {"next", "scan", "push", "tick"} /\ cpc' = cpc
      BY <2>1 DEF Worker, ClaimRange, GoHome, ReadChunk, EndRange, BreakOff, Push, TickWorker, WorkerThrows,
             workerFrame
    <3> QED
      BY <3>1 DEF PhaseInv, CarveInv, NoThreadLeft, CarveType
  <2> QED
    BY <2>2, <2>3 DEF Carving, Alone, Branch
<1>2. CASE Stop
  BY <1>2, StopKeeps DEF PhaseInv
<1>3. CASE StartWorkers
  BY <1>3, SharedStarts DEF Carving, Alone
<1>4. CASE Caller /\ ~StartWorkers /\ cpc \in Alone
  <2>1. cpc' \notin Branch
    BY <1>4 DEF Caller, FallBack, Pop, Notify, Deliver, Poll, LeaveLoop, JoinWorkers, Drained,
         ReportTotal, CallbackThrows, Abandon, Rethrow, EnterRange, CarveChunk, EmitChunk,
         FlushRange, LeaveRange, Alone, Branch
  <2> QED
    BY <1>0, <1>4, <2>1, InOrderKept DEF Carving
<1>5. CASE Caller /\ cpc \in Branch
  BY <1>0, <1>5, SharedKept DEF Carving
<1>6. Caller => cpc \in Alone \cup Branch
  BY DEF Caller, StartWorkers, FallBack, Pop, Notify, Deliver, Poll, LeaveLoop, JoinWorkers, Drained,
         ReportTotal, CallbackThrows, Abandon, Rethrow, EnterRange, CarveChunk, EmitChunk,
         FlushRange, LeaveRange, Alone, Branch
<1> QED
  BY <1>1, <1>2, <1>3, <1>4, <1>5, <1>6 DEF Next

----------------------------------------------------------------------------
(* Every record in one place                                               *)

LEMMA AppendFacts ==
    ASSUME NEW T, NEW s \in Seq(T), NEW x \in T
    PROVE  /\ Range(Append(s, x)) = Range(s) \cup {x}
           /\ IsInjective(s) /\ x \notin Range(s) => IsInjective(Append(s, x))
<1> DEFINE t == Append(s, x)
<1>1. /\ Len(s) \in Nat /\ DOMAIN s = 1..Len(s) /\ DOMAIN t = 1..(Len(s) + 1)
      /\ t[Len(s) + 1] = x /\ \A i \in 1..Len(s) : t[i] = s[i]
  OBVIOUS
<1> HIDE DEF t
<1>2. \A i \in DOMAIN t : i \in DOMAIN s \/ i = Len(s) + 1
  BY <1>1
<1>3. Range(t) = Range(s) \cup {x}
  <2>1. \A i \in DOMAIN s : i \in DOMAIN t /\ t[i] = s[i]
    BY <1>1
  <2>2. Len(s) + 1 \in DOMAIN t
    BY <1>1
  <2> QED
    BY <1>1, <1>2, <2>1, <2>2 DEF Range
<1>4. ASSUME IsInjective(s), x \notin Range(s) PROVE IsInjective(t)
  BY <1>1, <1>2, <1>4 DEF IsInjective, Range
<1> QED
  BY <1>3, <1>4 DEF t

LEMMA TailFacts ==
    ASSUME NEW T, NEW s \in Seq(T), s # <<>>
    PROVE  /\ Head(s) \in T /\ Range(s) = {Head(s)} \cup Range(Tail(s))
           /\ IsInjective(s) => IsInjective(Tail(s)) /\ Head(s) \notin Range(Tail(s))
<1> DEFINE t == Tail(s)
<1>1. /\ Len(s) \in Nat /\ Len(s) > 0 /\ DOMAIN s = 1..Len(s) /\ DOMAIN t = 1..(Len(s) - 1)
      /\ Head(s) = s[1] /\ \A i \in 1..(Len(s) - 1) : t[i] = s[i + 1]
      /\ s[1] \in T
  OBVIOUS
<1> HIDE DEF t
<1>2. \A i \in DOMAIN t : i + 1 \in DOMAIN s /\ t[i] = s[i + 1] /\ i + 1 # 1 /\ i \in Int
  BY <1>1
<1>3. \A i \in DOMAIN s : i = 1 \/ (i - 1 \in DOMAIN t /\ t[i - 1] = s[i])
  BY <1>1
<1>4. 1 \in DOMAIN s
  BY <1>1
<1>5. Range(s) = {s[1]} \cup Range(t)
  <2>1. ASSUME NEW i \in DOMAIN s PROVE s[i] = s[1] \/ s[i] \in Range(t)
    BY <1>3 DEF Range
  <2>2. Range(s) \subseteq {s[1]} \cup Range(t)
    BY <2>1 DEF Range
  <2>3. s[1] \in Range(s) /\ Range(t) \subseteq Range(s)
    BY <1>2, <1>4 DEF Range
  <2> QED
    BY <2>2, <2>3
<1>6. ASSUME IsInjective(s) PROVE IsInjective(t) /\ s[1] \notin Range(t)
  BY <1>2, <1>4, <1>6 DEF IsInjective, Range
<1> QED
  BY <1>1, <1>5, <1>6 DEF t

\* The steps that neither make, move nor drop a record.
LEMMA PlaceStays ==
    ASSUME PhaseInv, Files' = Files,
           UNCHANGED <<queue, delivered, carved, record>>,
           \A w \in Workers : /\ wpc'[w] \in Pushing <=> wpc[w] \in Pushing
                              /\ wpc[w] \in Pushing => ChunkOf(w)' = ChunkOf(w),
           isRunning' => isRunning,
           cpc' \in InHand => cpc \in InHand,
           cpc' \in InHand \ {"emit", "flush"} => cpc \in InHand \ {"emit", "flush"},
           cpc' \notin {"throw", "joinThrow", "thrown"} =>
             /\ cpc \notin {"throw", "joinThrow", "thrown"}
             /\ cpc \in InHand => cpc' \in InHand,
           cpc' \in Alone \cup {"final", "done"} => queue = <<>>,
           closed' => cpc' \in Joined \cup {"throw", "joinThrow", "done", "thrown"}
    PROVE  OnePlace'
  BY DEF PhaseInv, OnePlace

LEMMA PlaceByWorker == ASSUME PhaseInv, NEW w \in Workers, Worker(w) PROVE OnePlace'
<1>0. /\ wpc \in [Workers -> {"none", "next", "scan", "push", "full", "tick", "exit"}]
      /\ wrange \in [Workers -> Ranges] /\ wpos \in [Workers -> Nat] /\ resume \in Nat
      /\ queue \in Seq(Files) /\ Files' = Files
  BY ResumeStays DEF PhaseInv, CarveType, CarveInv, Threads, Next
<1>1. /\ cpc \in Branch /\ cpc \notin Joined
      /\ UNCHANGED <<cpc, isRunning, record, delivered, closed>>
  <2>1. wpc[w] \in {"next", "scan", "push", "tick"}
        /\ UNCHANGED <<cpc, isRunning, record, delivered, closed>>
    BY DEF Worker, ClaimRange, GoHome, ReadChunk, EndRange, BreakOff, Push, TickWorker, WorkerThrows,
           workerFrame, queueVars
  <2> QED
    BY <2>1 DEF PhaseInv, CarveInv, NoThreadLeft, CarveType, AllExited
<1>2. Shared /\ OnePlace
  BY <1>1 DEF PhaseInv, Carving
<1>3. CASE ClaimRange(w) \/ GoHome(w) \/ BreakOff(w) \/ TickWorker(w) \/ WorkerThrows(w)
  <2>1. /\ UNCHANGED <<queue, carved>>
        /\ wpc[w] \notin Pushing /\ wpc'[w] \notin Pushing
        /\ \A v \in Workers : v # w => /\ wpc'[v] = wpc[v] /\ wrange'[v] = wrange[v]
                                       /\ wpos'[v] = wpos[v]
    BY <1>0, <1>3 DEF ClaimRange, GoHome, BreakOff, TickWorker, WorkerThrows, queueVars, Pushing
  <2>2. \A v \in Workers : /\ wpc'[v] \in Pushing <=> wpc[v] \in Pushing
                           /\ wpc[v] \in Pushing => ChunkOf(v)' = ChunkOf(v)
    BY <2>1 DEF ChunkOf
  <2> QED
    BY <1>0, <1>1, <1>2, <2>1, <2>2, PlaceStays DEF OnePlace
<1>4. CASE ReadChunk(w) \/ EndRange(w)
  <2> DEFINE c == <<wrange[w], wpos[w] + 1>>
  <2>1. /\ wpc[w] = "scan" /\ wpc'[w] \in {"push", "tick", "next"} /\ carved' = carved \cup {c}
        /\ wpc'[w] = "push" <=> c \in Files
        /\ ChunkOf(w)' = c /\ queue' = queue /\ wpos[w] <= Lens[wrange[w]]
        /\ \A v \in Workers : v # w => wpc'[v] = wpc[v] /\ ChunkOf(v)' = ChunkOf(v)
    <3>1. wpos[w] \in Nat /\ Lens[wrange[w]] \in Nat
      BY <1>0, RangeFacts
    <3> QED
      BY <1>0, <1>4, <3>1 DEF ReadChunk, EndRange, ChunkOf, queueVars
  <2>2. c \notin carved
    <3>1. HasFirst(carved, wrange[w], wpos[w])
      BY <1>2, <2>1 DEF Shared, Active, CarvedTo
    <3>2. wpos[w] \in Nat /\ wpos[w] + 1 \in 1..(Lens[wrange[w]] + 1) /\ ~(wpos[w] + 1 <= wpos[w])
      BY <1>0, <2>1, RangeFacts
    <3> QED
      BY <3>1, <3>2 DEF HasFirst
  <2>3. wpc[w] \notin Pushing /\ (wpc'[w] \in Pushing <=> c \in Files)
    BY <2>1 DEF Pushing
  <2>4. \A v \in Workers : wpc[v] \in Pushing => v # w /\ wpc'[v] \in Pushing /\ ChunkOf(v)' = ChunkOf(v)
    BY <2>1, <2>3
  <2>5. \A v \in Workers : wpc'[v] \in Pushing =>
          \/ wpc[v] \in Pushing /\ ChunkOf(v)' = ChunkOf(v)
          \/ ChunkOf(v)' = c
    BY <2>1
  <2>6. c \in Files => wpc'[w] \in Pushing /\ ChunkOf(w)' = c
    BY <2>1, <2>3
  <2> HIDE DEF c
  <2>7. \A d \in carved' \cap Files : d \in carved \/ d = c
    BY <2>1
  <2> QED
    BY <1>0, <1>1, <1>2, <2>1, <2>2, <2>4, <2>5, <2>6, <2>7 DEF OnePlace
<1>5. CASE Push(w)
  <2> DEFINE c == ChunkOf(w)
  <2>1. /\ wpc[w] = "push" /\ UNCHANGED <<wrange, wpos, carved>>
        /\ \A v \in Workers : v # w => wpc'[v] = wpc[v]
        /\ \A v \in Workers : ChunkOf(v)' = ChunkOf(v)
    BY <1>0, <1>5 DEF Push, ChunkOf
  <2>2. CASE wpc'[w] = "full"
    <3>1. queue' = queue
      BY <1>0, <1>5, <2>2 DEF Push
    <3>2. \A v \in Workers : wpc'[v] \in Pushing <=> wpc[v] \in Pushing
      BY <2>1, <2>2 DEF Pushing
    <3> QED
      BY <1>0, <1>1, <1>2, <2>1, <3>1, <3>2, PlaceStays DEF OnePlace
  <2>3. CASE wpc'[w] # "full" /\ closed
    <3>1. queue' = queue /\ wpc'[w] \in {"tick", "next"}
      BY <1>0, <1>5, <2>3 DEF Push
    <3>2. cpc \in {"throw", "joinThrow"}
      BY <1>1, <1>2, <2>3 DEF OnePlace, Branch
    <3>3. \A v \in Workers : wpc'[v] \in Pushing => wpc[v] \in Pushing
      BY <2>1, <3>1 DEF Pushing
    <3> QED
      BY <1>0, <1>1, <1>2, <2>1, <3>1, <3>2, <3>3 DEF OnePlace
  <2>4. CASE wpc'[w] # "full" /\ ~closed
    <3>1. queue' = Append(queue, c) /\ wpc'[w] \in {"tick", "next"}
      BY <1>0, <1>5, <2>4 DEF Push, ChunkOf
    <3>2. c \in Files /\ wpos[w] <= Lens[wrange[w]] + 1 /\ HasFirst(carved, wrange[w], wpos[w])
      BY <1>2, <2>1 DEF Shared, Active, Pushing, CarvedTo, ChunkOf
    <3>3. c \in Places
      BY <3>2 DEF Files, FilesFrom
    <3>4. c \in carved
      <4>1. wpos[w] \in 1..(Lens[wrange[w]] + 1) /\ wpos[w] <= wpos[w]
        BY <1>0, <3>3, PlaceFacts DEF ChunkOf
      <4> QED
        BY <3>2, <4>1 DEF HasFirst, ChunkOf
    <3>5. \A v \in Workers : v # w /\ wpc[v] \in Pushing => ChunkOf(v) # c
      BY <1>2, <2>1 DEF Shared, Active, Pushing, ChunkOf
    <3>6. wpc[w] \in Pushing /\ wpc'[w] \notin Pushing
      BY <2>1, <3>1 DEF Pushing
    <3> HIDE DEF c
    <3>7. Range(queue') = Range(queue) \cup {c}
          /\ (IsInjective(queue) /\ c \notin Range(queue) => IsInjective(queue'))
      BY <1>0, <3>1, <3>2, AppendFacts
    <3>8. c \notin Range(delivered) /\ c \notin Range(queue) /\ (cpc \in InHand => record # c)
      BY <1>2, <3>6 DEF OnePlace, c
    <3>9. cpc \notin Alone \cup {"final", "done"}
      BY <1>1 DEF Branch, Alone, Joined
    <3>10. \A d \in carved \cap Files :
             (\E v \in Workers : wpc[v] \in Pushing /\ d = ChunkOf(v)) =>
               d = c \/ \E v \in Workers : wpc'[v] \in Pushing /\ d = ChunkOf(v)'
      BY <2>1 DEF c
    <3>11. \A v \in Workers : wpc'[v] \in Pushing => v # w /\ wpc[v] \in Pushing
      BY <2>1, <3>6
    <3> QED
      BY <1>0, <1>1, <1>2, <2>1, <3>4, <3>5, <3>7, <3>8, <3>9, <3>10, <3>11 DEF OnePlace
  <2> QED
    BY <2>2, <2>3, <2>4
<1> QED
  BY <1>3, <1>4, <1>5 DEF Worker

\* The calling thread takes a record from the queue ...
LEMMA PlacePopped ==
    ASSUME PhaseInv, Pop("pop", "notify") \/ Pop("drain", "drainCall") PROVE OnePlace'
<1>1. /\ OnePlace /\ queue \in Seq(Files) /\ queue # <<>> /\ queue' = Tail(queue)
      /\ record' = Head(queue) /\ Files' = Files
      /\ UNCHANGED <<delivered, carved, wpc, wrange, wpos, isRunning, closed>>
      /\ \/ cpc = "pop" /\ cpc' = "notify"
         \/ cpc = "drain" /\ cpc' = "drainCall"
  BY ResumeStays DEF Pop, PhaseInv, CarveType, workerVars, Next, Caller
<1>2. /\ Head(queue) \in Files /\ Range(queue) = {Head(queue)} \cup Range(queue')
      /\ IsInjective(queue') /\ Head(queue) \notin Range(queue')
  BY <1>1, TailFacts DEF OnePlace
<1>3. \A w : ChunkOf(w)' = ChunkOf(w)
  BY <1>1 DEF ChunkOf
<1>4. cpc \notin InHand /\ cpc' \in InHand /\ cpc' \notin Alone \cup {"final", "done"}
      /\ (cpc' \in Joined <=> cpc \in Joined) /\ cpc' \notin {"throw", "joinThrow", "done", "thrown"}
      /\ cpc \notin {"throw", "joinThrow", "done", "thrown"}
  BY <1>1 DEF InHand, Alone, Joined
<1> QED
  BY <1>1, <1>2, <1>3, <1>4 DEF OnePlace

\* ... and hands it to onFileFound, or drops it after a stop.
LEMMA PlaceDelivered ==
    ASSUME PhaseInv,
           \/ Deliver("call", "pop") \/ Deliver("drainCall", "drain") \/ EmitChunk
           \/ LeaveRange /\ cpc = "flush"
    PROVE  OnePlace'
<1>1. /\ OnePlace /\ delivered \in Seq(Files) /\ Files' = Files
      /\ delivered' = IF isRunning /\ record \in Files THEN Append(delivered, record) ELSE delivered
      /\ UNCHANGED <<queue, record, carved, wpc, wrange, wpos, isRunning, closed>>
      /\ \/ cpc = "call" /\ cpc' = "pop"
         \/ cpc = "drainCall" /\ cpc' = "drain"
         \/ cpc = "emit" /\ cpc' = "chunk"
         \/ cpc = "flush" /\ cpc' = "range"
  <2>1. OnePlace /\ delivered \in Seq(Files) /\ Files' = Files
    BY ResumeStays DEF PhaseInv, CarveType, Next, Caller
  <2>2. cpc \in {"call", "drainCall"} => record \in Files
    BY <2>1 DEF OnePlace, InHand
  <2>3. CASE Deliver("call", "pop") \/ Deliver("drainCall", "drain")
    BY <2>1, <2>2, <2>3 DEF Deliver, workerVars, queueVars
  <2>4. CASE EmitChunk
    BY <2>1, <2>4 DEF EmitChunk, HandOver, workerVars, queueVars, seqFrame
  <2>5. CASE LeaveRange /\ cpc = "flush"
    BY <2>1, <2>5 DEF LeaveRange, HandOver, workerVars, queueVars, seqFrame
  <2> QED
    BY <2>3, <2>4, <2>5
<1>2. cpc \in InHand /\ cpc' \notin InHand /\ cpc' \notin {"throw", "joinThrow", "done", "thrown", "final"}
      /\ (cpc' \in Joined <=> cpc \in Joined) /\ (cpc' \in Alone <=> cpc \in Alone)
      /\ cpc \notin {"throw", "joinThrow", "done", "thrown"}
  BY <1>1 DEF InHand, Alone, Joined
<1>3. /\ record \in carved
      /\ record \notin Range(delivered) /\ record \notin Range(queue)
  BY <1>1, <1>2 DEF OnePlace
<1>4. \/ delivered' = delivered /\ (isRunning => record \notin Files)
      \/ Range(delivered') = Range(delivered) \cup {record} /\ IsInjective(delivered')
  BY <1>1, <1>3, AppendFacts DEF OnePlace
<1>5. \A w : ChunkOf(w)' = ChunkOf(w)
  BY <1>1 DEF ChunkOf
<1>6. CASE delivered' = delivered
  BY <1>1, <1>2, <1>3, <1>4, <1>5, <1>6 DEF OnePlace
<1>7. CASE Range(delivered') = Range(delivered) \cup {record} /\ IsInjective(delivered')
  BY <1>1, <1>2, <1>3, <1>5, <1>7 DEF OnePlace
<1> QED
  BY <1>4, <1>6, <1>7

\* The sequential loop comes to a place it had not passed.
LEMMA PlaceCarved == ASSUME PhaseInv, CarveChunk \/ FlushRange PROVE OnePlace'
<1> DEFINE c == <<srange, spos + 1>>
<1>1. /\ OnePlace /\ InOrder /\ Files' = Files /\ resume \in Nat
      /\ cpc = "chunk" /\ cpc' \in {"emit", "flush"} /\ record' = c /\ carved' = carved \cup {c}
      /\ UNCHANGED <<delivered, wpc, wrange, wpos, isRunning, queue, closed>>
  BY ResumeStays
     DEF CarveChunk, FlushRange, PhaseInv, Carving, CarveType, workerVars, queueVars, seqFrame, Next,
         Caller, Alone
<1>2. /\ srange \in Ranges /\ spos \in Nat /\ spos <= Lens[srange] /\ HasFirst(carved, srange, spos)
      /\ Lens[srange] \in Nat
  BY <1>1, RangeFacts DEF InOrder, CarvedTo, PhaseInv, CarveType
<1>3. spos + 1 \in 1..(Lens[srange] + 1) /\ ~(spos + 1 <= spos)
  BY <1>2
<1>4. c \notin carved
  BY <1>2, <1>3 DEF HasFirst
<1>6. \A w \in Workers : wpc[w] \notin Pushing
  BY <1>1 DEF PhaseInv, CarveInv, Alone, Pushing
<1>7. cpc \notin InHand /\ cpc' \in InHand /\ cpc' \notin InHand \ {"emit", "flush"}
      /\ cpc \in Alone /\ cpc' \in Alone /\ cpc \notin Joined
      /\ cpc \notin {"throw", "joinThrow", "done", "thrown", "final"}
  BY <1>1 DEF InHand, Alone, Joined
<1> HIDE DEF c
<1> QED
  BY <1>1, <1>4, <1>6, <1>7 DEF OnePlace

LEMMA OnePlaceKept == ASSUME PhaseInv, Next PROVE OnePlace'
<1>1. CASE \E w \in Workers : Worker(w)
  BY <1>1, PlaceByWorker
<1>2. CASE Stop
  BY <1>2, StopKeeps DEF PhaseInv
<1>3. CASE Pop("pop", "notify") \/ Pop("drain", "drainCall")
  BY <1>3, PlacePopped
<1>4. CASE \/ Deliver("call", "pop") \/ Deliver("drainCall", "drain") \/ EmitChunk
           \/ LeaveRange /\ cpc = "flush"
  BY <1>4, PlaceDelivered
<1>5. CASE CarveChunk \/ FlushRange
  BY <1>5, PlaceCarved
<1>6. CASE \/ StartWorkers \/ FallBack \/ Notify \/ Poll \/ LeaveLoop \/ JoinWorkers \/ Drained
           \/ ReportTotal \/ CallbackThrows \/ Abandon \/ Rethrow \/ EnterRange
           \/ LeaveRange /\ cpc = "chunk"
  <2>1. /\ OnePlace /\ Files' = Files
        /\ wpc \in [Workers -> {"none", "next", "scan", "push", "full", "tick", "exit"}]
    BY <1>6, ResumeStays DEF PhaseInv, CarveInv, Threads, Next, Caller
  <2>2. UNCHANGED <<queue, delivered, carved, record, isRunning, wrange, wpos>>
    BY <1>6 DEF StartWorkers, FallBack, Notify, Poll, LeaveLoop, JoinWorkers, Drained, ReportTotal,
           CallbackThrows, Abandon, Rethrow, EnterRange, LeaveRange, workerVars, queueVars, seqFrame
  <2>3. \A w \in Workers : wpc'[w] \in Pushing <=> wpc[w] \in Pushing
    <3>1. CASE StartWorkers
      BY <3>1 DEF StartWorkers, PhaseInv, CarveInv, Alone, Pushing
    <3>2. CASE Notify \/ Abandon
      BY <2>1, <3>2 DEF Notify, Abandon, Pushing
    <3>3. CASE \/ FallBack \/ Poll \/ LeaveLoop \/ JoinWorkers \/ Drained
               \/ ReportTotal \/ CallbackThrows \/ Rethrow \/ EnterRange \/ LeaveRange
      BY <3>3 DEF FallBack, Poll, LeaveLoop, JoinWorkers, Drained, ReportTotal,
             CallbackThrows, Rethrow, EnterRange, LeaveRange, workerVars, seqFrame
    <3> QED
      BY <1>6, <3>1, <3>2, <3>3
  <2>4. \A w : ChunkOf(w)' = ChunkOf(w)
    BY <2>2 DEF ChunkOf
  <2>5. /\ cpc' \in InHand => cpc \in InHand
        /\ cpc' \in InHand \ {"emit", "flush"} => cpc \in InHand \ {"emit", "flush"}
        /\ cpc' \notin {"throw", "joinThrow", "thrown"} =>
             /\ cpc \notin {"throw", "joinThrow", "thrown"}
             /\ cpc \in InHand => cpc' \in InHand
    BY <1>6 DEF StartWorkers, FallBack, Notify, Poll, LeaveLoop, JoinWorkers, Drained, ReportTotal,
           CallbackThrows, Abandon, Rethrow, EnterRange, LeaveRange, InHand
  <2>6. cpc' \in Alone \cup {"final", "done"} => queue = <<>>
    BY <1>6, <2>1 DEF StartWorkers, FallBack, Notify, Poll, LeaveLoop, JoinWorkers, Drained,
           ReportTotal, CallbackThrows, Abandon, Rethrow, EnterRange, LeaveRange, OnePlace, Alone
  <2>7. closed' => cpc' \in Joined \cup {"throw", "joinThrow", "done", "thrown"}
    BY <1>6, <2>1 DEF StartWorkers, FallBack, Notify, Poll, LeaveLoop, JoinWorkers, Drained,
           ReportTotal, CallbackThrows, Abandon, Rethrow, EnterRange, LeaveRange, OnePlace, Joined,
           queueVars, seqFrame
  <2> QED
    BY <2>1, <2>2, <2>3, <2>4, <2>5, <2>6, <2>7, PlaceStays
<1> QED
  <2>1. LeaveRange => cpc = "flush" \/ cpc = "chunk"
    BY DEF LeaveRange
  <2> QED
    BY <1>1, <1>2, <1>3, <1>4, <1>5, <1>6, <2>1 DEF Next, Caller

----------------------------------------------------------------------------
(* The checkpoint                                                          *)

LEMMA CheckpointKept == ASSUME PhaseInv, Next PROVE CheckpointMet'
<1> SUFFICES ASSUME mode' = "sequential", isRunning' PROVE CheckpointMet'
  BY DEF CheckpointMet
<1>1. resume' = resume /\ mode = "sequential" /\ Files' = Files
  BY ResumeStays
<1>2. isRunning
  BY DEF Next, Caller, Worker, Stop, StartWorkers, FallBack, Pop, Notify, Deliver, Poll, LeaveLoop,
         JoinWorkers, Drained, ReportTotal, CallbackThrows, Abandon, Rethrow, EnterRange,
         CarveChunk, EmitChunk, FlushRange, LeaveRange, ClaimRange, GoHome, ReadChunk, EndRange, BreakOff, Push,
         TickWorker, WorkerThrows, workerFrame, seqFrame
<1>3. /\ CarveType /\ CheckpointMet
      /\ srange \in Nat /\ srange > 0 /\ spos \in Nat /\ resume \in Nat
      /\ last \in Int /\ checkpoint \in Int
      /\ Len(Lens) \in Nat /\ Ranges = 1..Len(Lens)
      /\ \A r \in Ranges : before[r] \in Nat /\ Lens[r] \in Nat
      /\ \A r \in Ranges : r + 1 \in Ranges => before[r + 1] = before[r] + Lens[r]
      /\ \A c \in Places : c = <<c[1], c[2]>> /\ c[1] \in Ranges /\ c[2] \in 1..(Lens[c[1]] + 1)
                           /\ c[1] \in Nat /\ c[2] \in Nat
      /\ \A r \in Ranges : First(r) \in Nat /\ First(r) <= Lens[r]
  <2>1. CarveType /\ CheckpointMet
    BY DEF PhaseInv
  <2>2. Len(Lens) \in Nat /\ Ranges = 1..Len(Lens) /\ \A r \in Ranges : before[r] \in Nat /\ Lens[r] \in Nat
    BY RangeFacts, BeforeFacts
  <2>3. /\ srange \in Nat /\ srange > 0 /\ spos \in Nat /\ resume \in Nat
        /\ last \in Int /\ checkpoint \in Int
    BY <2>1, <2>2 DEF CarveType
  <2>4. \A c \in Places : c = <<c[1], c[2]>> /\ c[1] \in Ranges /\ c[2] \in 1..(Lens[c[1]] + 1)
                          /\ c[1] \in Nat /\ c[2] \in Nat
    BY <2>2, PlaceFacts
  <2> QED
    BY <2>1, <2>2, <2>3, <2>4, BeforeFacts, ResumeFacts
<1>4. /\ \A c \in Places : Behind(c) => c \in carved /\ (c \in Files => c \in Range(delivered))
      /\ \A p \in {last, checkpoint} :
           p <= resume \/ srange \notin Ranges \/ p <= before[srange] + Reach
      /\ srange \in Ranges => Reach <= Lens[srange]
      /\ \A c \in Places : Position(c) <= resume /\ c[2] <= Lens[c[1]] => c \in carved
  BY <1>1, <1>2, <1>3 DEF CheckpointMet
<1>5. cpc \in Alone \cup {"done", "thrown"}
  BY <1>1 DEF PhaseInv, CarveType
<1>6. cpc \in Alone => InOrder /\ OnePlace
  BY DEF PhaseInv, Carving
<1>7. CASE \E w \in Workers : Worker(w)
  <2>1. PICK w \in Workers : Worker(w)
    BY <1>7
  <2>2. wpc[w] \in {"next", "scan", "push", "tick"}
    BY <2>1 DEF Worker, ClaimRange, GoHome, ReadChunk, EndRange, BreakOff, Push, TickWorker, WorkerThrows
  <2> QED
    BY <1>5, <2>2 DEF PhaseInv, CarveInv, NoThreadLeft
<1>8. CASE Stop
  BY <1>8, StopKeeps DEF PhaseInv
\* What neither reports nor comes further
<1>9. CASE FallBack \/ CallbackThrows \/ CarveChunk \/ FlushRange
           \/ (EnterRange /\ srange > Len(Lens))
  <2>1. /\ UNCHANGED <<last, checkpoint, srange, delivered>> /\ carved \subseteq carved'
        /\ Reach' = Reach
    <3>1. CASE FallBack
      BY <1>1, <3>1 DEF FallBack, meterVars, seqVars, Reach
    <3>2. CASE CallbackThrows
      BY <1>5, <3>2 DEF CallbackThrows, meterVars, seqVars, Reach, Alone
    <3>3. CASE CarveChunk \/ FlushRange
      <4>1. /\ UNCHANGED <<last, checkpoint, srange, delivered>> /\ carved \subseteq carved'
            /\ cpc = "chunk" /\ cpc' \in {"emit", "flush"} /\ spos' = spos + 1
        BY <3>3 DEF CarveChunk, FlushRange, meterVars
      <4> QED
        BY <1>3, <4>1 DEF Reach
    <3>4. CASE EnterRange /\ srange > Len(Lens)
      BY <3>4 DEF EnterRange, meterVars, Reach
    <3> QED
      BY <1>9, <3>1, <3>2, <3>3, <3>4
  <2>2. \A c : Behind(c)' <=> Behind(c)
    BY <2>1 DEF Behind
  <2> QED
    BY <1>1, <1>4, <2>1, <2>2 DEF CheckpointMet, Position
\* A range that the resume passes over, or enters, has nothing to hand over below it.
<1>10. CASE EnterRange /\ srange <= Len(Lens)
  <2>1. /\ cpc = "range" /\ carved' = carved /\ delivered' = delivered /\ srange \in Ranges
        /\ Reach = 0
    BY <1>3, <1>10 DEF EnterRange, Reach
  <2>2. CarvedTo(srange, Start(srange)) /\ First(srange) <= Start(srange)
    <3>1. CarvedTo(srange, Start(srange))
      BY <1>6, <2>1 DEF InOrder, Alone
    <3> QED
      BY <1>3, <2>1, <3>1 DEF Start
  <2>3. ASSUME NEW c \in Places, c[1] = srange, c[2] <= First(srange) \/ First(srange) = Lens[srange]
        PROVE  c \in carved /\ c \notin Files
    <3>1. c[2] <= Start(srange)
      BY <1>3, <2>1, <2>3 DEF Start
    <3>2. c \in carved
      BY <1>3, <2>2, <2>3, <3>1 DEF CarvedTo, HasFirst
    <3>3. c \notin Files
      BY <1>3, <2>1, <2>3, ResumeFacts
    <3> QED
      BY <3>2, <3>3
  <2>4. CASE before[srange] + Lens[srange] <= resume
    <3> DEFINE p == before[srange] + Lens[srange]
    <3>1. srange' = srange + 1 /\ cpc' = "range" /\ Tick(p) /\ p \in Int /\ Reach' = 0
      BY <1>2, <1>3, <1>10, <2>1, <2>4 DEF EnterRange, Reach
    <3>2. First(srange) = Lens[srange]
      BY <1>3, <2>1, <2>4, ResumeFacts
    <3>3. last' \in {last, p} /\ checkpoint' = last'
      BY <1>3, <3>1, TickType
    <3>4. ASSUME NEW c \in Places, Behind(c)'
          PROVE  c \in carved' /\ (c \in Files' => c \in Range(delivered'))
      <4>1. c[1] < srange \/ c[1] = srange
        BY <1>3, <2>1, <3>1, <3>4 DEF Behind
      <4> QED
        BY <1>1, <1>4, <2>1, <2>3, <3>2, <4>1 DEF Behind
    <3>5. ASSUME NEW t \in {last', checkpoint'}, srange' \in Ranges, ~(t <= resume')
          PROVE  t <= before[srange'] + Reach'
      <4>1. t = last /\ last <= before[srange]
        BY <1>1, <1>3, <1>4, <2>1, <2>4, <3>3, <3>5
      <4>2. before[srange'] = before[srange] + Lens[srange]
        BY <1>3, <2>1, <3>1, <3>5
      <4> QED
        BY <1>3, <2>1, <3>1, <3>5, <4>1, <4>2
    <3>6. srange' \in Ranges => Reach' <= Lens[srange']
      BY <1>3, <3>1
    <3> HIDE DEF p
    <3> QED
      BY <1>1, <1>4, <2>1, <3>1, <3>4, <3>5, <3>6 DEF CheckpointMet, Position
  <2>5. CASE ~(before[srange] + Lens[srange] <= resume)
    <3>1. srange' = srange /\ cpc' = "chunk" /\ spos' = First(srange) /\ UNCHANGED <<last, checkpoint>>
      BY <1>2, <1>3, <1>10, <2>1, <2>5 DEF EnterRange, meterVars
    <3>2. Reach' = First(srange)
      BY <3>1 DEF Reach
    <3>3. ASSUME NEW c \in Places, Behind(c)'
          PROVE  c \in carved' /\ (c \in Files' => c \in Range(delivered'))
      <4>1. c[1] < srange \/ (c[1] = srange /\ c[2] <= First(srange))
        BY <3>1, <3>2, <3>3 DEF Behind
      <4> QED
        BY <1>1, <1>4, <2>1, <2>3, <4>1 DEF Behind
    <3>4. ASSUME NEW t \in {last', checkpoint'}, ~(t <= resume')
          PROVE  t <= before[srange'] + Reach'
      <4>1. t \in Int /\ t <= before[srange]
        BY <1>1, <1>3, <1>4, <2>1, <3>1, <3>4
      <4> QED
        BY <1>3, <2>1, <3>1, <3>2, <4>1
    <3> QED
      BY <1>1, <1>3, <1>4, <2>1, <3>1, <3>2, <3>3, <3>4 DEF CheckpointMet, Position
  <2> QED
    BY <2>4, <2>5
\* What is in the hand is handed over, and reported.
<1>11. CASE EmitChunk \/ LeaveRange
  <2>1. /\ cpc \in {"emit", "flush"} /\ carved' = carved /\ InOrder /\ OnePlace
        /\ delivered' = IF record \in Files THEN Append(delivered, record) ELSE delivered
    BY <1>2, <1>6, <1>11 DEF EmitChunk, LeaveRange, HandOver, Alone
  <2>2. /\ srange \in Ranges /\ CarvedTo(srange, spos) /\ record = <<srange, spos>>
        /\ Reach = spos - 1 /\ spos <= Lens[srange] + 1
        /\ cpc = "emit" => spos <= Lens[srange]
        /\ cpc = "flush" => spos = Lens[srange] + 1
    BY <1>3, <2>1 DEF InOrder, Reach
  <2>3. Range(delivered) \subseteq Range(delivered') /\ (record \in Files => record \in Range(delivered'))
    BY <2>1, <1>3, AppendFacts DEF CarveType
  <2>4. ASSUME NEW c \in Places, c[1] < srange \/ (c[1] = srange /\ c[2] <= spos)
        PROVE  c \in carved /\ (c \in Files => c \in Range(delivered'))
    <3>1. CASE Behind(c)
      BY <1>4, <2>3, <3>1
    <3>2. CASE ~Behind(c)
      <4>1. c[1] = srange /\ c[2] = spos
        BY <1>3, <2>2, <2>4, <3>2 DEF Behind
      <4>2. c = record /\ c \in carved
        <5>1. c[2] \in 1..(Lens[srange] + 1) /\ c[2] <= spos /\ c = <<srange, c[2]>>
          BY <1>3, <4>1
        <5> QED
          BY <2>2, <4>1, <5>1 DEF CarvedTo, HasFirst
      <4> QED
        BY <2>3, <4>2
    <3> QED
      BY <3>1, <3>2
  <2>5. CASE EmitChunk
    <3> DEFINE p == before[srange] + spos
    <3>1. /\ cpc = "emit" /\ cpc' = "chunk" /\ srange' = srange /\ spos' = spos /\ Tick(p)
          /\ p \in Int /\ Reach' = spos
      BY <1>3, <2>2, <2>5 DEF EmitChunk, seqVars, Reach
    <3>2. last' \in {last, p} /\ checkpoint' = last'
      BY <1>3, <3>1, TickType
    <3>3. ASSUME NEW t \in {last', checkpoint'}, ~(t <= resume')
          PROVE  t <= before[srange'] + Reach'
      <4>1. t = p \/ (t = last /\ last <= before[srange] + Reach)
        BY <1>1, <1>4, <2>2, <3>2, <3>3
      <4> QED
        BY <1>3, <2>2, <3>1, <4>1
    <3>4. \A c : Behind(c)' <=> c[1] < srange \/ (c[1] = srange /\ c[2] <= spos)
      BY <3>1 DEF Behind
    <3> HIDE DEF p
    <3> QED
      BY <1>1, <1>4, <2>1, <2>2, <2>4, <3>1, <3>3, <3>4 DEF CheckpointMet, Position
  <2>6. CASE LeaveRange
    <3> DEFINE p == before[srange] + Lens[srange]
    <3>1. /\ cpc = "flush" /\ cpc' = "range" /\ srange' = srange + 1 /\ Tick(p)
          /\ p \in Int /\ Reach' = 0 /\ Reach = Lens[srange]
      BY <1>2, <1>3, <2>2, <2>6 DEF LeaveRange, Reach
    <3>2. last' \in {last, p} /\ checkpoint' = last'
      BY <1>3, <3>1, TickType
    <3>3. ASSUME NEW t \in {last', checkpoint'}, srange' \in Ranges, ~(t <= resume')
          PROVE  t <= before[srange'] + Reach'
      <4>1. t = p \/ (t = last /\ last <= before[srange] + Reach)
        BY <1>1, <1>4, <2>2, <3>2, <3>3
      <4>2. before[srange'] = p
        BY <1>3, <2>2, <3>1, <3>3
      <4> QED
        BY <1>3, <2>2, <3>1, <4>1, <4>2
    <3>4. ASSUME NEW c \in Places, Behind(c)'
          PROVE  c[1] < srange \/ (c[1] = srange /\ c[2] <= spos)
      <4>1. /\ c[1] \in Nat /\ c[2] \in Nat /\ c[2] > 0 /\ (c[1] = srange => c[2] <= Lens[srange] + 1)
            /\ srange \in Nat
        BY <1>3, <2>2
      <4>2. c[1] < srange + 1 \/ c[2] <= 0
        BY <3>1, <3>4 DEF Behind
      <4> QED
        BY <2>2, <3>1, <4>1, <4>2
    <3>5. srange' \in Ranges => Reach' <= Lens[srange']
      BY <1>3, <3>1
    <3> HIDE DEF p
    <3> QED
      BY <1>1, <1>4, <2>1, <2>2, <2>4, <3>1, <3>3, <3>4, <3>5 DEF CheckpointMet, Position
  <2> QED
    BY <1>11, <2>5, <2>6
<1>12. Caller => FallBack \/ CallbackThrows \/ EnterRange \/ CarveChunk \/ EmitChunk \/ FlushRange \/ LeaveRange
  BY <1>1, <1>5 DEF Caller, StartWorkers, Pop, Notify, Deliver, Poll, LeaveLoop, JoinWorkers, Drained,
         ReportTotal, Abandon, Rethrow, Alone
<1>13. srange <= Len(Lens) \/ srange > Len(Lens)
  BY <1>3
<1> QED
  BY <1>7, <1>8, <1>9, <1>10, <1>11, <1>12, <1>13 DEF Next

----------------------------------------------------------------------------
(* The theorems                                                            *)

LEMMA PhaseStarts == Init => PhaseInv
<1> SUFFICES ASSUME Init PROVE PhaseInv
  OBVIOUS
<1>1. CarveInv
  BY CarveStarts
<1>2. resume \in Nat /\ mode \in {"parallel", "sequential"} /\ carved = Places \ PendingPlaces
  BY RangesFollow, CarveAssumption DEF Init
<1>3. CarveType
  <2>1. 1 \in Ranges /\ 1 \in 1..(Len(Lens) + 1)
    BY RangeFacts
  <2>2. <<>> \in Seq(Files)
    OBVIOUS
  <2>3. wrange \in [Workers -> Ranges] /\ wpos \in [Workers -> Nat]
    BY <2>1 DEF Init
  <2>4. /\ queue \in Seq(Files) /\ delivered \in Seq(Files)
        /\ carved \subseteq Places
    BY <1>2, <2>2 DEF Init
  <2>5. nextRange \in Nat \ {0} /\ last \in Int /\ checkpoint \in Int /\ scannedSectors \in Int
        /\ srange \in 1..(Len(Lens) + 1) /\ spos \in Nat
    BY <1>2, <2>1 DEF Init
  <2> QED
    BY <1>2, <2>3, <2>4, <2>5 DEF Init, CarveType, Alone, Branch
<1>4. Carving
  <2>1. ASSUME NEW r \in Ranges PROVE CarvedTo(r, Start(r))
    <3>1. ASSUME NEW k \in 1..(Lens[r] + 1) PROVE <<r, k>> \in carved <=> k <= Start(r)
      <4>1. k \in Nat /\ <<r, k>> \in Places /\ Start(r) \in Nat
        <5>1. Lens[r] \in Nat /\ First(r) \in Nat
          BY <1>2, RangeFacts, ResumeFacts
        <5> QED
          BY <5>1, PlaceFacts DEF Start
      <4>2. <<r, k>> \in PendingPlaces <=> k > Start(r)
        BY <1>2, <4>1, ResumeFacts
      <4> QED
        BY <1>2, <4>1, <4>2
    <3> QED
      BY <3>1 DEF CarvedTo, HasFirst
  <2>2. ASSUME NEW r \in Ranges PROVE ~(r < 1)
    BY RangeFacts
  <2> QED
    BY <2>1, <2>2 DEF Init, Carving, InOrder, Branch
<1>5. OnePlace
  <2>1. Range(<<>>) = {} /\ IsInjective(<<>>)
    BY DEF Range, IsInjective
  <2>2. carved \cap Files = {}
    BY <1>2, ResumeFacts
  <2> QED
    BY <1>2, <2>1, <2>2 DEF Init, OnePlace, InHand, Pushing
<1>6. CheckpointMet
  <2>1. Reach = 0 /\ srange = 1 /\ last = 0 /\ checkpoint = resume
    BY DEF Init, Reach
  <2>2. \A c \in Places : ~Behind(c)
    <3> TAKE c \in Places
    <3>1. c[1] \in Nat /\ c[1] >= 1 /\ c[2] \in Nat /\ c[2] >= 1
      BY PlaceFacts, RangeFacts
    <3> QED
      BY <2>1, <3>1 DEF Behind
  <2>3. ASSUME NEW c \in Places, Position(c) <= resume, c[2] <= Lens[c[1]] PROVE c \in carved
    <3>1. c[1] \in Ranges /\ c[2] \in 1..Lens[c[1]]
      BY <2>3, PlaceFacts, RangeFacts
    <3>2. c[2] <= First(c[1])
      BY <1>2, <2>3, <3>1, FirstFromFacts DEF First, Position
    <3>3. ~(c[2] > First(c[1]))
      BY <1>2, <3>1, <3>2, RangeFacts, ResumeFacts
    <3> QED
      BY <1>2, <3>3 DEF PendingPlaces
  <2>4. 1 \in Ranges /\ Lens[1] \in Nat /\ resume <= resume /\ 0 <= resume
    BY <1>2, RangeFacts
  <2> QED
    BY <2>1, <2>2, <2>3, <2>4 DEF CheckpointMet
<1> QED
  BY <1>1, <1>3, <1>4, <1>5, <1>6 DEF PhaseInv

\* The inductive invariant of the phase.
THEOREM PhaseInvariant == Spec => []PhaseInv
<1>1. PhaseInv /\ [Next]_vars => PhaseInv'
  <2> SUFFICES ASSUME PhaseInv, [Next]_vars PROVE PhaseInv'
    OBVIOUS
  <2>1. CASE UNCHANGED vars
    BY <2>1, StopKeeps
  <2>2. CASE Next
    <3>1. CarveInv'
      <4>1. CASE Stop
        BY <4>1, StopKeeps DEF PhaseInv
      <4> QED
        BY <2>2, <4>1, CallerKeeps, WorkerKeeps DEF Next, PhaseInv
    <3> QED
      BY <2>2, <3>1, TypeKept, CarvingKept, OnePlaceKept, CheckpointKept DEF PhaseInv
  <2> QED
    BY <2>1, <2>2
<1> QED
  BY PhaseStarts, <1>1, PTL DEF Spec

\* scan_coordinator.cpp:933-936: whichever branch runs, and however the threads
\* interleave, no file is handed over twice or without beginning in what the
\* resume left, and a phase that was neither stopped nor met an exception hands
\* over every file that does.
THEOREM RecordsAreExact == Spec => []EachRecordOnce
<1>1. PhaseInv => EachRecordOnce
  <2> SUFFICES ASSUME PhaseInv PROVE EachRecordOnce
    OBVIOUS
  <2>1. delivered \in Seq(Files) /\ IsInjective(delivered)
    BY DEF PhaseInv, CarveType, OnePlace
  <2>2. \A i \in DOMAIN delivered : delivered[i] \in Files
    BY <2>1
  <2>3. \A i, j \in DOMAIN delivered : delivered[i] = delivered[j] => i = j
    BY <2>1 DEF IsInjective
  <2>4. ASSUME cpc = "done", isRunning, ~workerFailed
        PROVE  Len(delivered) = Cardinality(Files)
    <3>1. Files \subseteq carved
      BY <2>4, ResumeFacts DEF PhaseInv, Carving, CarveType
    <3>2. Range(queue) = {}
      BY <2>4 DEF PhaseInv, OnePlace, Range
    <3>3. \A w \in Workers : wpc[w] \notin Pushing
      BY <2>4 DEF PhaseInv, CarveInv, NoThreadLeft, Pushing
    <3>4. \A c \in Files : c \in Range(delivered)
      BY <2>4, <3>1, <3>2, <3>3 DEF PhaseInv, OnePlace, InHand
    <3>5. Len(delivered) \in Nat /\ DOMAIN delivered = 1..Len(delivered)
          /\ delivered \in [1..Len(delivered) -> Files]
      BY <2>1
    <3>6. delivered \in Bijection(1..Len(delivered), Files)
      BY <2>3, <3>4, <3>5 DEF Bijection, Injection, Surjection, IsInjective, Range
    <3>7. ExistsBijection(1..Len(delivered), Files)
      BY <3>6 DEF ExistsBijection
    <3> QED
      BY <3>5, <3>7, FS_CountingElements
  <2> QED
    BY <2>2, <2>3, <2>4 DEF EachRecordOnce
<1> QED
  BY PhaseInvariant, <1>1, PTL

\* scan_coordinator.cpp:961-962, 1267: while nobody stops a sequential scan, every
\* chunk at or below the stored checkpoint was read, and every file of the phase was
\* handed over, is found again by a phase resumed there, or is cut by the checkpoint:
\* wherever the process dies, the files it cuts are all that is lost.
THEOREM CheckpointLeavesNoGap == Spec => []SequentialCheckpoint
<1>1. PhaseInv => SequentialCheckpoint
  <2> SUFFICES ASSUME PhaseInv, mode = "sequential", isRunning
               PROVE  /\ \A c \in Chunks : Position(c) <= checkpoint => c \in carved
                      /\ \A c \in Files : \/ \E i \in DOMAIN delivered : delivered[i] = c
                                         \/ c \in FilesFrom(checkpoint)
                                         \/ c \in CutAt(checkpoint)
    BY DEF SequentialCheckpoint
  <2>1. /\ resume \in Nat /\ checkpoint \in Int /\ srange \in Nat /\ Len(Lens) \in Nat
        /\ Ranges = 1..Len(Lens) /\ srange > 0 /\ srange <= Len(Lens) + 1
        /\ Reach \in Int
    <3>1. /\ resume \in Nat /\ checkpoint \in Int /\ srange \in 1..(Len(Lens) + 1) /\ spos \in Nat
      BY DEF PhaseInv, CarveType
    <3> QED
      BY <3>1, RangeFacts DEF Reach
  <2>2. /\ \A c \in Places : Behind(c) => c \in carved /\ (c \in Files => c \in Range(delivered))
        /\ checkpoint <= resume \/ srange \notin Ranges \/ checkpoint <= before[srange] + Reach
        /\ srange \in Ranges => Reach <= Lens[srange]
        /\ \A c \in Places : Position(c) <= resume /\ c[2] <= Lens[c[1]] => c \in carved
    BY DEF PhaseInv, CheckpointMet
  <2>3. ASSUME NEW c \in Places
        PROVE  /\ c[1] \in Ranges /\ c[1] \in Nat /\ c[1] <= Len(Lens) /\ c[2] \in Nat /\ c[2] > 0
               /\ before[c[1]] \in Nat /\ Position(c) = before[c[1]] + c[2]
    BY <2>1, PlaceFacts, RangeFacts, BeforeFacts DEF Position
  \* A place that is not behind the loop lies above every report but the resume's.
  <2>4. ASSUME NEW c \in Places, ~Behind(c), ~(checkpoint <= resume) PROVE checkpoint < Position(c)
    <3>1. srange \in Ranges
      BY <2>1, <2>3, <2>4 DEF Behind
    <3>2. before[srange] \in Nat /\ Lens[srange] \in Nat
      BY <3>1, RangeFacts, BeforeFacts
    <3>3. c[1] > srange \/ (c[1] = srange /\ c[2] > Reach)
      BY <2>1, <2>3, <2>4 DEF Behind
    <3>4. c[1] > srange => before[srange] + Lens[srange] <= before[c[1]]
      BY <2>1, <2>3, <3>1, RangesFollow
    <3>5. /\ checkpoint \in Int /\ Reach \in Int /\ checkpoint <= before[srange] + Reach
          /\ Reach <= Lens[srange]
      BY <2>1, <2>2, <2>4, <3>1
    <3>6. /\ before[c[1]] \in Nat /\ c[2] \in Nat /\ c[2] > 0
          /\ Position(c) = before[c[1]] + c[2]
      BY <2>3, <2>4
    <3>7. CASE c[1] > srange
      <4>1. checkpoint <= before[c[1]]
        BY <3>2, <3>4, <3>5, <3>6, <3>7
      <4> QED
        BY <3>5, <3>6, <4>1
    <3>8. CASE c[1] = srange /\ c[2] > Reach
      <4>1. before[c[1]] = before[srange]
        BY <3>8
      <4> QED
        BY <3>2, <3>5, <3>6, <3>8, <4>1
    <3> QED
      BY <3>3, <3>7, <3>8
  <2>5. ASSUME NEW c \in Chunks, Position(c) <= checkpoint PROVE c \in carved
    <3>1. c \in Places /\ c[2] <= Lens[c[1]]
      BY DEF Chunks
    <3>2. CASE checkpoint <= resume
      BY <2>1, <2>2, <2>3, <2>5, <3>1, <3>2
    <3>3. CASE ~(checkpoint <= resume)
      BY <2>1, <2>2, <2>3, <2>4, <2>5, <3>1, <3>3
    <3> QED
      BY <3>2, <3>3
  <2>6. ASSUME NEW c \in Files, c \notin Range(delivered), c \notin FilesFrom(checkpoint)
        PROVE  c \in CutAt(checkpoint)
    <3>1. c \in Places /\ Opens[c] > FirstFrom(resume, c[1]) /\ ~Behind(c)
      BY <2>2, <2>6 DEF Files, FilesFrom
    <3>2. /\ Opens[c] \in Nat /\ Opens[c] <= Lens[c[1]] /\ Lens[c[1]] \in Nat
          /\ FirstFrom(resume, c[1]) \in Nat /\ FirstFrom(checkpoint, c[1]) \in Nat
      <4>1. Opens[c] \in Nat /\ Opens[c] <= Lens[c[1]]
        BY <3>1, PlaceFacts
      <4>2. c[1] \in Ranges /\ resume \in Int
        BY <2>1, <2>3, <3>1
      <4> QED
        BY <2>1, <4>1, <4>2, RangeFacts, FirstFromFacts
    <3>3. Opens[c] \in 1..Lens[c[1]] /\ Opens[c] <= FirstFrom(checkpoint, c[1])
      BY <2>6, <3>1, <3>2 DEF FilesFrom
    <3>4. before[c[1]] + Opens[c] <= checkpoint /\ ~(before[c[1]] + Opens[c] <= resume)
      <4>1. before[c[1]] + Opens[c] <= checkpoint
        BY <2>1, <2>3, <3>1, <3>3, FirstFromFacts
      <4>2. ~(Opens[c] <= FirstFrom(resume, c[1]))
        BY <3>1, <3>2
      <4>3. Opens[c] <= FirstFrom(resume, c[1]) <=> before[c[1]] + Opens[c] <= resume
        <5>1. c[1] \in Ranges /\ resume \in Int
          BY <2>1, <2>3, <3>1
        <5> QED
          BY <3>3, <5>1, FirstFromFacts
      <4> QED
        BY <4>1, <4>2, <4>3
    <3>5. ~(checkpoint <= resume)
      BY <2>1, <2>3, <3>1, <3>2, <3>4
    <3> QED
      BY <2>4, <3>1, <3>2, <3>3, <3>4, <3>5 DEF CutAt
  <2> QED
    BY <2>5, <2>6 DEF Range
<1> QED
  BY PhaseInvariant, <1>1, PTL

----------------------------------------------------------------------------
(* Lists of ranges of sectors                                              *)

\* Ranges of sectors, lists of them in order and with a gap between each two,
\* and the sectors of one
Extents == [first : Int, count : Nat]
Ascending(s) == \A i, j \in 1..Len(s) : i <= j => s[i].first <= s[j].first
SetApart(s) == \A i \in 2..Len(s) : s[i - 1].first + s[i - 1].count < s[i].first
SectorsIn(r) == r.first..(r.first + r.count - 1)

\* The members of two lists behind each other, and of one that got another member.
LEMMA MembersOfBoth ==
    ASSUME NEW T, NEW s \in Seq(T), NEW t \in Seq(T)
    PROVE  /\ s \o t \in Seq(T) /\ Len(s \o t) = Len(s) + Len(t)
           /\ Range(s \o t) = Range(s) \cup Range(t)
           /\ \A i \in 1..Len(s) : (s \o t)[i] = s[i]
           /\ \A i \in 1..Len(t) : (s \o t)[Len(s) + i] = t[i]
<1>1. PICK m \in Nat : m = Len(s)
  OBVIOUS
<1>2. PICK n \in Nat : n = Len(t)
  OBVIOUS
<1> DEFINE u == s \o t
<1>3. /\ u \in Seq(T) /\ Len(u) = m + n
      /\ \A i \in 1..m : u[i] = s[i]
      /\ \A i \in 1..n : u[m + i] = t[i]
  BY <1>1, <1>2
<1> HIDE DEF u
<1>4. DOMAIN u = 1..(m + n) /\ DOMAIN s = 1..m /\ DOMAIN t = 1..n
  BY <1>1, <1>2, <1>3
<1>5. ASSUME NEW x \in Range(s) \cup Range(t) PROVE x \in Range(u)
  <2>1. CASE x \in Range(s)
    <3>1. PICK i \in 1..m : x = s[i]
      BY <1>4, <2>1 DEF Range
    <3> QED
      BY <1>3, <1>4, <3>1 DEF Range
  <2>2. CASE x \in Range(t)
    <3>1. PICK i \in 1..n : x = t[i]
      BY <1>4, <2>2 DEF Range
    <3>2. m + i \in 1..(m + n) /\ x = u[m + i]
      BY <1>3, <3>1
    <3> QED
      BY <1>4, <3>2 DEF Range
  <2> QED
    BY <1>5, <2>1, <2>2
<1>6. ASSUME NEW x \in Range(u) PROVE x \in Range(s) \cup Range(t)
  <2>1. PICK i \in 1..(m + n) : x = u[i]
    BY <1>4 DEF Range
  <2>2. CASE i <= m
    <3>1. i \in 1..m /\ x = s[i]
      BY <1>3, <2>1, <2>2
    <3> QED
      BY <1>4, <3>1 DEF Range
  <2>3. CASE i > m
    <3>1. i - m \in 1..n /\ i = m + (i - m)
      BY <2>1, <2>3
    <3>2. x = t[i - m]
      BY <1>3, <2>1, <3>1
    <3> QED
      BY <1>4, <3>1, <3>2 DEF Range
  <2> QED
    BY <2>1, <2>2, <2>3
<1> QED
  BY <1>1, <1>2, <1>3, <1>5, <1>6 DEF u

\* Pushing goes turn by turn.
LEMMA PushedUnfolds ==
    ASSUME NEW T, NEW turns \in Seq(Seq(T))
    PROVE  \E after : /\ after \in [0..Len(turns) -> Seq(T)] /\ after[0] = <<>>
                      /\ \A k \in 1..Len(turns) : after[k] = after[k - 1] \o turns[k]
                      /\ Pushed(turns) = after[Len(turns)]
<1>1. PICK n \in Nat : n = Len(turns)
  OBVIOUS
<1> DEFINE S == Seq(T)
           step == [x \in (1..n) \X S |-> x[2] \o turns[x[1]]]
<1>2. <<>> \in S /\ \A k \in 1..n : turns[k] \in S
  BY <1>1
<1>3. \A k \in 1..n, t \in S : t \o turns[k] \in S
  BY <1>2
<1>4. step \in [(1..n) \X S -> S]
  BY <1>3
<1>5. \A k \in 1..n, t \in S : step[<<k, t>>] = t \o turns[k]
  OBVIOUS
<1> HIDE DEF S, step
<1>6. PICK f : Recursive(f, n, S, <<>>, step)
  BY <1>2, <1>4, Recursion DEF StepOn
<1>7. f \in [0..n -> S] /\ f[0] = <<>> /\ \A k \in 1..n : f[k] = f[k - 1] \o turns[k]
  <2>1. f \in [0..n -> S] /\ f[0] = <<>> /\ \A k \in 1..n : f[k] = step[<<k, f[k - 1]>>]
    BY <1>6 DEF Recursive
  <2>2. ASSUME NEW k \in 1..n PROVE f[k] = f[k - 1] \o turns[k]
    <3>1. k - 1 \in 0..n
      OBVIOUS
    <3> QED
      BY <1>5, <2>1, <3>1
  <2> QED
    BY <2>1, <2>2
<1> DEFINE Turns(g) == g = [k \in 0..Len(turns) |-> IF k = 0 THEN <<>> ELSE g[k - 1] \o turns[k]]
           after == CHOOSE g : Turns(g)
<1>8. Turns(after)
  <2>1. \A k \in 0..n : k # 0 => k \in 1..n
    OBVIOUS
  <2>2. Turns(f)
    BY <1>1, <1>7, <2>1
  <2> HIDE DEF Turns
  <2> QED
    BY <2>2
<1>9. Pushed(turns) = after[n]
  BY <1>1 DEF Pushed
<1> HIDE DEF after
<1>10. /\ 0 \in 0..n /\ \A k \in 1..n : k \in 0..n /\ k # 0
       /\ \A k \in 0..n : k # 0 => k \in 1..n
  OBVIOUS
<1>11. after[0] = <<>> /\ \A k \in 1..n : after[k] = after[k - 1] \o turns[k]
  BY <1>1, <1>8, <1>10
<1> DEFINE Good == {x \in (0..n) \X S : x[2] = after[x[1]]}
<1>12. \A k \in 0..n : <<k, after[k]>> \in Good
  <2>1. <<0, after[0]>> \in Good
    BY <1>2, <1>10, <1>11
  <2>2. ASSUME NEW k \in 1..n, <<k - 1, after[k - 1]>> \in Good PROVE <<k, after[k]>> \in Good
    BY <1>3, <1>10, <1>11, <2>2
  <2> HIDE DEF Good
  <2> QED
    BY <2>1, <2>2, AllAlong
<1>13. after \in [0..n -> S]
  BY <1>1, <1>8, <1>12
<1> QED
  BY <1>1, <1>9, <1>11, <1>13 DEF S

\* What is pushed is what the turns push; in order, if the turns are.
LEMMA PushedFacts ==
    ASSUME NEW T, NEW turns \in Seq(Seq(T))
    PROVE  /\ Pushed(turns) \in Seq(T)
           /\ Range(Pushed(turns)) = UNION {Range(turns[k]) : k \in 1..Len(turns)}
<1>1. PICK n \in Nat : n = Len(turns)
  OBVIOUS
<1>2. PICK after : /\ after \in [0..n -> Seq(T)] /\ after[0] = <<>>
                   /\ \A k \in 1..n : after[k] = after[k - 1] \o turns[k]
                   /\ Pushed(turns) = after[n]
  BY <1>1, PushedUnfolds
<1> DEFINE Upto(k) == UNION {Range(turns[i]) : i \in 1..k}
           Good == {x \in (0..n) \X Seq(T) : Range(x[2]) = Upto(x[1])}
<1>3. <<0, after[0]>> \in Good
  <2>1. Range(<<>>) = {} /\ Upto(0) = {} /\ <<>> \in Seq(T) /\ 0 \in 0..n
    BY DEF Range
  <2> QED
    BY <1>2, <2>1
<1>4. ASSUME NEW k \in 1..n, <<k - 1, after[k - 1]>> \in Good PROVE <<k, after[k]>> \in Good
  <2>1. after[k - 1] \in Seq(T) /\ Range(after[k - 1]) = Upto(k - 1) /\ turns[k] \in Seq(T) /\ k \in 0..n
    BY <1>1, <1>4
  <2>2. after[k] \in Seq(T) /\ Range(after[k]) = Range(after[k - 1]) \cup Range(turns[k])
    <3>1. after[k] = after[k - 1] \o turns[k]
      BY <1>2
    <3>2. /\ after[k - 1] \o turns[k] \in Seq(T)
          /\ Range(after[k - 1] \o turns[k]) = Range(after[k - 1]) \cup Range(turns[k])
      BY <2>1, MembersOfBoth
    <3> QED
      BY <3>1, <3>2
  <2>3. Upto(k) = Upto(k - 1) \cup Range(turns[k])
    <3>1. 1..k = 1..(k - 1) \cup {k}
      OBVIOUS
    <3> QED
      BY <3>1
  <2> HIDE DEF Upto
  <2> QED
    BY <2>1, <2>2, <2>3
<1> HIDE DEF Good
<1>5. \A k \in 0..n : <<k, after[k]>> \in Good
  BY <1>3, <1>4, AllAlong
<1>6. <<n, after[n]>> \in Good
  BY <1>5
<1> QED
  BY <1>1, <1>2, <1>6 DEF Good

\* Turns that push in order, each behind the ones before it, push a list in order.
LEMMA PushedAscends ==
    ASSUME NEW turns \in Seq(Seq(Extents)), \A k \in 1..Len(turns) : Ascending(turns[k]),
           \A j, k \in 1..Len(turns) : j < k =>
              \A a \in Range(turns[j]), b \in Range(turns[k]) : a.first <= b.first
    PROVE  Ascending(Pushed(turns))
<1>1. PICK n \in Nat : n = Len(turns)
  OBVIOUS
<1>2. PICK after : /\ after \in [0..n -> Seq(Extents)] /\ after[0] = <<>>
                   /\ \A k \in 1..n : after[k] = after[k - 1] \o turns[k]
                   /\ Pushed(turns) = after[n]
  BY <1>1, PushedUnfolds
<1> DEFINE Upto(k) == UNION {Range(turns[i]) : i \in 1..k}
           Good == {x \in (0..n) \X Seq(Extents) : Range(x[2]) = Upto(x[1]) /\ Ascending(x[2])}
<1>3. <<0, after[0]>> \in Good
  <2>1. /\ Range(<<>>) = {} /\ Upto(0) = {} /\ <<>> \in Seq(Extents) /\ 0 \in 0..n
        /\ Ascending(<<>>)
    BY DEF Range, Ascending
  <2> QED
    BY <1>2, <2>1
<1>4. ASSUME NEW k \in 1..n, <<k - 1, after[k - 1]>> \in Good PROVE <<k, after[k]>> \in Good
  <2> DEFINE s == after[k - 1]
             t == turns[k]
             u == after[k]
  <2>1. s \in Seq(Extents) /\ Range(s) = Upto(k - 1) /\ Ascending(s) /\ k \in 0..n
    BY <1>1, <1>4
  <2>2. t \in Seq(Extents) /\ Ascending(t)
    BY <1>1
  <2>3. u = s \o t
    BY <1>2
  <2>4. \A a \in Range(s), b \in Range(t) : a.first <= b.first
    <3>1. ASSUME NEW a \in Range(s), NEW b \in Range(t) PROVE a.first <= b.first
      <4>1. PICK i \in 1..(k - 1) : a \in Range(turns[i])
        BY <2>1
      <4>2. i \in 1..Len(turns) /\ k \in 1..Len(turns) /\ i < k
        BY <1>1
      <4> QED
        BY <4>1, <4>2
    <3> QED
      BY <3>1
  <2>5. Upto(k) = Upto(k - 1) \cup Range(t)
    <3>1. 1..k = 1..(k - 1) \cup {k}
      OBVIOUS
    <3> QED
      BY <3>1
  <2> HIDE DEF s, t, u, Upto
  <2>6. /\ s \o t \in Seq(Extents) /\ Len(s \o t) = Len(s) + Len(t)
        /\ Range(s \o t) = Range(s) \cup Range(t)
        /\ \A i \in 1..Len(s) : (s \o t)[i] = s[i]
        /\ \A i \in 1..Len(t) : (s \o t)[Len(s) + i] = t[i]
    BY <2>1, <2>2, MembersOfBoth
  <2>7. PICK m \in Nat : m = Len(s)
    BY <2>1
  <2>8. PICK l \in Nat : l = Len(t)
    BY <2>2
  <2>9. /\ u \in Seq(Extents) /\ Len(u) = m + l /\ Range(u) = Range(s) \cup Range(t)
        /\ \A i \in 1..m : u[i] = s[i] /\ s[i] \in Range(s)
        /\ \A i \in 1..l : u[m + i] = t[i] /\ t[i] \in Range(t)
    <3>1. /\ u \in Seq(Extents) /\ Len(u) = m + l /\ Range(u) = Range(s) \cup Range(t)
          /\ \A i \in 1..m : u[i] = s[i]
          /\ \A i \in 1..l : u[m + i] = t[i]
      BY <2>3, <2>6, <2>7, <2>8
    <3>2. DOMAIN s = 1..m /\ DOMAIN t = 1..l
      BY <2>1, <2>2, <2>7, <2>8
    <3>3. (\A i \in 1..m : s[i] \in Range(s)) /\ (\A i \in 1..l : t[i] \in Range(t))
      BY <3>2 DEF Range
    <3> QED
      BY <3>1, <3>3
  <2>10. ASSUME NEW i \in 1..(m + l), NEW j \in 1..(m + l), i <= j PROVE u[i].first <= u[j].first
    <3>1. CASE j <= m
      <4>1. i \in 1..m /\ j \in 1..m
        BY <2>10, <3>1
      <4> QED
        BY <2>1, <2>7, <2>9, <2>10, <4>1 DEF Ascending
    <3>2. CASE i > m
      <4>1. i - m \in 1..l /\ j - m \in 1..l /\ i - m <= j - m /\ m + (i - m) = i /\ m + (j - m) = j
        BY <2>10, <3>2
      <4>2. u[i] = t[i - m] /\ u[j] = t[j - m]
        BY <2>9, <4>1
      <4> QED
        BY <2>2, <2>8, <4>1, <4>2 DEF Ascending
    <3>3. CASE i <= m /\ j > m
      <4>1. i \in 1..m /\ j - m \in 1..l /\ m + (j - m) = j
        BY <3>3
      <4>2. u[i] = s[i] /\ s[i] \in Range(s) /\ u[j] = t[j - m] /\ t[j - m] \in Range(t)
        BY <2>9, <4>1
      <4> QED
        BY <2>4, <4>2
    <3> QED
      BY <3>1, <3>2, <3>3
  <2>11. Ascending(u)
    BY <2>9, <2>10 DEF Ascending
  <2> QED
    BY <2>1, <2>5, <2>9, <2>11 DEF s, t, u
<1> HIDE DEF Good
<1>5. \A k \in 0..n : <<k, after[k]>> \in Good
  BY <1>3, <1>4, AllAlong
<1>6. <<n, after[n]>> \in Good
  BY <1>5
<1> QED
  BY <1>2, <1>6 DEF Good

----------------------------------------------------------------------------
(* Sorting                                                                 *)

\* In a list in order there is a place for every range.
LEMMA PlaceForRange ==
    ASSUME NEW s \in Seq(Extents), Ascending(s), NEW r \in Extents
    PROVE  \E n \in 0..Len(s) : /\ \A i \in 1..n : s[i].first <= r.first
                                /\ \A i \in (n + 1)..Len(s) : r.first < s[i].first
<1>1. PICK m \in Nat : m = Len(s)
  OBVIOUS
<1>2. \A i \in 1..m : s[i].first \in Int
  <2>1. ASSUME NEW i \in 1..m PROVE s[i].first \in Int
    <3>1. s[i] \in Extents
      BY <1>1
    <3> QED
      BY <3>1 DEF Extents
  <2> QED
    BY <2>1
<1> DEFINE Cuts == {n \in 0..m : \A i \in (n + 1)..m : r.first < s[i].first}
<1>3. m \in Cuts /\ Cuts \subseteq Nat
  OBVIOUS
<1>4. PICK n \in Cuts : \A k \in Cuts : n <= k
  BY <1>3, LeastNatural
<1>5. ASSUME NEW i \in 1..n PROVE s[i].first <= r.first
  <2>1. n \in 1..m /\ n - 1 \in 0..m /\ n - 1 \notin Cuts
    BY <1>4
  <2>2. PICK j \in n..m : ~(r.first < s[j].first)
    BY <2>1
  <2>3. j = n
    <3>1. j # n => j \in (n + 1)..m
      BY <2>1
    <3> QED
      BY <1>4, <2>2, <3>1
  <2>4. s[n].first <= r.first
    BY <1>2, <2>1, <2>2, <2>3 DEF Extents
  <2>5. s[i].first <= s[n].first /\ s[i].first \in Int /\ s[n].first \in Int
    BY <1>1, <1>2, <2>1 DEF Ascending
  <2> QED
    BY <2>4, <2>5, SMTT(30) DEF Extents
<1> QED
  BY <1>1, <1>4, <1>5

\* An insertion keeps the order and adds just the range.
LEMMA InsertedFacts ==
    ASSUME NEW s \in Seq(Extents), Ascending(s), NEW r \in Extents
    PROVE  /\ Inserted(s, r) \in Seq(Extents) /\ Ascending(Inserted(s, r))
           /\ Range(Inserted(s, r)) = Range(s) \cup {r}
<1>1. PICK m \in Nat : m = Len(s)
  OBVIOUS
<1> DEFINE Cut(n) == /\ \A i \in 1..n : s[i].first <= r.first
                     /\ \A i \in (n + 1)..Len(s) : r.first < s[i].first
           n == CHOOSE k \in 0..Len(s) : Cut(k)
           u == Inserted(s, r)
<1>2. n \in 0..m /\ Cut(n)
  BY <1>1, PlaceForRange
<1>3. u = [i \in 1..(m + 1) |-> IF i <= n THEN s[i] ELSE IF i = n + 1 THEN r ELSE s[i - 1]]
  BY <1>1 DEF Inserted
<1>4. /\ \A i \in 1..m : s[i] \in Extents /\ s[i].first \in Int
      /\ r.first \in Int
  <2>1. ASSUME NEW i \in 1..m PROVE s[i] \in Extents /\ s[i].first \in Int
    <3>1. s[i] \in Extents
      BY <1>1
    <3> QED
      BY <3>1 DEF Extents
  <2> QED
    BY <2>1 DEF Extents
<1>5. /\ \A i \in 1..n : s[i].first <= r.first
      /\ \A i \in (n + 1)..m : r.first < s[i].first
  BY <1>1, <1>2
<1> HIDE DEF n, u
<1>6. ASSUME NEW i \in 1..(m + 1)
      PROVE  /\ i <= n => i \in 1..m /\ u[i] = s[i]
             /\ i = n + 1 => u[i] = r
             /\ i > n + 1 => i - 1 \in (n + 1)..m /\ i - 1 \in 1..m /\ u[i] = s[i - 1]
  BY <1>2, <1>3
<1>7. u \in Seq(Extents) /\ Len(u) = m + 1
  <2>1. ASSUME NEW i \in 1..(m + 1) PROVE u[i] \in Extents
    <3>1. i <= n \/ i = n + 1 \/ i > n + 1
      BY <1>2
    <3> QED
      BY <1>4, <1>6, <3>1
  <2>2. u \in [1..(m + 1) -> Extents]
    BY <1>3, <2>1
  <2> QED
    BY <2>2
<1>8. ASSUME NEW i \in 1..(m + 1), NEW j \in 1..(m + 1), i <= j PROVE u[i].first <= u[j].first
  <2>1. CASE j <= n
    <3>1. u[i] = s[i] /\ u[j] = s[j] /\ i \in 1..m /\ j \in 1..m
      BY <1>2, <1>6, <1>8, <2>1
    <3> QED
      BY <1>1, <1>8, <3>1 DEF Ascending
  <2>2. CASE i > n + 1
    <3>1. u[i] = s[i - 1] /\ u[j] = s[j - 1] /\ i - 1 \in 1..m /\ j - 1 \in 1..m /\ i - 1 <= j - 1
      BY <1>2, <1>6, <1>8, <2>2
    <3> QED
      BY <1>1, <3>1 DEF Ascending
  <2>3. CASE i <= n /\ j = n + 1
    <3>1. u[i] = s[i] /\ u[j] = r /\ i \in 1..n
      BY <1>2, <1>6, <2>3
    <3> QED
      BY <1>5, <3>1
  <2>4. CASE i = n + 1 /\ j = n + 1
    <3>1. u[i] = r /\ u[j] = r
      BY <1>6, <2>4
    <3> QED
      BY <1>4, <3>1
  <2>5. CASE i = n + 1 /\ j > n + 1
    <3>1. u[i] = r /\ u[j] = s[j - 1] /\ j - 1 \in (n + 1)..m /\ j - 1 \in 1..m
      BY <1>6, <2>5
    <3>2. r.first < s[j - 1].first /\ s[j - 1].first \in Int
      BY <1>4, <1>5, <3>1
    <3> QED
      BY <1>4, <3>1, <3>2
  <2>6. CASE i <= n /\ j > n + 1
    <3>1. u[i] = s[i] /\ u[j] = s[j - 1] /\ j - 1 \in 1..m /\ i \in 1..m /\ i <= j - 1
      BY <1>2, <1>6, <2>6
    <3> QED
      BY <1>1, <3>1 DEF Ascending
  <2> QED
    BY <1>2, <1>8, <2>1, <2>2, <2>3, <2>4, <2>5, <2>6
<1>9. DOMAIN u = 1..(m + 1) /\ DOMAIN s = 1..m
  BY <1>1, <1>3
<1>10. ASSUME NEW x \in Range(u) PROVE x \in Range(s) \cup {r}
  <2>1. PICK i \in 1..(m + 1) : x = u[i]
    BY <1>9 DEF Range
  <2>2. i <= n \/ i = n + 1 \/ i > n + 1
    BY <1>2
  <2> QED
    BY <1>6, <1>9, <2>1, <2>2 DEF Range
<1>11. ASSUME NEW x \in Range(s) \cup {r} PROVE x \in Range(u)
  <2>1. CASE x = r
    <3>1. n + 1 \in 1..(m + 1) /\ u[n + 1] = r
      BY <1>2, <1>6
    <3> QED
      BY <1>9, <2>1, <3>1 DEF Range
  <2>2. CASE x \in Range(s)
    <3>1. PICK i \in 1..m : x = s[i]
      BY <1>9, <2>2 DEF Range
    <3>2. CASE i <= n
      <4>1. i \in 1..(m + 1) /\ u[i] = x
        BY <1>6, <3>1, <3>2
      <4> QED
        BY <1>9, <4>1 DEF Range
    <3>3. CASE i > n
      <4>1. i + 1 \in 1..(m + 1) /\ i + 1 > n + 1 /\ (i + 1) - 1 = i
        BY <1>2, <3>3
      <4>2. u[i + 1] = x
        BY <1>6, <3>1, <4>1
      <4> QED
        BY <1>9, <4>1, <4>2 DEF Range
    <3> QED
      BY <1>2, <3>2, <3>3
  <2> QED
    BY <1>11, <2>1, <2>2
<1>12. Ascending(u)
  BY <1>7, <1>8 DEF Ascending
<1> QED
  BY <1>7, <1>10, <1>11, <1>12 DEF u

\* Sorting keeps the ranges and puts them in order.
LEMMA SortedFacts ==
    ASSUME NEW s \in Seq(Extents)
    PROVE  /\ SortedRanges(s) \in Seq(Extents) /\ Ascending(SortedRanges(s))
           /\ Range(SortedRanges(s)) = Range(s)
<1>1. PICK n \in Nat : n = Len(s)
  OBVIOUS
<1> DEFINE T == {t \in Seq(Extents) : Ascending(t)}
           step == [x \in (1..n) \X T |-> Inserted(x[2], s[x[1]])]
<1>2. <<>> \in T /\ \A k \in 1..n : s[k] \in Extents
  BY <1>1 DEF Ascending
<1>3. ASSUME NEW k \in 1..n, NEW t \in T
      PROVE  Inserted(t, s[k]) \in T /\ Range(Inserted(t, s[k])) = Range(t) \cup {s[k]}
  <2>1. t \in Seq(Extents) /\ Ascending(t) /\ s[k] \in Extents
    BY <1>2
  <2> QED
    BY <2>1, InsertedFacts
<1>4. step \in [(1..n) \X T -> T]
  BY <1>3
<1>5. \A k \in 1..n, t \in T : step[<<k, t>>] = Inserted(t, s[k])
  OBVIOUS
<1>6. T \subseteq Seq(Extents) /\ \A t \in T : Ascending(t)
  OBVIOUS
<1> HIDE DEF T, step
<1>7. PICK f : Recursive(f, n, T, <<>>, step)
  BY <1>2, <1>4, Recursion DEF StepOn
<1>8. f \in [0..n -> T] /\ f[0] = <<>> /\ \A k \in 1..n : f[k] = Inserted(f[k - 1], s[k])
  <2>1. f \in [0..n -> T] /\ f[0] = <<>> /\ \A k \in 1..n : f[k] = step[<<k, f[k - 1]>>]
    BY <1>7 DEF Recursive
  <2>2. ASSUME NEW k \in 1..n PROVE f[k] = Inserted(f[k - 1], s[k])
    <3>1. k - 1 \in 0..n
      OBVIOUS
    <3> QED
      BY <1>5, <2>1, <3>1
  <2> QED
    BY <2>1, <2>2
<1> DEFINE Turns(g) == g = [k \in 0..Len(s) |-> IF k = 0 THEN <<>> ELSE Inserted(g[k - 1], s[k])]
           after == CHOOSE g : Turns(g)
<1>9. Turns(after)
  <2>1. \A k \in 0..n : k # 0 => k \in 1..n
    OBVIOUS
  <2>2. Turns(f)
    BY <1>1, <1>8, <2>1
  <2> HIDE DEF Turns
  <2> QED
    BY <2>2
<1>10. SortedRanges(s) = after[n]
  BY <1>1 DEF SortedRanges
<1> HIDE DEF after
<1>11. 0 \in 0..n /\ \A k \in 1..n : k \in 0..n /\ k # 0
  OBVIOUS
<1>12. after[0] = <<>> /\ \A k \in 1..n : after[k] = Inserted(after[k - 1], s[k])
  BY <1>1, <1>9, <1>11
<1> DEFINE Upto(k) == {s[i] : i \in 1..k}
           Good == {x \in (0..n) \X T : Range(x[2]) = Upto(x[1])}
<1>13. <<0, after[0]>> \in Good
  <2>1. Range(<<>>) = {} /\ Upto(0) = {}
    BY DEF Range
  <2> QED
    BY <1>2, <1>11, <1>12, <2>1
<1>14. ASSUME NEW k \in 1..n, <<k - 1, after[k - 1]>> \in Good PROVE <<k, after[k]>> \in Good
  <2>1. after[k - 1] \in T /\ Range(after[k - 1]) = Upto(k - 1) /\ k \in 0..n
    BY <1>11, <1>14
  <2>2. after[k] \in T /\ Range(after[k]) = Range(after[k - 1]) \cup {s[k]}
    BY <1>3, <1>12, <2>1
  <2>3. Upto(k) = Upto(k - 1) \cup {s[k]}
    <3>1. 1..k = 1..(k - 1) \cup {k}
      OBVIOUS
    <3> QED
      BY <3>1
  <2> HIDE DEF Upto
  <2> QED
    BY <2>1, <2>2, <2>3
<1> HIDE DEF Good
<1>15. \A k \in 0..n : <<k, after[k]>> \in Good
  BY <1>13, <1>14, AllAlong
<1>16. <<n, after[n]>> \in Good
  BY <1>15
<1>17. after[n] \in T /\ Range(after[n]) = Upto(n)
  BY <1>16 DEF Good
<1>18. Range(s) = Upto(n)
  BY <1>1 DEF Range
<1> QED
  BY <1>6, <1>10, <1>17, <1>18

----------------------------------------------------------------------------
(* Joining what overlaps or touches                                        *)

\* The sectors of a list are those of its ranges.
LEMMA SectorsAre ==
    ASSUME NEW s \in Seq(Extents)
    PROVE  /\ SectorsOf(s) = UNION {SectorsIn(r) : r \in Range(s)}
           /\ \A x : x \in SectorsOf(s) <=> \E i \in 1..Len(s) : x \in SectorsIn(s[i])
<1>1. SectorsOf(s) = UNION {SectorsIn(r) : r \in Range(s)}
  BY DEF SectorsOf, SectorsIn
<1>2. DOMAIN s = 1..Len(s)
  OBVIOUS
<1> QED
  BY <1>1, <1>2 DEF Range

\* Max of two numbers is the greater.
LEMMA GreaterOfTwo ==
    ASSUME NEW a \in Int, NEW b \in Int
    PROVE  Max({a, b}) \in {a, b} /\ Max({a, b}) >= a /\ Max({a, b}) >= b
<1>1. \E x \in {a, b} : \A y \in {a, b} : x >= y
  <2>1. CASE a >= b
    BY <2>1
  <2>2. CASE ~(a >= b)
    BY <2>2
  <2> QED
    BY <2>1, <2>2
<1> DEFINE x == CHOOSE x \in {a, b} : \A y \in {a, b} : x >= y
<1>2. x \in {a, b} /\ \A y \in {a, b} : x >= y
  BY <1>1
<1> HIDE DEF x
<1>3. Max({a, b}) = x
  BY DEF Max, x
<1> QED
  BY <1>2, <1>3

\* A range that does not start before the last one goes on with it or comes
\* behind it, apart.
LEMMA MergedWithFacts ==
    ASSUME NEW s \in Seq(Extents), NEW r \in Extents
    PROVE  /\ MergedWith(s, r) \in Seq(Extents) /\ MergedWith(s, r) # <<>>
           /\ SetApart(s) /\ (s # <<>> => s[Len(s)].first <= r.first) =>
                /\ SetApart(MergedWith(s, r))
                /\ MergedWith(s, r)[Len(MergedWith(s, r))].first <= r.first
                /\ SectorsOf(MergedWith(s, r)) = SectorsOf(s) \cup SectorsIn(r)
<1>1. PICK m \in Nat : m = Len(s)
  OBVIOUS
<1>2. PICK f \in Int, c \in Nat : r = [first |-> f, count |-> c]
  BY DEF Extents
<1>3. r.first = f /\ r.count = c
  BY <1>2
<1> DEFINE goesOn == s # <<>> /\ r.first <= Last(s).first + Last(s).count
           u == MergedWith(s, r)
<1>4. CASE ~goesOn
  <2>1. u = Append(s, r)
    BY <1>4 DEF MergedWith
  <2>2. /\ u \in Seq(Extents) /\ Len(u) = m + 1 /\ u[m + 1] = r
        /\ \A i \in 1..m : u[i] = s[i]
    BY <1>1, <2>1
  <2> HIDE DEF u
  <2>3. u # <<>>
    BY <2>2
  <2>4. ASSUME SetApart(s), s # <<>> => s[Len(s)].first <= r.first
        PROVE  /\ SetApart(u) /\ u[Len(u)].first <= r.first
               /\ SectorsOf(u) = SectorsOf(s) \cup SectorsIn(r)
    <3>1. ASSUME NEW i \in 2..(m + 1) PROVE u[i - 1].first + u[i - 1].count < u[i].first
      <4>1. CASE i <= m
        <5>1. i \in 2..m /\ i - 1 \in 1..m /\ i \in 1..m
          BY <4>1
        <5>2. u[i - 1] = s[i - 1] /\ u[i] = s[i]
          BY <2>2, <5>1
        <5> QED
          BY <1>1, <2>4, <5>1, <5>2 DEF SetApart
      <4>2. CASE i = m + 1
        <5>1. m \in 1..m /\ i - 1 = m /\ s # <<>>
          BY <1>1, <4>2
        <5>2. u[i - 1] = s[m] /\ u[i] = r /\ Last(s) = s[m] /\ s[m] \in Extents
          BY <1>1, <2>2, <4>2, <5>1 DEF Last
        <5>3. s[m].first + s[m].count \in Int
          BY <5>2 DEF Extents
        <5>4. ~(r.first <= s[m].first + s[m].count)
          BY <1>4, <5>1, <5>2
        <5> QED
          BY <1>3, <5>2, <5>3, <5>4
      <4> QED
        BY <4>1, <4>2
    <3>2. SetApart(u)
      BY <2>2, <3>1 DEF SetApart
    <3>3. u[Len(u)].first <= r.first
      BY <1>3, <2>2
    <3>4. ASSUME NEW x PROVE x \in SectorsOf(u) <=> x \in SectorsOf(s) \cup SectorsIn(r)
      <4>1. x \in SectorsOf(u) <=> \E i \in 1..(m + 1) : x \in SectorsIn(u[i])
        BY <2>2, SectorsAre
      <4>2. x \in SectorsOf(s) <=> \E i \in 1..m : x \in SectorsIn(s[i])
        BY <1>1, SectorsAre
      <4>3. \A i \in 1..(m + 1) : i \in 1..m \/ i = m + 1
        OBVIOUS
      <4>4. m + 1 \in 1..(m + 1) /\ \A i \in 1..m : i \in 1..(m + 1)
        OBVIOUS
      <4> QED
        BY <2>2, <4>1, <4>2, <4>3, <4>4
    <3> QED
      BY <3>2, <3>3, <3>4
  <2> QED
    BY <2>2, <2>3, <2>4 DEF u
<1>5. CASE goesOn
  <2>1. m \in 1..m /\ Last(s) = s[m] /\ s[m] \in Extents
    BY <1>1, <1>5 DEF Last
  <2>2. PICK lf \in Int, lc \in Nat : s[m] = [first |-> lf, count |-> lc]
    BY <2>1 DEF Extents
  <2>3. s[m].first = lf /\ s[m].count = lc
    BY <2>2
  <2>4. PICK d : d = Max({lc, f + c - lf})
    OBVIOUS
  <2>5. d \in {lc, f + c - lf} /\ d >= lc /\ d >= f + c - lf /\ d \in Nat
    <3>1. PICK e \in Int : e = f + c - lf
      OBVIOUS
    <3>2. lc \in Int /\ d = Max({lc, e})
      BY <2>4, <3>1
    <3>3. d \in {lc, e} /\ d >= lc /\ d >= e
      BY <3>1, <3>2, GreaterOfTwo
    <3>4. d \in Nat
      BY <3>1, <3>3
    <3> QED
      BY <3>1, <3>3, <3>4
  <2>6. u = [s EXCEPT ![m] = [first |-> lf, count |-> d]]
    <3>1. u = [s EXCEPT ![m].count = Max({s[m].count, r.first + r.count - s[m].first})]
      BY <1>1, <1>5, <2>1 DEF MergedWith
    <3>2. u = [s EXCEPT ![m].count = d]
      BY <1>3, <2>3, <2>4, <3>1
    <3>3. [s[m] EXCEPT !.count = d] = [first |-> lf, count |-> d]
      BY <2>2
    <3> QED
      BY <3>2, <3>3
  <2>7. f <= lf + lc
    BY <1>3, <1>5, <2>1, <2>3
  <2> HIDE DEF u
  <2>8. /\ u \in Seq(Extents) /\ Len(u) = m /\ u[m] = [first |-> lf, count |-> d]
        /\ \A i \in 1..m : i # m => u[i] = s[i]
    <3>1. [first |-> lf, count |-> d] \in Extents
      BY <2>5 DEF Extents
    <3> QED
      BY <1>1, <2>1, <2>6, <3>1
  <2>9. u[m].first = lf /\ u[m].count = d
    BY <2>8
  <2>10. u # <<>>
    BY <2>1, <2>8
  <2>11. ASSUME SetApart(s), s # <<>> => s[Len(s)].first <= r.first
         PROVE  /\ SetApart(u) /\ u[Len(u)].first <= r.first
                /\ SectorsOf(u) = SectorsOf(s) \cup SectorsIn(r)
    <3>0. lf <= f
      BY <1>1, <1>3, <1>5, <2>3, <2>11
    <3>1. ASSUME NEW i \in 2..m PROVE u[i - 1].first + u[i - 1].count < u[i].first
      <4>1. i - 1 \in 1..m /\ i - 1 # m /\ i \in 1..m
        OBVIOUS
      <4>2. u[i - 1] = s[i - 1] /\ u[i].first = s[i].first
        BY <2>3, <2>8, <2>9, <4>1
      <4> QED
        BY <1>1, <2>11, <4>2 DEF SetApart
    <3>2. SetApart(u)
      BY <2>8, <3>1 DEF SetApart
    <3>3. u[Len(u)].first <= r.first
      BY <1>3, <2>8, <2>9, <3>0
    <3>4. ASSUME NEW x PROVE x \in SectorsOf(u) <=> x \in SectorsOf(s) \cup SectorsIn(r)
      <4>1. x \in SectorsOf(u) <=> \E i \in 1..m : x \in SectorsIn(u[i])
        BY <2>8, SectorsAre
      <4>2. x \in SectorsOf(s) <=> \E i \in 1..m : x \in SectorsIn(s[i])
        BY <1>1, SectorsAre
      <4>3. x \in SectorsIn(u[m]) <=> x \in SectorsIn(s[m]) \/ x \in SectorsIn(r)
        <5>1. SectorsIn(u[m]) = lf..(lf + d - 1)
          BY <2>9 DEF SectorsIn
        <5>2. SectorsIn(s[m]) = lf..(lf + lc - 1) /\ SectorsIn(r) = f..(f + c - 1)
          BY <1>3, <2>3 DEF SectorsIn
        <5>3. lf..(lf + d - 1) = lf..(lf + lc - 1) \cup f..(f + c - 1)
          BY <2>5, <2>7, <3>0
        <5> QED
          BY <5>1, <5>2, <5>3
      <4> QED
        BY <2>1, <2>8, <4>1, <4>2, <4>3
    <3> QED
      BY <3>2, <3>3, <3>4
  <2> QED
    BY <2>8, <2>10, <2>11 DEF u
<1> QED
  BY <1>4, <1>5

\* Ranges in order come out apart, with the same sectors.
LEMMA MergedFacts ==
    ASSUME NEW s \in Seq(Extents), Ascending(s)
    PROVE  /\ MergedInOrder(s) \in Seq(Extents) /\ SetApart(MergedInOrder(s))
           /\ SectorsOf(MergedInOrder(s)) = SectorsOf(s)
           /\ s # <<>> => MergedInOrder(s) # <<>>
<1>1. PICK n \in Nat : n = Len(s)
  OBVIOUS
<1> DEFINE T == Seq(Extents)
           step == [x \in (1..n) \X T |-> MergedWith(x[2], s[x[1]])]
<1>2. <<>> \in T /\ \A k \in 1..n : s[k] \in Extents
  BY <1>1
<1>3. ASSUME NEW k \in 1..n, NEW t \in T PROVE MergedWith(t, s[k]) \in T
  BY <1>2, MergedWithFacts
<1>4. step \in [(1..n) \X T -> T]
  BY <1>3
<1>5. \A k \in 1..n, t \in T : step[<<k, t>>] = MergedWith(t, s[k])
  OBVIOUS
<1> HIDE DEF T, step
<1>7. PICK f : Recursive(f, n, T, <<>>, step)
  BY <1>2, <1>4, Recursion DEF StepOn
<1>8. f \in [0..n -> T] /\ f[0] = <<>> /\ \A k \in 1..n : f[k] = MergedWith(f[k - 1], s[k])
  <2>1. f \in [0..n -> T] /\ f[0] = <<>> /\ \A k \in 1..n : f[k] = step[<<k, f[k - 1]>>]
    BY <1>7 DEF Recursive
  <2>2. ASSUME NEW k \in 1..n PROVE f[k] = MergedWith(f[k - 1], s[k])
    <3>1. k - 1 \in 0..n
      OBVIOUS
    <3> QED
      BY <1>5, <2>1, <3>1
  <2> QED
    BY <2>1, <2>2
<1> DEFINE Turns(g) == g = [k \in 0..Len(s) |-> IF k = 0 THEN <<>> ELSE MergedWith(g[k - 1], s[k])]
           after == CHOOSE g : Turns(g)
<1>9. Turns(after)
  <2>1. \A k \in 0..n : k # 0 => k \in 1..n
    OBVIOUS
  <2>2. Turns(f)
    BY <1>1, <1>8, <2>1
  <2> HIDE DEF Turns
  <2> QED
    BY <2>2
<1>10. MergedInOrder(s) = after[n]
  BY <1>1 DEF MergedInOrder
<1> HIDE DEF after
<1>11. 0 \in 0..n /\ \A k \in 1..n : k \in 0..n /\ k # 0
  OBVIOUS
<1>12. after[0] = <<>> /\ \A k \in 1..n : after[k] = MergedWith(after[k - 1], s[k])
  BY <1>1, <1>9, <1>11
<1> DEFINE Upto(k) == UNION {SectorsIn(s[i]) : i \in 1..k}
           Fit(k, t) == /\ SetApart(t) /\ SectorsOf(t) = Upto(k) /\ (k = 0 <=> t = <<>>)
                        /\ k # 0 => t[Len(t)].first <= s[k].first
           Good == {x \in (0..n) \X T : Fit(x[1], x[2])}
<1>13. <<0, after[0]>> \in Good
  <2>1. SectorsOf(<<>>) = {} /\ Upto(0) = {} /\ SetApart(<<>>)
    BY DEF SectorsOf, Range, SetApart
  <2> QED
    BY <1>2, <1>11, <1>12, <2>1
<1>14. ASSUME NEW k \in 1..n, <<k - 1, after[k - 1]>> \in Good PROVE <<k, after[k]>> \in Good
  <2> DEFINE t == after[k - 1]
             u == after[k]
  <2>1. t \in T /\ Fit(k - 1, t)
    BY <1>14
  <2>2. u = MergedWith(t, s[k]) /\ s[k] \in Extents /\ s[k].first \in Int
    <3>1. s[k] \in Extents
      BY <1>2
    <3> QED
      BY <1>12, <3>1 DEF Extents
  <2> HIDE DEF t, u
  <2>3. t # <<>> => t[Len(t)].first <= s[k].first
    <3> SUFFICES ASSUME t # <<>> PROVE t[Len(t)].first <= s[k].first
      OBVIOUS
    <3>1. k - 1 # 0 /\ k - 1 \in 1..n
      BY <2>1
    <3>2. t[Len(t)].first <= s[k - 1].first
      BY <2>1, <3>1
    <3>3. s[k - 1].first <= s[k].first
      BY <1>1, <3>1 DEF Ascending
    <3>4. Len(t) \in 1..Len(t) /\ t \in Seq(Extents)
      BY <2>1 DEF T
    <3>5. t[Len(t)] \in Extents /\ s[k - 1] \in Extents
      BY <1>2, <3>1, <3>4
    <3>6. t[Len(t)].first \in Int /\ s[k - 1].first \in Int
      BY <3>5 DEF Extents
    <3> QED
      BY <2>2, <3>2, <3>3, <3>6
  <2>4. /\ u \in Seq(Extents) /\ u # <<>> /\ SetApart(u) /\ u[Len(u)].first <= s[k].first
        /\ SectorsOf(u) = SectorsOf(t) \cup SectorsIn(s[k])
    BY <2>1, <2>2, <2>3, MergedWithFacts DEF T
  <2>5. Upto(k) = Upto(k - 1) \cup SectorsIn(s[k])
    <3>1. 1..k = 1..(k - 1) \cup {k}
      OBVIOUS
    <3> QED
      BY <3>1
  <2>6. SectorsOf(t) = Upto(k - 1)
    BY <2>1
  <2> HIDE DEF Upto
  <2>7. Fit(k, u)
    BY <2>4, <2>5, <2>6
  <2> QED
    BY <1>11, <2>4, <2>7 DEF T, u
<1> HIDE DEF Good
<1>15. \A k \in 0..n : <<k, after[k]>> \in Good
  BY <1>13, <1>14, AllAlong
<1>16. <<n, after[n]>> \in Good
  BY <1>15
<1>17. after[n] \in Seq(Extents) /\ Fit(n, after[n])
  BY <1>16 DEF Good, T
<1>18. SectorsOf(s) = Upto(n)
  BY <1>1, SectorsAre
<1>19. n = 0 <=> s = <<>>
  BY <1>1
<1> HIDE DEF Upto
<1> QED
  BY <1>10, <1>17, <1>18, <1>19

\* Merging keeps the sectors and leaves ranges apart.
LEMMA MergeFacts ==
    ASSUME NEW s \in Seq(Extents)
    PROVE  /\ mergeSectorRanges(s) \in Seq(Extents) /\ SetApart(mergeSectorRanges(s))
           /\ SectorsOf(mergeSectorRanges(s)) = SectorsOf(s)
<1>1. PICK t : t = SortedRanges(s)
  OBVIOUS
<1>2. t \in Seq(Extents) /\ Ascending(t) /\ Range(t) = Range(s)
  BY <1>1, SortedFacts
<1>3. SectorsOf(t) = SectorsOf(s)
  BY <1>2 DEF SectorsOf
<1> QED
  BY <1>1, <1>2, <1>3, MergedFacts DEF mergeSectorRanges

\* The runs of free clusters are the free clusters.
LEMMA RunFacts ==
    ASSUME NEW free, NEW first \in Nat, NEW final \in Int, final + 1 - first \in Nat
    PROVE  /\ FreeRuns(free, first, final) \in Seq(Extents)
           /\ SectorsOf(FreeRuns(free, first, final)) = free \cap first..final
<1>1. PICK n \in Nat : n = final + 1 - first
  OBVIOUS
<1> DEFINE one(k) == IF first + k - 1 \in free THEN <<Part(first + k - 1, 1)>> ELSE <<>>
           turns == [k \in 1..(final + 1 - first) |-> one(k)]
           list == Pushed(turns)
<1>2. ASSUME NEW k \in 1..n
      PROVE  /\ one(k) \in Seq(Extents) /\ Ascending(one(k))
             /\ Range(one(k)) = IF first + k - 1 \in free THEN {Part(first + k - 1, 1)} ELSE {}
  <2>1. CASE first + k - 1 \in free
    <3>1. PICK p : p = Part(first + k - 1, 1)
      OBVIOUS
    <3>2. p \in Extents
      BY <3>1 DEF Part, Extents
    <3>3. <<p>> \in Seq(Extents) /\ Len(<<p>>) = 1 /\ Range(<<p>>) = {p} /\ <<p>>[1] = p
      BY <3>2 DEF Range
    <3>4. p.first \in Int
      BY <3>2 DEF Extents
    <3>5. Ascending(<<p>>)
      BY <3>3, <3>4 DEF Ascending
    <3> QED
      BY <2>1, <3>1, <3>3, <3>5
  <2>2. CASE first + k - 1 \notin free
    <3>1. Ascending(<<>>) /\ Range(<<>>) = {}
      BY DEF Ascending, Range
    <3> QED
      BY <2>2, <3>1
  <2> QED
    BY <2>1, <2>2
<1> HIDE DEF one
<1>3. /\ turns \in Seq(Seq(Extents)) /\ Len(turns) = n
      /\ \A k \in 1..n : turns[k] = one(k)
  <2>1. turns = [k \in 1..n |-> one(k)]
    BY <1>1
  <2> HIDE DEF turns
  <2>2. turns \in [1..n -> Seq(Extents)]
    BY <1>2, <2>1
  <2> QED
    BY <2>1, <2>2
<1> HIDE DEF turns
<1>4. \A k \in 1..Len(turns) : Ascending(turns[k])
  BY <1>2, <1>3
<1>5. ASSUME NEW j \in 1..Len(turns), NEW k \in 1..Len(turns), j < k,
             NEW a \in Range(turns[j]), NEW b \in Range(turns[k])
      PROVE  a.first <= b.first
  <2>1. a = Part(first + j - 1, 1) /\ b = Part(first + k - 1, 1)
    BY <1>2, <1>3
  <2> QED
    BY <1>3, <1>5, <2>1 DEF Part
<1>6. list \in Seq(Extents) /\ Ascending(list) /\ Range(list) = UNION {Range(turns[k]) : k \in 1..n}
  BY <1>3, <1>4, <1>5, PushedFacts, PushedAscends
<1> HIDE DEF list
<1>7. ASSUME NEW x PROVE x \in SectorsOf(list) <=> x \in free /\ x \in first..final
  <2>1. x \in SectorsOf(list) <=> \E r \in Range(list) : x \in SectorsIn(r)
    BY <1>6, SectorsAre
  <2>2. ASSUME NEW r \in Range(list), x \in SectorsIn(r) PROVE x \in free /\ x \in first..final
    <3>1. PICK k \in 1..n : r \in Range(one(k))
      BY <1>3, <1>6
    <3>2. first + k - 1 \in free /\ r = Part(first + k - 1, 1)
      BY <1>2, <3>1
    <3>3. x = first + k - 1
      BY <2>2, <3>2 DEF SectorsIn, Part
    <3> QED
      BY <1>1, <3>2, <3>3
  <2>3. ASSUME x \in free, x \in first..final PROVE \E r \in Range(list) : x \in SectorsIn(r)
    <3>1. x - first + 1 \in 1..n /\ first + (x - first + 1) - 1 = x
      BY <1>1, <2>3
    <3>2. Part(x, 1) \in Range(one(x - first + 1))
      <4>1. PICK k \in 1..n : k = x - first + 1
        BY <3>1
      <4>2. first + k - 1 = x
        BY <2>3, <4>1
      <4>3. Range(one(k)) = {Part(x, 1)}
        BY <1>2, <2>3, <4>2
      <4> QED
        BY <4>1, <4>3
    <3>3. Part(x, 1) \in Range(list)
      BY <1>3, <1>6, <3>1, <3>2
    <3>4. x \in SectorsIn(Part(x, 1))
      BY <2>3 DEF SectorsIn, Part
    <3> QED
      BY <3>3, <3>4
  <2> QED
    BY <2>1, <2>2, <2>3
<1>8. FreeRuns(free, first, final) = MergedInOrder(list)
  BY DEF FreeRuns, list, turns, one
<1>9. SectorsOf(list) = free \cap first..final
  BY <1>7
<1> QED
  BY <1>6, <1>8, <1>9, MergedFacts

----------------------------------------------------------------------------
(* The map of one volume                                                   *)

\* A run of clusters takes the sectors of its clusters.
LEMMA ScaledRun ==
    ASSUME NEW base \in Int, NEW spc \in Nat \ {0}, NEW first \in Int, NEW count \in Nat, NEW x
    PROVE  x \in (base + first * spc)..(base + first * spc + count * spc - 1)
             <=> \E k \in first..(first + count - 1) : x \in (base + k * spc)..(base + (k + 1) * spc - 1)
<1>1. PICK a \in Int : a = base + first * spc
  OBVIOUS
<1>2. \A i \in Int : base + (first + i) * spc = a + i * spc /\ i * spc \in Int
  <2>1. ASSUME NEW i \in Int PROVE base + (first + i) * spc = a + i * spc /\ i * spc \in Int
    <3>1. (first + i) * spc = first * spc + i * spc /\ first * spc \in Int /\ i * spc \in Int
      OBVIOUS
    <3> QED
      BY <1>1, <3>1
  <2> QED
    BY <2>1
<1>3. ASSUME NEW y \in Nat, y < count * spc
      PROVE  \E i \in 0..(count - 1) : i * spc <= y /\ y < (i + 1) * spc
  <2>1. PICK q \in Nat, r \in 0..(spc - 1) : y = q * spc + r /\ q < count
    <3>1. y \div spc \in Nat /\ y % spc \in 0..(spc - 1) /\ y = (y \div spc) * spc + (y % spc)
          /\ y \div spc < count
      BY <1>3, Blocks
    <3> QED
      BY <3>1
  <2>2. (q + 1) * spc = q * spc + spc /\ q * spc \in Nat
    OBVIOUS
  <2>3. PICK z \in Nat : z = q * spc
    BY <2>2
  <2>4. z <= y /\ y < z + spc
    BY <2>1, <2>3
  <2>5. q \in 0..(count - 1)
    BY <2>1
  <2> QED
    BY <2>2, <2>3, <2>4, <2>5
<1>4. ASSUME x \in a..(a + count * spc - 1)
      PROVE  \E k \in first..(first + count - 1) : x \in (base + k * spc)..(base + (k + 1) * spc - 1)
  <2>1. PICK c \in Int : c = count * spc
    OBVIOUS
  <2>2. x \in Int /\ x - a \in Nat /\ x - a < c
    BY <1>4, <2>1
  <2>3. PICK i \in 0..(count - 1) : i * spc <= x - a /\ x - a < (i + 1) * spc
    BY <1>3, <2>1, <2>2
  <2>4. /\ base + (first + i) * spc = a + i * spc /\ i * spc \in Int
        /\ base + (first + (i + 1)) * spc = a + (i + 1) * spc /\ (i + 1) * spc \in Int
    BY <1>2
  <2>5. PICK l \in Int, h \in Int : l = i * spc /\ h = (i + 1) * spc
    BY <2>4
  <2>6. x \in (a + l)..(a + h - 1)
    BY <2>2, <2>3, <2>5
  <2>7. first + i \in first..(first + count - 1) /\ (first + i) + 1 = first + (i + 1)
    OBVIOUS
  <2>8. x \in (base + (first + i) * spc)..(base + ((first + i) + 1) * spc - 1)
    BY <2>4, <2>5, <2>6, <2>7
  <2> QED
    BY <2>7, <2>8
<1>5. ASSUME NEW k \in first..(first + count - 1), x \in (base + k * spc)..(base + (k + 1) * spc - 1)
      PROVE  x \in a..(a + count * spc - 1)
  <2>1. PICK i \in 0..(count - 1) : k = first + i
    <3>1. k - first \in 0..(count - 1) /\ k = first + (k - first)
      OBVIOUS
    <3> QED
      BY <3>1
  <2>2. /\ base + (first + i) * spc = a + i * spc /\ i * spc \in Int
        /\ base + (first + (i + 1)) * spc = a + (i + 1) * spc /\ (i + 1) * spc \in Int
    BY <1>2
  <2>3. k + 1 = first + (i + 1)
    BY <2>1
  <2>4. x \in (a + i * spc)..(a + (i + 1) * spc - 1)
    BY <1>5, <2>1, <2>2, <2>3
  <2>5. i * spc >= 0 /\ (i + 1) * spc <= count * spc /\ count * spc \in Int
    <3>1. PICK j \in Nat : j = count - (i + 1)
      OBVIOUS
    <3>2. count = (i + 1) + j
      BY <3>1
    <3>3. count * spc = (i + 1) * spc + j * spc /\ j * spc \in Nat /\ (i + 1) * spc \in Nat
      BY <3>2
    <3> QED
      BY <3>3
  <2>6. PICK l \in Int, h \in Int, c \in Int : l = i * spc /\ h = (i + 1) * spc /\ c = count * spc
    BY <2>2, <2>5
  <2>7. l >= 0 /\ h <= c /\ x \in (a + l)..(a + h - 1)
    BY <2>4, <2>5, <2>6
  <2> QED
    BY <2>6, <2>7
<1> QED
  BY <1>1, <1>4, <1>5

\* Runs of clusters become ranges of the sectors of their clusters.
LEMMA PlacedFacts ==
    ASSUME NEW at \in Int, NEW v, v.data \in Nat, v.spc \in Nat \ {0}, NEW runs \in Seq(Extents)
    PROVE  /\ PlacedEntry(at, v, runs) \in Seq(Extents)
           /\ SectorsOf(PlacedEntry(at, v, runs)) = SectorsOfClusters(at, v, SectorsOf(runs))
<1>1. PICK n \in Nat : n = Len(runs)
  OBVIOUS
<1>2. PICK base \in Int, spc \in Nat \ {0} : base = at + v.data /\ spc = v.spc
  OBVIOUS
<1> DEFINE placed == PlacedEntry(at, v, runs)
<1>3. placed = [i \in 1..n |-> Part(base + runs[i].first * spc, runs[i].count * spc)]
  BY <1>1, <1>2 DEF PlacedEntry
<1> HIDE DEF placed
<1>4. ASSUME NEW i \in 1..n
      PROVE  /\ placed[i] = [first |-> base + runs[i].first * spc, count |-> runs[i].count * spc]
             /\ placed[i] \in Extents /\ runs[i].first \in Int /\ runs[i].count \in Nat
  <2>1. runs[i] \in Extents
    BY <1>1
  <2>2. runs[i].first \in Int /\ runs[i].count \in Nat
    BY <2>1 DEF Extents
  <2>3. PICK f \in Int, c \in Nat : f = runs[i].first /\ c = runs[i].count
    BY <2>2
  <2>4. f * spc \in Int /\ c * spc \in Nat
    OBVIOUS
  <2>5. base + f * spc \in Int
    BY <2>4
  <2>6. placed[i] = [first |-> base + f * spc, count |-> c * spc]
    BY <1>3, <2>3 DEF Part
  <2> QED
    BY <2>2, <2>3, <2>4, <2>5, <2>6 DEF Extents
<1>5. placed \in Seq(Extents) /\ Len(placed) = n
  <2>1. placed \in [1..n -> Extents]
    BY <1>3, <1>4
  <2> QED
    BY <1>3, <2>1
<1>6. ASSUME NEW i \in 1..n, NEW x
      PROVE  x \in SectorsIn(placed[i])
               <=> \E k \in SectorsIn(runs[i]) : x \in SectorsOfCluster(at, v, k)
  <2>1. PICK f \in Int, c \in Nat : f = runs[i].first /\ c = runs[i].count
    BY <1>4
  <2>2. SectorsIn(placed[i]) = (base + f * spc)..(base + f * spc + c * spc - 1)
    <3>0. placed[i] = [first |-> base + f * spc, count |-> c * spc]
      BY <1>4, <2>1
    <3>1. PICK g, h : g = base + f * spc /\ h = c * spc
      OBVIOUS
    <3>2. placed[i] = [first |-> g, count |-> h]
      BY <3>0, <3>1
    <3>3. placed[i].first = g /\ placed[i].count = h
      BY <3>2
    <3> QED
      BY <3>1, <3>3 DEF SectorsIn
  <2>3. SectorsIn(runs[i]) = f..(f + c - 1)
    BY <2>1 DEF SectorsIn
  <2>4. \A k : SectorsOfCluster(at, v, k) = (base + k * spc)..(base + (k + 1) * spc - 1)
    BY <1>2 DEF SectorsOfCluster
  <2>5. x \in (base + f * spc)..(base + f * spc + c * spc - 1)
          <=> \E k \in f..(f + c - 1) : x \in (base + k * spc)..(base + (k + 1) * spc - 1)
    BY ScaledRun
  <2> QED
    BY <2>2, <2>3, <2>4, <2>5, Zenon
<1>7. ASSUME NEW x PROVE x \in SectorsOf(placed) <=> x \in SectorsOfClusters(at, v, SectorsOf(runs))
  <2>1. x \in SectorsOf(placed) <=> \E i \in 1..n : x \in SectorsIn(placed[i])
    BY <1>5, SectorsAre
  <2>2. \A k : k \in SectorsOf(runs) <=> \E i \in 1..n : k \in SectorsIn(runs[i])
    BY <1>1, SectorsAre
  <2>3. x \in SectorsOfClusters(at, v, SectorsOf(runs))
          <=> \E k \in SectorsOf(runs) : x \in SectorsOfCluster(at, v, k)
    BY DEF SectorsOfClusters
  <2> QED
    BY <1>6, <2>1, <2>2, <2>3
<1>8. SectorsOf(placed) = SectorsOfClusters(at, v, SectorsOf(runs))
  BY <1>7
<1> QED
  BY <1>5, <1>8 DEF placed

\* What the map of a volume leaves free, and what no file owns
FreeClusters(v) == {k \in 0..(v.count - 1) : k < Len(v.used) /\ ~v.used[k + 1] /\ k \div v.piece \notin v.empty}
FileClusters(v) == IF MapTells(v) THEN v.owned ELSE {}
UnownedClusters(v) == 0..(v.count - 1) \ FileClusters(v)

\* A map has no cluster a file owns, and all the free ones when it is found and
\* everything was read.
MapMet(m, at, v) ==
    /\ m.ranges \in Seq(Extents)
    /\ SectorsOf(m.ranges) \subseteq SectorsOfClusters(at, v, UnownedClusters(v))
    /\ MapFound(v) /\ ~m.unread => SectorsOfClusters(at, v, FreeClusters(v)) \subseteq SectorsOf(m.ranges)

\* The fields of a map
LEMMA MapFields == ASSUME NEW r, NEW u PROVE Map(r, u).ranges = r /\ (Map(r, u).unread = u)
  BY DEF Map

\* What a sound volume has
LEMMA SoundVolume ==
    ASSUME NEW v, VolumeIsSound(v)
    PROVE  /\ v.reads \in 0..3 /\ v.data \in Nat /\ v.count \in Nat
           /\ v.spc \in Nat \ {0} /\ v.piece \in Nat \ {0} /\ Len(v.used) \in Nat
           /\ ProbeVolume(v) \in {"ntfs", "exfat", "fat"} => v.empty = {}
           /\ ProbeVolume(v) = "ntfs" => NtfsBits(v) = v.used
  BY DEF VolumeIsSound

\* A cluster that the map of a volume leaves unused is no file's.
LEMMA UnusedIsNoFiles ==
    ASSUME NEW v, VolumeIsSound(v), NEW k \in Int, k < Len(v.used), ~v.used[k + 1]
    PROVE  k \notin FileClusters(v)
<1> SUFFICES ASSUME MapTells(v), k \in v.owned PROVE FALSE
  BY DEF FileClusters
<1>1. CASE ProbeVolume(v) = "exfat"
  BY <1>1 DEF MapTells
<1>2. CASE ProbeVolume(v) # "exfat"
  <2>1. v.shift = 0
    BY DEF MapTells, InPlace
  <2>2. k \in 0..(v.count - 1) /\ k - 0 = k
    BY DEF VolumeIsSound
  <2>3. v.shift <= k /\ k - v.shift < Len(v.used)
    BY <2>1, <2>2
  <2>4. v.used[k - v.shift + 1]
    BY <1>2, <2>3 DEF VolumeIsSound
  <2> QED
    BY <2>1, <2>2, <2>4
<1> QED
  BY <1>1, <1>2

\* More clusters have more sectors.
LEMMA ClustersGrow ==
    ASSUME NEW at, NEW v, NEW some, NEW more, some \subseteq more
    PROVE  SectorsOfClusters(at, v, some) \subseteq SectorsOfClusters(at, v, more)
BY DEF SectorsOfClusters

\* The map of a FAT or exFAT volume has none but clusters its table leaves free,
\* and all of them unless a window of the table does not read.
LEMMA FatFacts ==
    ASSUME NEW v, VolumeIsSound(v), ProbeVolume(v) \in {"fat", "exfat"}, NEW at \in Int
    PROVE  MapMet(FatRanges(at, v), at, v)
<1>1. PICK n \in Nat : n = v.count
  BY SoundVolume
<1> DEFINE window(k) == (k + 2) \div v.piece
           free == {k \in 0..(n - 1) : ~Used(v, v.used, k) /\ window(k) \notin v.bad}
           runs == FreeRuns(free, 0, n - 1)
           lost == \E k \in 0..(n - 1) : k < Len(v.used) /\ window(k) \in v.bad
<1>2. FatRanges(at, v) = Map(PlacedEntry(at, v, runs), lost)
  BY <1>1 DEF FatRanges
<1>3. free \subseteq UnownedClusters(v)
  <2>1. ASSUME NEW k \in free PROVE k \in UnownedClusters(v)
    <3>1. k \in 0..(n - 1) /\ k < Len(v.used) /\ ~v.used[k + 1]
      BY SoundVolume DEF Used
    <3> QED
      BY <1>1, <3>1, UnusedIsNoFiles DEF UnownedClusters
  <2> QED
    BY <2>1
<1>4. ~lost => FreeClusters(v) \subseteq free
  BY <1>1, SoundVolume DEF FreeClusters, Used
<1>5. free \cap 0..(n - 1) = free
  OBVIOUS
<1> HIDE DEF free
<1>6. runs \in Seq(Extents) /\ SectorsOf(runs) = free
  <2>1. 0 \in Nat /\ n - 1 \in Int /\ (n - 1) + 1 - 0 \in Nat
    OBVIOUS
  <2> QED
    BY <1>5, <2>1, RunFacts
<1> HIDE DEF runs
<1>7. /\ PlacedEntry(at, v, runs) \in Seq(Extents)
      /\ SectorsOf(PlacedEntry(at, v, runs)) = SectorsOfClusters(at, v, free)
  BY <1>6, PlacedFacts, SoundVolume
<1>8. /\ SectorsOfClusters(at, v, free) \subseteq SectorsOfClusters(at, v, UnownedClusters(v))
      /\ ~lost => SectorsOfClusters(at, v, FreeClusters(v)) \subseteq SectorsOfClusters(at, v, free)
  BY <1>3, <1>4, ClustersGrow
<1> HIDE DEF lost
<1>9. FatRanges(at, v).ranges = PlacedEntry(at, v, runs) /\ (FatRanges(at, v).unread = lost)
  BY <1>2, MapFields, ZenonT(30)
<1>10. ~FatRanges(at, v).unread =>
          SectorsOfClusters(at, v, FreeClusters(v)) \subseteq SectorsOfClusters(at, v, free)
  BY <1>8, <1>9, Zenon
<1> QED
  BY <1>7, <1>8, <1>9, <1>10, Zenon DEF MapMet

\* The map of an NTFS volume is that of its $Bitmap, or empty.
LEMMA NtfsFacts ==
    ASSUME NEW v, VolumeIsSound(v), ProbeVolume(v) = "ntfs", NEW at \in Int
    PROVE  MapMet(NtfsRanges(at, v), at, v)
<1>1. PICK n \in Nat : n = v.count
  BY SoundVolume
<1> DEFINE failed == v.ntfs.runs # <<>> /\ NeededSectors(v) \cap v.bad # {}
           read == BitmapRecord(v.ntfs) /\ LongEnough(v) /\ ~failed
           free == {k \in 0..(n - 1) : ~Used(v, NtfsBits(v), k)}
           runs == FreeRuns(free, 0, n - 1)
           lost == RecordUnread(v.ntfs) \/ (BitmapRecord(v.ntfs) /\ failed)
           ranges == IF read THEN PlacedEntry(at, v, runs) ELSE <<>>
<1>2. NtfsRanges(at, v) = Map(ranges, lost)
  BY <1>1 DEF NtfsRanges
<1>3. v.empty = {} /\ NtfsBits(v) = v.used
  BY SoundVolume
<1>4. free = FreeClusters(v)
  BY <1>1, <1>3, SoundVolume DEF FreeClusters, Used
<1>14. free \subseteq UnownedClusters(v)
  <2>1. ASSUME NEW k \in free PROVE k \in UnownedClusters(v)
    <3>1. k \in 0..(n - 1) /\ k < Len(v.used) /\ ~v.used[k + 1]
      BY <1>3, SoundVolume DEF Used
    <3> QED
      BY <1>1, <3>1, UnusedIsNoFiles DEF UnownedClusters
  <2> QED
    BY <2>1
<1>5. free \cap 0..(n - 1) = free
  OBVIOUS
<1> HIDE DEF free
<1>6. runs \in Seq(Extents) /\ SectorsOf(runs) = free
  <2>1. 0 \in Nat /\ n - 1 \in Int /\ (n - 1) + 1 - 0 \in Nat
    OBVIOUS
  <2> QED
    BY <1>5, <2>1, RunFacts
<1> HIDE DEF runs
<1>7. /\ PlacedEntry(at, v, runs) \in Seq(Extents)
      /\ SectorsOf(PlacedEntry(at, v, runs)) = SectorsOfClusters(at, v, free)
  BY <1>6, PlacedFacts, SoundVolume
<1>8. <<>> \in Seq(Extents) /\ SectorsOf(<<>>) = {}
  BY DEF SectorsOf, Range
<1>9. MapFound(v) /\ ~lost => read
  BY Zenon DEF MapFound
<1> HIDE DEF lost, read
<1>10. NtfsRanges(at, v).ranges = ranges /\ (NtfsRanges(at, v).unread = lost)
  BY <1>2, MapFields, Zenon
<1>11. ranges \in Seq(Extents) /\ SectorsOf(ranges) \subseteq SectorsOfClusters(at, v, free)
  BY <1>7, <1>8
<1>12. read => SectorsOf(ranges) = SectorsOfClusters(at, v, free)
  BY <1>7
<1> HIDE DEF ranges
<1>13. MapFound(v) /\ ~NtfsRanges(at, v).unread => read
  BY <1>9, <1>10, Zenon
<1>15. SectorsOf(ranges) \subseteq SectorsOfClusters(at, v, UnownedClusters(v))
  BY <1>11, <1>14, ClustersGrow
<1>16. read => SectorsOfClusters(at, v, FreeClusters(v)) \subseteq SectorsOf(ranges)
  BY <1>4, <1>12
<1> QED
  BY <1>10, <1>11, <1>13, <1>15, <1>16, Zenon DEF MapMet

\* Min of two numbers is the lesser.
LEMMA LesserOfTwo ==
    ASSUME NEW a \in Int, NEW b \in Int
    PROVE  Min({a, b}) \in Int /\ Min({a, b}) \in {a, b} /\ Min({a, b}) <= a /\ Min({a, b}) <= b
<1>1. \E x \in {a, b} : \A y \in {a, b} : x =< y
  <2>1. CASE a <= b
    BY <2>1
  <2>2. CASE ~(a <= b)
    BY <2>2
  <2> QED
    BY <2>1, <2>2
<1> DEFINE x == CHOOSE x \in {a, b} : \A y \in {a, b} : x =< y
<1>2. x \in {a, b} /\ \A y \in {a, b} : x =< y
  BY <1>1
<1> HIDE DEF x
<1>3. Min({a, b}) = x
  BY DEF Min, x
<1> QED
  BY <1>2, <1>3

\* The clusters of a group
GroupMet(n, piece, g, low, high) ==
    /\ low \in Nat /\ high \in Int /\ high + 1 - low \in Nat
    /\ \A k \in 0..(n - 1) : k \in low..high <=> k \div piece = g
    /\ low..high \subseteq 0..(n - 1)

\* Block groups end where the next one begins, the last one where the volume does.
LEMMA GroupFacts ==
    ASSUME NEW n \in Nat, NEW piece \in Nat \ {0}
    PROVE  LET groups == (n - 1) \div piece + 1
           IN  /\ groups \in Nat /\ 0..((n - 1) \div piece) = 0..(groups - 1)
               /\ \A g \in 0..(groups - 1) :
                    GroupMet(n, piece, g, g * piece, Min({(g + 1) * piece, n}) - 1)
               /\ \A k \in 0..(n - 1) : k \div piece \in 0..(groups - 1)
<1> DEFINE groups == (n - 1) \div piece + 1
<1>1. CASE n = 0
  <2>1. (n - 1) \div piece = -1
    BY <1>1, SMTT(30)
  <2> QED
    BY <1>1, <2>1
<1>2. CASE n # 0
  <2>1. PICK m \in Nat : m = n - 1
    BY <1>2
  <2>2. PICK q \in Nat : q = m \div piece
    BY <2>1, Blocks
  <2>3. groups = q + 1
    BY <2>1, <2>2
  <2>4. q * piece <= m /\ q * piece \in Nat
    <3>1. PICK r \in 0..(piece - 1) : m = q * piece + r
      BY <2>1, <2>2, Blocks
    <3>2. q * piece \in Nat
      OBVIOUS
    <3> QED
      BY <3>1, <3>2
  <2>5. ASSUME NEW k \in 0..m PROVE k \div piece \in 0..q
    BY <2>1, <2>2, <2>5, BlocksInOrder, Blocks
  <2>6. ASSUME NEW g \in 0..q
        PROVE GroupMet(n, piece, g, g * piece, Min({(g + 1) * piece, n}) - 1)
    <3>1. PICK a \in Nat : a = g * piece
      OBVIOUS
    <3>2. (g + 1) * piece = a + piece
      BY <3>1
    <3>3. a <= m
      <4>1. PICK j \in Nat : q = g + j
        <5>1. q - g \in Nat /\ q = g + (q - g)
          OBVIOUS
        <5> QED
          BY <5>1
      <4>2. q * piece = g * piece + j * piece /\ j * piece \in Nat
        BY <4>1
      <4> QED
        BY <2>4, <3>1, <4>2
    <3>4. PICK b \in Int : b = a + piece
      OBVIOUS
    <3>5. PICK e \in Int : e = Min({b, n}) /\ e \in {a + piece, n} /\ e <= a + piece /\ e <= n
      <4>1. /\ Min({b, n}) \in Int /\ Min({b, n}) \in {b, n}
            /\ Min({b, n}) <= b /\ Min({b, n}) <= n
        <5>1. n \in Int
          OBVIOUS
        <5> QED
          BY <5>1, LesserOfTwo
      <4> QED
        BY <3>4, <4>1
    <3>6. ASSUME NEW k \in 0..(n - 1) PROVE k \in a..(e - 1) <=> k \div piece = g
      <4>1. PICK p \in Nat, r \in 0..(piece - 1) : p = k \div piece /\ k = p * piece + r
        BY Blocks
      <4>2. ASSUME k \in a..(e - 1) PROVE p = g
        <5>1. k - a \in 0..(piece - 1) /\ k = g * piece + (k - a)
          BY <3>1, <3>5, <4>2
        <5>2. PICK y \in 0..(piece - 1) : y = k - a
          BY <5>1
        <5>3. (g * piece + y) \div piece = g
          BY PlaceIn
        <5>4. k = g * piece + y
          BY <5>1, <5>2
        <5> QED
          BY <4>1, <5>3, <5>4
      <4>3. ASSUME p = g PROVE k \in a..(e - 1)
        <5>1. k = a + r
          BY <3>1, <4>1, <4>3
        <5> QED
          BY <3>5, <5>1
      <4> QED
        BY <4>1, <4>2, <4>3
    <3>7. e >= a
      BY <2>1, <3>3, <3>5
    <3>8. a..(e - 1) \subseteq 0..(n - 1)
      BY <3>5
    <3>9. Min({(g + 1) * piece, n}) = e
      BY <3>2, <3>4, <3>5
    <3>10. a \in Nat /\ e - 1 \in Int /\ (e - 1) + 1 - a \in Nat
      BY <3>7
    <3>11. GroupMet(n, piece, g, a, e - 1)
      BY <3>6, <3>8, <3>10 DEF GroupMet
    <3> QED
      BY <3>1, <3>9, <3>11
  <2> QED
    BY <2>1, <2>2, <2>3, <2>5, <2>6
<1> QED
  BY <1>1, <1>2

\* The map of an ext4 volume, group by group
LEMMA Ext4Facts ==
    ASSUME NEW v, VolumeIsSound(v), ProbeVolume(v) = "ext4", NEW at \in Int
    PROVE  MapMet(Ext4Ranges(at, v), at, v)
<1>1. PICK n \in Nat, piece \in Nat \ {0} : n = v.count /\ piece = v.piece
  BY SoundVolume
<1> DEFINE groups == (n - 1) \div piece + 1
           low(g) == g * piece
           high(g) == Min({(g + 1) * piece, n}) - 1
           bit(g, k) == DescribedGroup(v, g) * piece + (k - low(g))
           Of(g) == {k \in low(g)..high(g) : ~Used(v, v.used, bit(g, k))}
           out(g) == g \in v.bad \/ ~HasBitmap(v, g)
           push(g) == IF out(g) THEN <<>> ELSE PlacedEntry(at, v, FreeRuns(Of(g), low(g), high(g)))
           turns == [i \in 1..groups |-> push(i - 1)]
           lost == 0..((n - 1) \div piece) \cap v.bad # {}
           list == Pushed(turns)
<1>2. Ext4Ranges(at, v) = Map(list, lost)
  BY <1>1 DEF Ext4Ranges
<1>3. /\ groups \in Nat /\ 0..((n - 1) \div piece) = 0..(groups - 1)
      /\ \A g \in 0..(groups - 1) : GroupMet(n, piece, g, low(g), high(g))
      /\ \A k \in 0..(n - 1) : k \div piece \in 0..(groups - 1)
  BY GroupFacts
<1>4. ASSUME NEW g \in Nat, NEW k \in Int, InPlace(v)
      PROVE  bit(g, k) = k /\ DescribedGroup(v, g) = g
  <2>1. DescribedGroup(v, g) = g
    BY <1>4 DEF InPlace, DescribedGroup
  <2>2. PICK b \in Int : b = g * piece
    OBVIOUS
  <2>3. b + (k - b) = k
    OBVIOUS
  <2> QED
    BY <2>1, <2>2, <2>3
<1>5. ASSUME NEW g \in 0..(groups - 1) PROVE Of(g) \subseteq UnownedClusters(v)
  <2>1. ASSUME NEW k \in Of(g) PROVE k \in UnownedClusters(v)
    <3>1. GroupMet(n, piece, g, low(g), high(g)) /\ k \in low(g)..high(g) /\ ~Used(v, v.used, bit(g, k))
      BY <1>3
    <3>2. k \in 0..(n - 1)
      BY <3>1 DEF GroupMet
    <3>3. CASE MapTells(v)
      <4>1. bit(g, k) = k
        <5>1. InPlace(v) /\ g \in Nat /\ k \in Int
          BY <1>3, <3>2, <3>3 DEF MapTells
        <5> HIDE DEF bit
        <5> QED
          BY <1>4, <5>1
      <4>2. k < Len(v.used) /\ ~v.used[k + 1]
        BY <3>1, <3>2, <4>1, SoundVolume DEF Used
      <4> QED
        BY <1>1, <3>2, <4>2, UnusedIsNoFiles DEF UnownedClusters
    <3>4. CASE ~MapTells(v)
      BY <1>1, <3>2, <3>4 DEF UnownedClusters, FileClusters
    <3> QED
      BY <3>3, <3>4
  <2> HIDE DEF Of
  <2> QED
    BY <2>1
<1>16. ASSUME MapFound(v), NEW g \in 0..(groups - 1), NEW k \in FreeClusters(v), k \div piece = g
       PROVE  HasBitmap(v, g) /\ k \in Of(g)
  <2>1. InPlace(v)
    BY <1>16 DEF MapFound
  <2>2. k \in 0..(n - 1) /\ k < Len(v.used) /\ ~v.used[k + 1] /\ g \notin v.empty
    BY <1>1, <1>16 DEF FreeClusters
  <2>3. bit(g, k) = k /\ DescribedGroup(v, g) = g
    <3>1. g \in Nat /\ k \in Int
      BY <1>3, <2>2
    <3> HIDE DEF bit
    <3> QED
      BY <1>4, <2>1, <3>1
  <2>4. HasBitmap(v, g)
    BY <2>1, <2>2, <2>3 DEF HasBitmap, InPlace
  <2>5. k \in low(g)..high(g)
    BY <1>3, <1>16, <2>2 DEF GroupMet
  <2>6. ~Used(v, v.used, k)
    BY <2>2, SoundVolume DEF Used
  <2> QED
    BY <2>3, <2>4, <2>5, <2>6
<1> HIDE DEF low, high, bit, out
<1>6. PICK top \in Nat : top = groups
  BY <1>3
<1>7. ASSUME NEW g \in 0..(top - 1)
      PROVE  /\ push(g) \in Seq(Extents)
             /\ out(g) => SectorsOf(push(g)) = {}
             /\ ~out(g) => SectorsOf(push(g)) = SectorsOfClusters(at, v, Of(g))
  <2>1. CASE out(g)
    <3>1. <<>> \in Seq(Extents) /\ SectorsOf(<<>>) = {}
      BY DEF SectorsOf, Range
    <3> QED
      BY <2>1, <3>1
  <2>2. CASE ~out(g)
    <3>1. PICK a, b : a = low(g) /\ b = high(g)
      OBVIOUS
    <3>2. GroupMet(n, piece, g, a, b)
      BY <1>3, <1>6, <3>1
    <3>3. a \in Nat /\ b \in Int /\ b + 1 - a \in Nat
      BY <3>2 DEF GroupMet
    <3>5. Of(g) \cap a..b = Of(g)
      BY <3>1
    <3> HIDE DEF Of
    <3> DEFINE runs == FreeRuns(Of(g), a, b)
    <3>4. runs \in Seq(Extents) /\ SectorsOf(runs) = Of(g) \cap a..b
      BY <3>3, RunFacts
    <3> HIDE DEF runs
    <3>6. /\ PlacedEntry(at, v, runs) \in Seq(Extents)
          /\ SectorsOf(PlacedEntry(at, v, runs)) = SectorsOfClusters(at, v, SectorsOf(runs))
      BY <3>4, PlacedFacts, SoundVolume
    <3>7. push(g) = PlacedEntry(at, v, runs)
      BY <2>2, <3>1 DEF runs
    <3> HIDE DEF push
    <3> QED
      BY <2>2, <3>4, <3>5, <3>6, <3>7
  <2> QED
    BY <2>1, <2>2
<1> HIDE DEF push, Of
<1>8. turns \in Seq(Seq(Extents)) /\ Len(turns) = top /\ \A i \in 1..top : turns[i] = push(i - 1)
  <2>1. turns = [i \in 1..top |-> push(i - 1)]
    BY <1>6
  <2> HIDE DEF turns
  <2>2. \A i \in 1..top : i - 1 \in 0..(top - 1)
    OBVIOUS
  <2>3. turns \in [1..top -> Seq(Extents)]
    BY <1>7, <2>1, <2>2
  <2> QED
    BY <2>1, <2>3
<1> HIDE DEF turns, groups
<1>9. list \in Seq(Extents) /\ Range(list) = UNION {Range(turns[i]) : i \in 1..top}
  BY <1>8, PushedFacts
<1> HIDE DEF list
<1>10. ASSUME NEW x
       PROVE  x \in SectorsOf(list) <=> \E g \in 0..(top - 1) : x \in SectorsOf(push(g))
  <2>1. x \in SectorsOf(list) <=> \E i \in 1..top : \E r \in Range(turns[i]) : x \in SectorsIn(r)
    BY <1>9, SectorsAre
  <2>2. ASSUME NEW i \in 1..top
        PROVE  (\E r \in Range(turns[i]) : x \in SectorsIn(r)) <=> x \in SectorsOf(push(i - 1))
    <3>1. turns[i] = push(i - 1) /\ turns[i] \in Seq(Extents)
      BY <1>8
    <3> QED
      BY <3>1, SectorsAre
  <2>3. ASSUME NEW g \in 0..(top - 1) PROVE \E i \in 1..top : g = i - 1
    <3>1. g + 1 \in 1..top /\ g = (g + 1) - 1
      OBVIOUS
    <3> QED
      BY <3>1
  <2>4. \A i \in 1..top : i - 1 \in 0..(top - 1)
    OBVIOUS
  <2> QED
    BY <2>1, <2>2, <2>3, <2>4
<1>11. \A C, x : x \in SectorsOfClusters(at, v, C) <=> \E k \in C : x \in SectorsOfCluster(at, v, k)
  BY DEF SectorsOfClusters
<1>12. SectorsOf(list) \subseteq SectorsOfClusters(at, v, UnownedClusters(v))
  <2>1. ASSUME NEW x \in SectorsOf(list) PROVE x \in SectorsOfClusters(at, v, UnownedClusters(v))
    <3>1. PICK g \in 0..(top - 1) : x \in SectorsOf(push(g))
      BY <1>10
    <3>2. x \in SectorsOfClusters(at, v, Of(g))
      BY <1>7, <3>1
    <3>3. Of(g) \subseteq UnownedClusters(v)
      BY <1>5, <1>6
    <3> QED
      BY <1>11, <3>2, <3>3
  <2> QED
    BY <2>1
<1>13. ASSUME MapFound(v), ~lost PROVE SectorsOfClusters(at, v, FreeClusters(v)) \subseteq SectorsOf(list)
  <2>1. ASSUME NEW x \in SectorsOfClusters(at, v, FreeClusters(v)) PROVE x \in SectorsOf(list)
    <3>1. PICK k \in FreeClusters(v) : x \in SectorsOfCluster(at, v, k)
      BY <1>11
    <3>2. PICK g \in 0..(top - 1) : g = k \div piece
      <4>1. k \in 0..(n - 1)
        BY <1>1, <3>1 DEF FreeClusters
      <4> QED
        BY <1>3, <1>6, <4>1
    <3>3. g \notin v.bad
      BY <1>3, <1>6, <1>13
    <3>4. HasBitmap(v, g) /\ k \in Of(g)
      BY <1>6, <1>13, <1>16, <3>1, <3>2
    <3>6. ~out(g)
      BY <3>3, <3>4 DEF out
    <3>5. x \in SectorsOf(push(g))
      BY <1>7, <1>11, <3>1, <3>4, <3>6
    <3> QED
      BY <1>10, <3>5
  <2> QED
    BY <2>1
<1> HIDE DEF lost
<1>14. Ext4Ranges(at, v).ranges = list /\ (Ext4Ranges(at, v).unread = lost)
  BY <1>2, MapFields, ZenonT(30)
<1>15. MapFound(v) /\ ~Ext4Ranges(at, v).unread =>
          SectorsOfClusters(at, v, FreeClusters(v)) \subseteq SectorsOf(list)
  BY <1>13, <1>14, Zenon
<1> QED
  BY <1>9, <1>12, <1>14, <1>15, Zenon DEF MapMet

\* What the property calls free, and what it calls a file's
LEMMA ReallyFreeIs ==
    ASSUME NEW at
    PROVE  LET v == drive.volumes[at]
           IN  /\ ReallyFree(at) = IF ProbeAt(at) \in Mapped /\ MapFound(v)
                                   THEN SectorsOfClusters(at, v, FreeClusters(v)) ELSE {}
               /\ Unowned(at) = IF ProbeAt(at) \in Mapped
                                THEN SectorsOfClusters(at, v, UnownedClusters(v)) ELSE {}
<1> DEFINE v == drive.volumes[at]
<1>1. ReallyFree(at) = IF ProbeAt(at) \in Mapped /\ MapFound(v)
                       THEN SectorsOfClusters(at, v, FreeClusters(v)) ELSE {}
  BY DEF ReallyFree, FreeClusters
<1>2. (IF MapTells(v) THEN 0..(v.count - 1) \ v.owned ELSE 0..(v.count - 1)) = UnownedClusters(v)
  BY DEF UnownedClusters, FileClusters
<1>3. Unowned(at) = IF ProbeAt(at) \in Mapped THEN SectorsOfClusters(at, v, UnownedClusters(v)) ELSE {}
  BY <1>2 DEF Unowned
<1> QED
  BY <1>1, <1>3

\* A map without ranges has no cluster of a file.
LEMMA NoMap ==
    ASSUME NEW m, m.ranges = <<>>, NEW part, ~(ProbeAt(part.first) \in Mapped /\ MapFound(drive.volumes[part.first]))
    PROVE  /\ m.ranges \in Seq(Extents)
           /\ SectorsOf(m.ranges) \subseteq Unowned(part.first)
           /\ ReallyFree(part.first) \subseteq SectorsOf(m.ranges)
<1>1. <<>> \in Seq(Extents) /\ SectorsOf(<<>>) = {}
  BY DEF SectorsOf, Range
<1>2. ReallyFree(part.first) = {}
  BY ReallyFreeIs
<1> QED
  BY <1>1, <1>2

\* The map of a partition has none of what files own in its volume, and all that is
\* free.
LEMMA PartFacts ==
    ASSUME DriveIsSound(drive), NEW part, part.first \in Int
    PROVE  LET m == buildUnallocatedRanges(part)
           IN  /\ m.ranges \in Seq(Extents)
               /\ SectorsOf(m.ranges) \subseteq Unowned(part.first)
               /\ ~m.unread => ReallyFree(part.first) \subseteq SectorsOf(m.ranges)
<1> DEFINE at == part.first
           v == drive.volumes[part.first]
           kind == ProbeAt(part.first)
           m == buildUnallocatedRanges(part)
<1>1. CASE kind \in Mapped /\ v.usable
  <2>1. at \in DOMAIN drive.volumes /\ ProbeVolume(v) = kind
    BY <1>1 DEF ProbeAt, Mapped
  <2>2. VolumeIsSound(v) /\ at \in Int
    BY <2>1 DEF DriveIsSound
  <2>3. MapMet(m, at, v)
    <3>0. kind \in {"ntfs", "fat", "exfat", "ext4"} /\ v.usable
      BY <1>1 DEF Mapped
    <3> HIDE DEF at, v, kind
    <3>1. CASE kind \in {"fat", "exfat"}
      <4>1. m = FatRanges(at, v)
        BY <3>0, <3>1 DEF buildUnallocatedRanges, at, v, kind
      <4> QED
        BY <2>1, <2>2, <3>1, <4>1, FatFacts
    <3>2. CASE kind = "ext4"
      <4>1. m = Ext4Ranges(at, v)
        BY <3>0, <3>2 DEF buildUnallocatedRanges, at, v, kind
      <4> QED
        BY <2>1, <2>2, <3>2, <4>1, Ext4Facts
    <3>3. CASE kind = "ntfs"
      <4>1. m = NtfsRanges(at, v)
        BY <3>0, <3>3 DEF buildUnallocatedRanges, at, v, kind
      <4> QED
        BY <2>1, <2>2, <3>3, <4>1, NtfsFacts
    <3> QED
      BY <3>0, <3>1, <3>2, <3>3
  <2>4. /\ ReallyFree(at) = IF MapFound(v) THEN SectorsOfClusters(at, v, FreeClusters(v)) ELSE {}
        /\ Unowned(at) = SectorsOfClusters(at, v, UnownedClusters(v))
    BY <1>1, ReallyFreeIs
  <2> HIDE DEF m, v
  <2>5. ASSUME ~m.unread PROVE ReallyFree(at) \subseteq SectorsOf(m.ranges)
    <3>1. CASE MapFound(v)
      BY <2>3, <2>4, <2>5, <3>1 DEF MapMet
    <3>2. CASE ~MapFound(v)
      BY <2>4, <3>2
    <3> QED
      BY <3>1, <3>2
  <2> QED
    BY <2>3, <2>4, <2>5 DEF MapMet, m
<1>2. CASE ~(kind \in Mapped /\ v.usable)
  <2>1. m = Map(<<>>, FALSE)
    BY <1>2 DEF buildUnallocatedRanges, Mapped
  <2>2. m.ranges = <<>>
    BY <2>1, MapFields
  <2>3. ~(kind \in Mapped /\ MapFound(v))
    BY <1>2 DEF MapFound
  <2> HIDE DEF m
  <2> QED
    BY <2>2, <2>3, NoMap DEF m
<1> QED
  BY <1>1, <1>2

----------------------------------------------------------------------------
(* The tables                                                              *)

\* The fields of a table
LEMMA TableFields == ASSUME NEW p, NEW u PROVE Table(p, u).parts = p /\ (Table(p, u).unread = u)
  BY DEF Table

\* A member of a list is of the set the list is over.
LEMMA MemberOf == ASSUME NEW T, NEW s \in Seq(T), NEW k \in 1..Len(s) PROVE s[k] \in T
  OBVIOUS

\* A loop that pushes a range or nothing in a turn
LEMMA LoopFacts ==
    ASSUME NEW n \in Nat, NEW turns, turns = [k \in 1..n |-> turns[k]],
           \A k \in 1..n : turns[k] = <<>> \/ \E p \in Extents : turns[k] = <<p>>
    PROVE  /\ Pushed(turns) \in Seq(Extents)
           /\ \A k \in 1..n, p \in Extents : turns[k] = <<p>> => p \in Range(Pushed(turns))
<1>1. ASSUME NEW k \in 1..n PROVE turns[k] \in Seq(Extents)
  <2>1. CASE turns[k] = <<>>
    BY <2>1
  <2>2. CASE \E p \in Extents : turns[k] = <<p>>
    <3>1. PICK p \in Extents : turns[k] = <<p>>
      BY <2>2
    <3>2. <<p>> \in Seq(Extents)
      OBVIOUS
    <3> QED
      BY <3>1, <3>2
  <2> QED
    BY <2>1, <2>2
<1>2. turns \in Seq(Seq(Extents)) /\ Len(turns) = n
  <2>1. turns \in [1..n -> Seq(Extents)]
    BY <1>1
  <2> QED
    BY <2>1
<1>3. /\ Pushed(turns) \in Seq(Extents)
      /\ Range(Pushed(turns)) = UNION {Range(turns[k]) : k \in 1..n}
  BY <1>2, PushedFacts
<1>4. ASSUME NEW p PROVE p \in Range(<<p>>)
  BY DEF Range
<1> QED
  BY <1>3, <1>4

GptFound == drive.gpt.primary = "ok" \/ (drive.sectors >= 2 /\ drive.gpt.backup = "ok")

\* The GUID table gives a range for each entry that reads.
LEMMA GptFacts ==
    ASSUME DriveIsSound(drive)
    PROVE  /\ parseGPT.parts \in Seq(Extents)
           /\ drive.gpt.primary = "ok" =>
                \A k \in DOMAIN drive.gpt.entries : ~drive.gpt.entries[k].empty =>
                  \/ \E p \in Range(parseGPT.parts) : p.first = drive.gpt.entries[k].first
                  \/ /\ k \notin GptReadable(drive.gpt)
                     /\ parseGPT.unread
<1> DEFINE gpt == drive.gpt
           asked == gpt.primary = "bad" \/ (gpt.primary # "ok" /\ drive.sectors >= 2 /\ gpt.backup = "bad")
           entry(k) == gpt.entries[k]
           consume(k) == IF k \in GptReadable(gpt) /\ ~gpt.entries[k].empty
                         THEN <<Part(gpt.entries[k].first, gpt.entries[k].last - gpt.entries[k].first + 1)>>
                         ELSE <<>>
           turns == [k \in 1..Len(gpt.entries) |-> consume(k)]
           lost == asked \/ GptReadable(gpt) # DOMAIN gpt.entries
<1>1. parseGPT = IF ~GptFound THEN Table(<<>>, asked) ELSE Table(Pushed(turns), lost)
  BY DEF parseGPT, GptFound
<1>2. gpt.entries \in Seq([empty : BOOLEAN, first : Nat, last : Nat])
      /\ \A k \in DOMAIN gpt.entries : gpt.entries[k].first <= gpt.entries[k].last + 1
  BY DEF DriveIsSound
<1>3. PICK n \in Nat : n = Len(gpt.entries) /\ DOMAIN gpt.entries = 1..n
  BY <1>2
<1>4. ASSUME NEW k \in 1..n
      PROVE  Part(gpt.entries[k].first, gpt.entries[k].last - gpt.entries[k].first + 1) \in Extents
  <2>1. gpt.entries[k] \in [empty : BOOLEAN, first : Nat, last : Nat]
    BY <1>2, <1>3, MemberOf
  <2>2. gpt.entries[k].first \in Nat /\ gpt.entries[k].last \in Nat
    BY <2>1
  <2>3. gpt.entries[k].first <= gpt.entries[k].last + 1
    BY <1>2, <1>3
  <2>4. PICK f \in Nat, l \in Nat : f = gpt.entries[k].first /\ l = gpt.entries[k].last
    BY <2>2
  <2>5. Part(f, l - f + 1) \in Extents
    BY <2>3, <2>4 DEF Part, Extents
  <2> QED
    BY <2>4, <2>5
<1>5. ASSUME NEW k \in 1..n PROVE consume(k) = <<>> \/ \E p \in Extents : consume(k) = <<p>>
  BY <1>4
<1>6. turns = [k \in 1..n |-> turns[k]] /\ \A k \in 1..n : turns[k] = consume(k)
  BY <1>3
<1> HIDE DEF turns
<1>7. /\ Pushed(turns) \in Seq(Extents)
      /\ \A k \in 1..n, p \in Extents : turns[k] = <<p>> => p \in Range(Pushed(turns))
  BY <1>5, <1>6, LoopFacts
<1>8. parseGPT.parts \in Seq(Extents)
  <2>1. CASE GptFound
    BY <1>1, <1>7, <2>1, TableFields
  <2>2. CASE ~GptFound
    <3>1. parseGPT.parts = <<>>
      BY <1>1, <2>2, TableFields
    <3> QED
      BY <3>1
  <2> QED
    BY <2>1, <2>2
<1>9. ASSUME gpt.primary = "ok", NEW k \in 1..n, ~gpt.entries[k].empty
      PROVE  \/ \E p \in Range(parseGPT.parts) : p.first = gpt.entries[k].first
             \/ k \notin GptReadable(gpt) /\ parseGPT.unread
  <2>1. parseGPT = Table(Pushed(turns), lost)
    BY <1>1, <1>9 DEF GptFound
  <2>2. CASE k \in GptReadable(gpt)
    <3>1. PICK p \in Extents : p = Part(gpt.entries[k].first, gpt.entries[k].last - gpt.entries[k].first + 1)
      BY <1>4
    <3>2. turns[k] = <<p>>
      BY <1>6, <1>9, <2>2, <3>1
    <3>3. p \in Range(Pushed(turns)) /\ p.first = gpt.entries[k].first
      BY <1>7, <3>1, <3>2 DEF Part
    <3>4. parseGPT.parts = Pushed(turns)
      BY <2>1, TableFields
    <3> QED
      BY <3>3, <3>4
  <2>3. CASE k \notin GptReadable(gpt)
    <3>1. lost
      BY <1>3, <2>3
    <3> HIDE DEF lost
    <3>2. parseGPT.unread
      BY <2>1, <3>1, TableFields, Zenon
    <3> QED
      BY <2>3, <3>2
  <2> QED
    BY <2>2, <2>3
<1> QED
  BY <1>3, <1>8, <1>9

\* The MBR gives ranges of sectors.
LEMMA MbrFacts == ASSUME DriveIsSound(drive) PROVE parseMBR.parts \in Seq(Extents)
<1> DEFINE entries == drive.mbr.entries
           push(k) == IF entries[k].id # 0 THEN <<Part(entries[k].first, entries[k].count)>> ELSE <<>>
           turns == [k \in 1..Len(entries) |-> push(k)]
<1>1. parseMBR = IF drive.mbr.read = "bad" THEN Table(<<>>, TRUE)
                 ELSE IF ~drive.mbr.signed THEN Table(<<>>, FALSE) ELSE Table(Pushed(turns), FALSE)
  BY DEF parseMBR
<1>2. entries \in Seq([id : Nat, first : Nat, count : Nat])
  BY DEF DriveIsSound
<1>3. PICK n \in Nat : n = Len(entries)
  BY <1>2
<1>4. ASSUME NEW k \in 1..n PROVE push(k) = <<>> \/ \E p \in Extents : push(k) = <<p>>
  <2>1. entries[k] \in [id : Nat, first : Nat, count : Nat]
    BY <1>2, <1>3, MemberOf
  <2>2. Part(entries[k].first, entries[k].count) \in Extents
    BY <2>1 DEF Part, Extents
  <2> QED
    BY <2>2
<1>5. turns = [k \in 1..n |-> turns[k]] /\ \A k \in 1..n : turns[k] = push(k)
  BY <1>3
<1> HIDE DEF turns, push
<1>6. Pushed(turns) \in Seq(Extents)
  BY <1>4, <1>5, LoopFacts
<1>7. parseMBR.parts \in {<<>>, Pushed(turns)}
  BY <1>1, TableFields
<1>8. <<>> \in Seq(Extents)
  OBVIOUS
<1> QED
  BY <1>6, <1>7, <1>8

\* The Apple partition map gives ranges of sectors.
LEMMA ApmFacts == ASSUME DriveIsSound(drive) PROVE parseAPM.parts \in Seq(Extents)
<1> DEFINE entries == drive.apm.entries
           good == {k \in DOMAIN entries : \A j \in 1..k : entries[j].reads}
           push(k) == IF k \in good /\ ~entries[k].skip /\ entries[k].first > 0 /\ entries[k].count > 0
                      THEN <<Part(entries[k].first, entries[k].count)>> ELSE <<>>
           turns == [k \in 1..Len(entries) |-> push(k)]
<1>1. parseAPM = IF drive.mbr.read = "bad" THEN Table(<<>>, TRUE)
                 ELSE Table(Pushed(turns), good # DOMAIN entries)
  BY DEF parseAPM
<1>2. entries \in Seq([reads : BOOLEAN, skip : BOOLEAN, first : Nat, count : Nat])
  BY DEF DriveIsSound
<1>3. PICK n \in Nat : n = Len(entries)
  BY <1>2
<1>4. ASSUME NEW k \in 1..n PROVE push(k) = <<>> \/ \E p \in Extents : push(k) = <<p>>
  <2>1. entries[k] \in [reads : BOOLEAN, skip : BOOLEAN, first : Nat, count : Nat]
    BY <1>2, <1>3, MemberOf
  <2>2. Part(entries[k].first, entries[k].count) \in Extents
    BY <2>1 DEF Part, Extents
  <2> QED
    BY <2>2
<1>5. turns = [k \in 1..n |-> turns[k]] /\ \A k \in 1..n : turns[k] = push(k)
  BY <1>3
<1> HIDE DEF turns, push
<1>6. Pushed(turns) \in Seq(Extents)
  BY <1>4, <1>5, LoopFacts
<1>7. parseAPM.parts \in {<<>>, Pushed(turns)}
  BY <1>1, TableFields
<1>8. <<>> \in Seq(Extents)
  OBVIOUS
<1> QED
  BY <1>6, <1>7, <1>8

\* The entry that does not read: why, and that the tables say so
LEMMA TableFacts ==
    ASSUME DriveIsSound(drive)
    PROVE  /\ parseTables.parts \in Seq(Extents)
           /\ drive.gpt.primary = "ok" =>
                \A k \in DOMAIN drive.gpt.entries : ~drive.gpt.entries[k].empty =>
                  \/ \E p \in Range(parseTables.parts) : p.first = drive.gpt.entries[k].first
                  \/ /\ parseTables.unread
                     /\ drive.gpt.per = 0 \/ (k - 1) \div drive.gpt.per \in drive.gpt.bad
<1>1. /\ parseGPT.parts \in Seq(Extents) /\ parseMBR.parts \in Seq(Extents)
      /\ parseAPM.parts \in Seq(Extents)
  BY GptFacts, MbrFacts, ApmFacts
<1>2. CASE parseGPT.parts # <<>>
  <2>1. parseTables = parseGPT
    BY <1>2 DEF parseTables
  <2> QED
    BY <1>1, <2>1, GptFacts DEF GptReadable
<1>3. CASE parseGPT.parts = <<>>
  <2>1. \/ parseTables = Table(parseMBR.parts, parseGPT.unread \/ parseMBR.unread)
        \/ parseTables = Table(parseAPM.parts, parseGPT.unread \/ parseMBR.unread \/ parseAPM.unread)
    BY <1>3 DEF parseTables
  <2>2. parseTables.parts \in {parseMBR.parts, parseAPM.parts}
    BY <2>1, TableFields
  <2>3. parseGPT.unread => parseTables.unread
    BY <2>1, TableFields, Zenon
  <2>4. Range(parseGPT.parts) = {}
    BY <1>3 DEF Range
  <2>5. ASSUME drive.gpt.primary = "ok", NEW k \in DOMAIN drive.gpt.entries, ~drive.gpt.entries[k].empty
        PROVE  k \notin GptReadable(drive.gpt) /\ parseGPT.unread
    BY <2>4, <2>5, GptFacts
  <2> QED
    BY <1>1, <2>2, <2>3, <2>5 DEF GptReadable
<1> QED
  BY <1>2, <1>3

----------------------------------------------------------------------------
(* The recognisers                                                         *)

\* The first mark of the order is the one with none before it.
LEMMA FirstOfIs ==
    ASSUME NEW n \in Nat, NEW order, DOMAIN order = 1..n, NEW marks
    PROVE  \/ FirstOf(order, marks) = "none" /\ \A i \in 1..n : order[i] \notin marks
           \/ \E i \in 1..n : /\ order[i] \in marks /\ FirstOf(order, marks) = order[i]
                              /\ \A j \in 1..(i - 1) : order[j] \notin marks
<1> DEFINE hits == {i \in DOMAIN order : order[i] \in marks}
<1>1. FirstOf(order, marks) = IF hits = {} THEN "none" ELSE order[Min(hits)]
  BY DEF FirstOf
<1>2. hits = {i \in 1..n : order[i] \in marks}
  OBVIOUS
<1> HIDE DEF hits
<1>3. CASE hits = {}
  BY <1>1, <1>2, <1>3
<1>4. CASE hits # {}
  <2>1. hits \subseteq Nat
    BY <1>2
  <2>2. \E i \in hits : \A j \in hits : i =< j
    BY <1>4, <2>1, LeastNatural
  <2> DEFINE i == CHOOSE i \in hits : \A j \in hits : i =< j
  <2>3. i \in hits /\ \A j \in hits : i =< j
    BY <2>2
  <2>4. Min(hits) = i
    BY DEF Min
  <2> HIDE DEF i
  <2>5. i \in 1..n /\ order[i] \in marks /\ FirstOf(order, marks) = order[i]
    BY <1>1, <1>2, <1>4, <2>3, <2>4
  <2>6. ASSUME NEW j \in 1..(i - 1) PROVE order[j] \notin marks
    <3>1. j \in 1..n /\ ~(i =< j)
      BY <2>5
    <3> QED
      BY <1>2, <2>3, <3>1
  <2> QED
    BY <2>5, <2>6
<1> QED
  BY <1>3, <1>4

\* What the probe takes a boot sector for, told by its marks
LEMMA BootIs ==
    ASSUME NEW marks
    PROVE  LET b == FirstOf(BootMarks, marks)
           IN  /\ b = "none" => {"spaces", "ntfs", "exfat", "fat"} \cap marks = {}
               /\ b # "none" => b \in {"luks", "spaces", "refs", "ntfs", "exfat", "fat", "apfs", "xfs"}
               /\ b = "spaces" => "spaces" \in marks
               /\ b = "ntfs" => "ntfs" \in marks
               /\ b = "exfat" => "exfat" \in marks /\ "ntfs" \notin marks
               /\ b = "fat" => "fat" \in marks /\ "ntfs" \notin marks /\ "exfat" \notin marks
<1> DEFINE o == BootMarks
<1>1. /\ DOMAIN o = 1..8 /\ o[1] = "luks" /\ o[2] = "spaces" /\ o[3] = "refs" /\ o[4] = "ntfs"
      /\ o[5] = "exfat" /\ o[6] = "fat" /\ o[7] = "apfs" /\ o[8] = "xfs"
  BY DEF BootMarks
<1> HIDE DEF o
<1>2. PICK b : b = FirstOf(o, marks)
  OBVIOUS
<1>3. \/ b = "none" /\ \A i \in 1..8 : o[i] \notin marks
      \/ \E i \in 1..8 : o[i] \in marks /\ b = o[i] /\ \A j \in 1..(i - 1) : o[j] \notin marks
  <2>1. 8 \in Nat /\ DOMAIN o = 1..8
    BY <1>1
  <2>2. \/ FirstOf(o, marks) = "none" /\ \A i \in 1..8 : o[i] \notin marks
        \/ \E i \in 1..8 : /\ o[i] \in marks /\ FirstOf(o, marks) = o[i]
                            /\ \A j \in 1..(i - 1) : o[j] \notin marks
    BY <2>1, FirstOfIs
  <2> QED
    BY <1>2, <2>2
<1>4. CASE b = "none" /\ \A i \in 1..8 : o[i] \notin marks
  <2>1. {"spaces", "ntfs", "exfat", "fat"} \cap marks = {}
    <3>1. o[2] \notin marks /\ o[4] \notin marks /\ o[5] \notin marks /\ o[6] \notin marks
      BY <1>4
    <3> QED
      BY <1>1, <3>1
  <2> QED
    BY <1>2, <1>4, <2>1 DEF o
<1>5. ASSUME NEW i \in 1..8, o[i] \in marks, b = o[i], \A j \in 1..(i - 1) : o[j] \notin marks
      PROVE  /\ b \in {"luks", "spaces", "refs", "ntfs", "exfat", "fat", "apfs", "xfs"}
             /\ b = "spaces" => "spaces" \in marks
             /\ b = "ntfs" => "ntfs" \in marks
             /\ b = "exfat" => "exfat" \in marks /\ "ntfs" \notin marks
             /\ b = "fat" => "fat" \in marks /\ "ntfs" \notin marks /\ "exfat" \notin marks
  <2>1. i = 1 \/ i = 2 \/ i = 3 \/ i = 4 \/ i = 5 \/ i = 6 \/ i = 7 \/ i = 8
    OBVIOUS
  <2>2. i > 4 => "ntfs" \notin marks
    BY <1>1, <1>5
  <2>3. i > 5 => "exfat" \notin marks
    BY <1>1, <1>5
  <2> QED
    BY <1>1, <1>5, <2>1, <2>2, <2>3
<1>6. b \in {"luks", "spaces", "refs", "ntfs", "exfat", "fat", "apfs", "xfs"} => b # "none"
  OBVIOUS
<1> QED
  BY <1>2, <1>3, <1>4, <1>5, <1>6 DEF o

\* What the probe finds behind the boot sector
LEMMA LateIs ==
    ASSUME NEW marks
    PROVE  LET l == FirstOf(LateMarks, marks)
           IN  /\ l = "ext4" <=> "ext4" \in marks
               /\ l \in {"none", "ext4", "lvm", "iso", "udf"}
<1> DEFINE o == LateMarks
<1>1. DOMAIN o = 1..4 /\ o[1] = "ext4" /\ o[2] = "lvm" /\ o[3] = "iso" /\ o[4] = "udf"
  BY DEF LateMarks
<1> HIDE DEF o
<1>2. PICK b : b = FirstOf(o, marks)
  OBVIOUS
<1>3. \/ b = "none" /\ \A i \in 1..4 : o[i] \notin marks
      \/ \E i \in 1..4 : o[i] \in marks /\ b = o[i] /\ \A j \in 1..(i - 1) : o[j] \notin marks
  BY <1>1, <1>2, FirstOfIs
<1>4. CASE b = "none" /\ \A i \in 1..4 : o[i] \notin marks
  BY <1>1, <1>2, <1>4 DEF o
<1>5. ASSUME NEW i \in 1..4, o[i] \in marks, b = o[i], \A j \in 1..(i - 1) : o[j] \notin marks
      PROVE  (b = "ext4" <=> "ext4" \in marks) /\ b \in {"none", "ext4", "lvm", "iso", "udf"}
  <2>1. i = 1 \/ i = 2 \/ i = 3 \/ i = 4
    OBVIOUS
  <2>2. i > 1 => "ext4" \notin marks
    BY <1>1, <1>5
  <2> QED
    BY <1>1, <1>5, <2>1, <2>2
<1> QED
  BY <1>2, <1>3, <1>4, <1>5 DEF o

\* The marks scanForPartitions looks for, in its order
FinderOrder == <<"ntfs", "exfat", "fat", "spaces">>

\* What the search takes a sector for, told by its marks
LEMMA SeenIs ==
    ASSUME NEW marks
    PROVE  LET seen == FirstOf(FinderOrder, marks)
           IN  /\ seen = "none" <=> {"ntfs", "exfat", "fat", "spaces"} \cap marks = {}
               /\ seen \in {"none", "ntfs", "exfat", "fat", "spaces"}
               /\ "ntfs" \in marks => seen = "ntfs"
               /\ "exfat" \in marks /\ "ntfs" \notin marks => seen = "exfat"
               /\ "fat" \in marks /\ "ntfs" \notin marks /\ "exfat" \notin marks => seen = "fat"
               /\ "spaces" \in marks /\ {"ntfs", "exfat", "fat"} \cap marks = {} => seen = "spaces"
<1> DEFINE o == FinderOrder
<1>1. DOMAIN o = 1..4 /\ o[1] = "ntfs" /\ o[2] = "exfat" /\ o[3] = "fat" /\ o[4] = "spaces"
  BY DEF FinderOrder
<1> HIDE DEF o
<1>2. PICK b : b = FirstOf(o, marks)
  OBVIOUS
<1>3. \/ b = "none" /\ \A i \in 1..4 : o[i] \notin marks
      \/ \E i \in 1..4 : o[i] \in marks /\ b = o[i] /\ \A j \in 1..(i - 1) : o[j] \notin marks
  BY <1>1, <1>2, FirstOfIs
<1> DEFINE Met == /\ b = "none" <=> {"ntfs", "exfat", "fat", "spaces"} \cap marks = {}
                  /\ b \in {"none", "ntfs", "exfat", "fat", "spaces"}
                  /\ "ntfs" \in marks => b = "ntfs"
                  /\ "exfat" \in marks /\ "ntfs" \notin marks => b = "exfat"
                  /\ "fat" \in marks /\ "ntfs" \notin marks /\ "exfat" \notin marks => b = "fat"
                  /\ "spaces" \in marks /\ {"ntfs", "exfat", "fat"} \cap marks = {} => b = "spaces"
<1>4. ASSUME b = "none", \A i \in 1..4 : o[i] \notin marks PROVE Met
  <2>1. o[1] \notin marks /\ o[2] \notin marks /\ o[3] \notin marks /\ o[4] \notin marks
    BY <1>4
  <2>2. "ntfs" \notin marks /\ "exfat" \notin marks /\ "fat" \notin marks /\ "spaces" \notin marks
    BY <1>1, <2>1
  <2>3. {"ntfs", "exfat", "fat", "spaces"} \cap marks = {}
    BY <2>2
  <2> QED
    BY <1>4, <2>2, <2>3
<1>5. ASSUME NEW i \in 1..4, o[i] \in marks, b = o[i], \A j \in 1..(i - 1) : o[j] \notin marks
      PROVE  Met
  <2>1. i = 1 \/ i = 2 \/ i = 3 \/ i = 4
    OBVIOUS
  <2>2. i > 1 => "ntfs" \notin marks
    BY <1>1, <1>5
  <2>3. i > 2 => "exfat" \notin marks
    BY <1>1, <1>5
  <2>4. i > 3 => "fat" \notin marks
    BY <1>1, <1>5
  <2> QED
    BY <1>1, <1>5, <2>1, <2>2, <2>3, <2>4
<1> QED
  BY <1>2, <1>3, <1>4, <1>5 DEF o

\* What the search for lost partitions makes of a volume, and where it says that
\* it could not read
Spotted(v) ==
    LET seen == FirstOf(FinderOrder, v.marks)
    IN  IF v.reads = 0 THEN "none" ELSE IF seen # "none" THEN seen
        ELSE IF v.reads = 3 /\ "ext4" \in v.marks THEN "ext4" ELSE "none"
Unreadable(v) == v.reads = 0 \/ (FirstOf(FinderOrder, v.marks) = "none" /\ v.reads < 3)
FinderKinds == {"ntfs", "exfat", "fat", "spaces", "ext4"}

\* Of a sound volume the search makes what the probe makes, and what the probe
\* cannot read the search reports.
LEMMA KindsAgree ==
    ASSUME NEW v, VolumeIsSound(v)
    PROVE  /\ ProbeVolume(v) \in FinderKinds => Spotted(v) = ProbeVolume(v)
           /\ Spotted(v) # "none" => Spotted(v) \in FinderKinds
           /\ ProbeVolume(v) = "unread" => Unreadable(v)
<1> DEFINE b == FirstOf(BootMarks, v.marks)
           l == FirstOf(LateMarks, v.marks)
           seen == FirstOf(FinderOrder, v.marks)
           kind == ProbeVolume(v)
<1>1. v.reads \in 0..3 /\ ("spaces" \in v.marks => v.marks \cap {"ntfs", "exfat", "fat"} = {})
  BY DEF VolumeIsSound
<1>2. PICK n \in 0..3 : n = v.reads
  BY <1>1
<1>3. /\ b = "none" => {"spaces", "ntfs", "exfat", "fat"} \cap v.marks = {}
      /\ b # "none" => b \in {"luks", "spaces", "refs", "ntfs", "exfat", "fat", "apfs", "xfs"}
      /\ b = "spaces" => "spaces" \in v.marks
      /\ b = "ntfs" => "ntfs" \in v.marks
      /\ b = "exfat" => "exfat" \in v.marks /\ "ntfs" \notin v.marks
      /\ b = "fat" => "fat" \in v.marks /\ "ntfs" \notin v.marks /\ "exfat" \notin v.marks
  BY BootIs
<1>4. (l = "ext4" <=> "ext4" \in v.marks) /\ l \in {"none", "ext4", "lvm", "iso", "udf"}
  BY LateIs
<1>5. /\ seen = "none" <=> {"ntfs", "exfat", "fat", "spaces"} \cap v.marks = {}
      /\ seen \in {"none", "ntfs", "exfat", "fat", "spaces"}
      /\ "ntfs" \in v.marks => seen = "ntfs"
      /\ "exfat" \in v.marks /\ "ntfs" \notin v.marks => seen = "exfat"
      /\ "fat" \in v.marks /\ "ntfs" \notin v.marks /\ "exfat" \notin v.marks => seen = "fat"
      /\ "spaces" \in v.marks /\ {"ntfs", "exfat", "fat"} \cap v.marks = {} => seen = "spaces"
  BY SeenIs
<1>6. /\ n = 0 => kind = "unread"
      /\ n > 0 /\ b # "none" => kind = b
      /\ n = 1 /\ b = "none" => kind = "unread"
      /\ n > 1 /\ b = "none" /\ "hfs" \in v.marks => kind = "hfs"
      /\ n = 2 /\ b = "none" /\ "hfs" \notin v.marks => kind = "unread"
      /\ n = 3 /\ b = "none" /\ "hfs" \notin v.marks => kind = IF l = "none" THEN "unknown" ELSE l
  BY <1>2 DEF ProbeVolume
<1>7. Spotted(v) = IF n = 0 THEN "none" ELSE IF seen # "none" THEN seen
                   ELSE IF n = 3 /\ "ext4" \in v.marks THEN "ext4" ELSE "none"
  BY <1>2 DEF Spotted
<1>8. Unreadable(v) <=> n = 0 \/ (seen = "none" /\ n < 3)
  BY <1>2 DEF Unreadable
<1> HIDE DEF b, l, seen, kind
<1>9. b = "none" => seen = "none"
  BY <1>3, <1>5
<1>10. n = 0 \/ n = 1 \/ n = 2 \/ n = 3
  BY <1>2
<1>11. kind \in FinderKinds => Spotted(v) = kind
  <2>1. CASE n = 0
    BY <1>6, <2>1 DEF FinderKinds
  <2>2. CASE n > 0 /\ b # "none"
    <3>1. kind = b
      BY <1>6, <2>2
    <3>2. b = "spaces" => seen = "spaces"
      BY <1>1, <1>3, <1>5
    <3>3. b \in {"ntfs", "exfat", "fat"} => seen = b
      BY <1>3, <1>5
    <3> QED
      BY <1>3, <1>7, <2>2, <3>1, <3>2, <3>3 DEF FinderKinds
  <2>3. CASE n > 0 /\ b = "none"
    BY <1>4, <1>6, <1>7, <1>9, <1>10, <2>3 DEF FinderKinds
  <2> QED
    BY <1>2, <2>1, <2>2, <2>3
<1>12. Spotted(v) # "none" => Spotted(v) \in FinderKinds
  BY <1>5, <1>7 DEF FinderKinds
<1>13. kind = "unread" => Unreadable(v)
  <2>1. CASE n > 0 /\ b # "none"
    BY <1>3, <1>6, <2>1
  <2>2. CASE b = "none" /\ n = 3
    BY <1>4, <1>6, <2>2
  <2>3. CASE b = "none" /\ n < 3
    BY <1>8, <1>9, <2>3
  <2>4. CASE n = 0
    BY <1>8, <2>4
  <2> QED
    BY <1>10, <2>1, <2>2, <2>3, <2>4
<1> QED
  BY <1>11, <1>12, <1>13 DEF kind

----------------------------------------------------------------------------
(* The survey and the search as a whole                                    *)

\* What the volumes of the first partitions leave free, and what no file of theirs owns
Sized(parts, n) == {j \in 1..n : parts[j].count > 0}
FreeOf(parts, n) == UNION {ReallyFree(parts[i].first) : i \in Sized(parts, n)}
UnownedOf(parts, n) == UNION {Unowned(parts[i].first) : i \in Sized(parts, n)}

SurveyFields ==
    survey = [pc |-> survey.pc, parts |-> survey.parts, at |-> survey.at, out |-> survey.out,
              tableUnread |-> survey.tableUnread, mapUnread |-> survey.mapUnread,
              fallback |-> survey.fallback]

\* The ranges got so far have no sector that a file of the partitions seen so far
\* owns, and their free ones.
Collected ==
    /\ survey.at \in 1..(Len(survey.parts) + 1) /\ survey.out \in Seq(Extents)
    /\ SectorsOf(survey.out) \subseteq UnownedOf(survey.parts, survey.at - 1)
    /\ ~survey.mapUnread => FreeOf(survey.parts, survey.at - 1) \subseteq SectorsOf(survey.out)

SurveyInv ==
    /\ drive \in Drives /\ SurveyFields /\ survey.pc \in {"idle", "volumes", "done"}
    /\ survey.pc = "idle" => survey.at = 1 /\ survey.out = <<>>
    /\ survey.pc # "idle" => survey.parts \in Seq(Extents)
    /\ survey.pc = "volumes" => Collected
    /\ GptKeepsTheRest /\ MapIsExact

\* Volumes the search has come past
Searched(upto) == {s \in DOMAIN drive.volumes : s < upto /\ s % Step = 0}

FinderInv ==
    /\ finder = [sector |-> finder.sector, found |-> finder.found, unread |-> finder.unread]
    /\ finder.sector \in Nat /\ finder.sector % Step = 0
    /\ finder.found \in Seq(Nat \X FinderKinds)
    /\ \A f \in Range(finder.found) :
          \E s \in Searched(finder.sector) : f = <<s, Spotted(drive.volumes[s])>>
    /\ \A s \in Searched(finder.sector) :
          /\ Spotted(drive.volumes[s]) # "none" =>
                <<s, Spotted(drive.volumes[s])>> \in Range(finder.found)
          /\ Unreadable(drive.volumes[s]) => finder.unread

SpaceInv == SurveyInv /\ FinderInv

----------------------------------------------------------------------------
(* Helpers                                                                 *)

\* A list that gets one more member
LEMMA RangeOfAppend ==
    ASSUME NEW T, NEW s \in Seq(T), NEW x \in T
    PROVE  Append(s, x) \in Seq(T) /\ Range(Append(s, x)) = Range(s) \cup {x}
<1>1. <<x>> \in Seq(T) /\ Append(s, x) = s \o <<x>>
  OBVIOUS
<1>2. Range(<<x>>) = {x}
  BY DEF Range
<1>3. s \o <<x>> \in Seq(T) /\ Range(s \o <<x>>) = Range(s) \cup Range(<<x>>)
  BY <1>1, MembersOfBoth
<1> QED
  BY <1>1, <1>2, <1>3

\* The partitions as a whole have their own sectors.
LEMMA WholeFacts ==
    ASSUME NEW parts \in Seq(Extents)
    PROVE  WholeParts(parts) \in Seq(Extents) /\ SectorsOf(WholeParts(parts)) = SectorsOf(parts)
<1>1. PICK n \in Nat : n = Len(parts)
  OBVIOUS
<1> DEFINE one(k) == IF parts[k].count > 0 THEN <<parts[k]>> ELSE <<>>
           turns == [k \in 1..n |-> one(k)]
           whole == Pushed(turns)
<1>2. WholeParts(parts) = whole
  BY <1>1 DEF WholeParts
<1>3. ASSUME NEW k \in 1..n PROVE parts[k] \in Extents
  BY <1>1, <1>3, MemberOf
<1>4. ASSUME NEW k \in 1..n PROVE one(k) \in Seq(Extents)
  <2>1. <<parts[k]>> \in Seq(Extents)
    BY <1>3
  <2> QED
    BY <2>1
<1>5. turns \in Seq(Seq(Extents)) /\ Len(turns) = n /\ \A k \in 1..n : turns[k] = one(k)
  <2>1. turns \in [1..n -> Seq(Extents)]
    BY <1>4
  <2> QED
    BY <2>1
<1> HIDE DEF turns
<1>6. whole \in Seq(Extents) /\ Range(whole) = UNION {Range(turns[k]) : k \in 1..n}
  BY <1>5, PushedFacts
<1> HIDE DEF whole
<1>7. ASSUME NEW k \in 1..n PROVE parts[k].count > 0 => parts[k] \in Range(turns[k])
  BY <1>5 DEF Range
<1>8. ASSUME NEW k \in 1..n, NEW r \in Range(turns[k]) PROVE r = parts[k]
  <2>1. turns[k] = <<parts[k]>> \/ turns[k] = <<>>
    BY <1>5
  <2> QED
    BY <1>8, <2>1 DEF Range
<1> HIDE DEF one
<1>9. /\ SectorsOf(whole) = UNION {SectorsIn(r) : r \in Range(whole)}
      /\ SectorsOf(parts) = UNION {SectorsIn(r) : r \in Range(parts)}
  BY <1>6, SectorsAre
<1>10. ASSUME NEW r \in Range(whole) PROVE r \in Range(parts)
  <2>1. PICK k \in 1..n : r \in Range(turns[k])
    BY <1>6, <1>10
  <2>2. r = parts[k]
    BY <1>8, <2>1
  <2> QED
    BY <1>1, <2>2 DEF Range
<1>11. ASSUME NEW r \in Range(parts), NEW x \in SectorsIn(r) PROVE r \in Range(whole)
  <2>1. PICK k \in 1..n : r = parts[k]
    BY <1>1, <1>11 DEF Range
  <2>2. r.first \in Int /\ r.count \in Nat
    BY <1>3, <2>1 DEF Extents
  <2>3. r.count > 0
    BY <1>11, <2>2 DEF SectorsIn
  <2>4. r \in Range(turns[k])
    BY <1>7, <2>1, <2>3
  <2> QED
    BY <1>6, <2>4
<1>12. SectorsOf(whole) = SectorsOf(parts)
  BY <1>9, <1>10, <1>11
<1> QED
  BY <1>2, <1>6, <1>12

\* The multiples of the step
LEMMA NextMultiple ==
    ASSUME NEW at \in Nat, at % Step = 0
    PROVE  /\ (at + Step) % Step = 0 /\ at + Step \in Nat
           /\ \A s \in Nat : s % Step = 0 => (s < at + Step <=> s < at \/ s = at)
<1>1. PICK n \in Nat \ {0} : n = Step
  BY SpaceAssumption
<1>2. PICK q \in Nat : at = q * n
  <2>1. at \div n \in Nat /\ at = (at \div n) * n + (at % n)
    BY Blocks
  <2>2. at % n = 0
    BY <1>1
  <2>3. at = (at \div n) * n
    <3>1. PICK p \in Nat : p = at \div n
      BY <2>1
    <3>2. at = p * n + 0
      BY <2>1, <2>2, <3>1
    <3> QED
      BY <3>1, <3>2
  <2> QED
    BY <2>1, <2>3
<1>3. (q + 1) * n = at + n
  BY <1>2
<1>4. (at + n) % n = 0
  <2>1. 0 \in 0..(n - 1) /\ q + 1 \in Nat
    OBVIOUS
  <2>2. ((q + 1) * n + 0) % n = 0
    BY <2>1, PlaceIn
  <2>3. (q + 1) * n + 0 = at + n
    BY <1>3
  <2> QED
    BY <2>2, <2>3
<1>5. ASSUME NEW s \in Nat, s % n = 0, s < at + n PROVE s < at \/ s = at
  <2>1. s \div n \in Nat /\ s = (s \div n) * n + (s % n) /\ \A m \in Nat : s < m * n => s \div n < m
    BY Blocks
  <2>2. PICK p \in Nat : p = s \div n
    BY <2>1
  <2>3. s = p * n
    BY <1>5, <2>1, <2>2
  <2>4. q + 1 \in Nat /\ s < (q + 1) * n
    BY <1>3, <1>5
  <2>5. p < q + 1
    BY <2>1, <2>2, <2>4
  <2>6. PICK d \in Nat : q = p + d
    <3>1. q - p \in Nat /\ q = p + (q - p)
      BY <2>5
    <3> QED
      BY <3>1
  <2>7. q * n = p * n + d * n /\ d * n \in Nat /\ p * n \in Nat
    BY <2>6
  <2>8. PICK e \in Nat : e = d * n
    BY <2>7
  <2>9. at = s + e
    BY <1>2, <2>3, <2>7, <2>8
  <2> QED
    BY <2>9
<1>6. ASSUME NEW s \in Nat, s % n = 0 PROVE s < at + n <=> s < at \/ s = at
  <2>1. s < at + n => s < at \/ s = at
    BY <1>5, <1>6, Zenon
  <2>2. s < at \/ s = at => s < at + n
    OBVIOUS
  <2> QED
    BY <2>1, <2>2
<1>7. (at + Step) % Step = 0 /\ at + Step \in Nat
  BY <1>1, <1>4
<1>8. ASSUME NEW s \in Nat, s % Step = 0 PROVE s < at + Step <=> s < at \/ s = at
  BY <1>1, <1>6, <1>8
<1> QED
  BY <1>7, <1>8

\* What a partition has free stays while its disk does.
LEMMA FreeStays ==
    ASSUME drive' = drive
    PROVE  \A at : ReallyFree(at)' = ReallyFree(at) /\ Unowned(at)' = Unowned(at)
BY DEF ReallyFree, Unowned, ProbeAt

LEMMA FreeOfStays ==
    ASSUME drive' = drive, NEW parts, NEW n
    PROVE  FreeOf(parts, n)' = FreeOf(parts, n) /\ UnownedOf(parts, n)' = UnownedOf(parts, n)
BY FreeStays DEF FreeOf, UnownedOf, Sized

\* The search does not notice the steps of the survey,
LEMMA FinderStays == ASSUME FinderInv, drive' = drive, finder' = finder PROVE FinderInv'
BY DEF FinderInv, Searched

\* nor does the table once it was read,
LEMMA GptStays ==
    ASSUME GptKeepsTheRest, drive' = drive, survey.pc # "idle", survey'.parts = survey.parts,
           survey'.tableUnread = survey.tableUnread
    PROVE  GptKeepsTheRest'
BY DEF GptKeepsTheRest

\* nor the survey the steps of the search.
LEMMA SurveyStays == ASSUME SurveyInv, drive' = drive, survey' = survey PROVE SurveyInv'
<1>1. Collected => Collected'
  <2>1. PICK parts, n : parts = survey.parts /\ n = survey.at - 1
    OBVIOUS
  <2>2. FreeOf(parts, n)' = FreeOf(parts, n) /\ UnownedOf(parts, n)' = UnownedOf(parts, n)
    BY FreeOfStays
  <2> QED
    BY <2>1, <2>2 DEF Collected
<1>2. MapIsExact'
  BY FreeStays DEF SurveyInv, MapIsExact
<1>3. GptKeepsTheRest'
  BY DEF SurveyInv, GptKeepsTheRest
<1> QED
  BY <1>1, <1>2, <1>3 DEF SurveyInv, SurveyFields

----------------------------------------------------------------------------
(* The invariant                                                           *)

\* The invariant holds before the survey begins.
LEMMA SurveyStarts == ASSUME SpaceInit PROVE SpaceInv
<1>1. SurveyInv
  BY DEF SpaceInit, SurveyInv, SurveyFields, GptKeepsTheRest, MapIsExact
<1>2. finder = [sector |-> 0, found |-> <<>>, unread |-> FALSE]
  BY DEF SpaceInit
<1>3. DriveIsSound(drive)
  BY SpaceAssumption DEF SpaceInit
<1>4. Searched(0) = {} /\ Range(<<>>) = {}
  BY <1>3 DEF Searched, DriveIsSound, Range
<1>5. 0 % Step = 0
  <2>1. PICK n \in Nat \ {0} : n = Step
    BY SpaceAssumption
  <2>2. 0 \in Nat /\ 0 \in 0..(n - 1) /\ 0 * n + 0 = 0
    OBVIOUS
  <2>3. (0 * n + 0) % n = 0
    BY <2>2, PlaceIn
  <2> QED
    BY <2>1, <2>2, <2>3
<1>6. FinderInv
  BY <1>2, <1>4, <1>5 DEF FinderInv
<1> QED
  BY <1>1, <1>6 DEF SpaceInv

\* The partitions are those of the tables, the one asked for or the whole disk.
LEMMA FoundKeeps == ASSUME SurveyInv, FindPartitions PROVE SurveyInv'
<1>1. /\ survey.pc = "idle" /\ survey.at = 1 /\ survey.out = <<>> /\ drive \in Drives
      /\ drive' = drive /\ DriveIsSound(drive)
  BY SpaceAssumption DEF FindPartitions, SurveyInv
<1>2. PICK p, t, m, f : survey = [pc |-> "idle", parts |-> p, at |-> 1, out |-> <<>>,
                                  tableUnread |-> t, mapUnread |-> m, fallback |-> f]
  BY <1>1 DEF SurveyInv, SurveyFields
<1>3. PICK target \in Targets :
         survey' = IF target.count > 0
                   THEN [survey EXCEPT !.pc = "volumes", !.parts = <<target>>]
                   ELSE [survey EXCEPT !.pc = "volumes", !.tableUnread = parseTables.unread,
                            !.parts = IF parseTables.parts = <<>> THEN <<Part(0, drive.sectors)>>
                                      ELSE parseTables.parts]
  BY DEF FindPartitions
<1>4. target \in [first : Nat, count : Nat] /\ drive.sectors \in Nat
  BY <1>1, SpaceAssumption DEF DriveIsSound
<1>5. /\ parseTables.parts \in Seq(Extents)
      /\ drive.gpt.primary = "ok" =>
           \A k \in DOMAIN drive.gpt.entries : ~drive.gpt.entries[k].empty =>
             \/ \E q \in Range(parseTables.parts) : q.first = drive.gpt.entries[k].first
             \/ /\ parseTables.unread
                /\ drive.gpt.per = 0 \/ (k - 1) \div drive.gpt.per \in drive.gpt.bad
  BY <1>1, TableFacts
<1>6. ASSUME NEW q \in Seq(Extents), NEW u,
             survey' = [pc |-> "volumes", parts |-> q, at |-> 1, out |-> <<>>,
                        tableUnread |-> u, mapUnread |-> m, fallback |-> f],
             GptKeepsTheRest'
      PROVE  SurveyInv'
  <2>1. /\ survey'.pc = "volumes" /\ survey'.parts = q /\ survey'.at = 1 /\ survey'.out = <<>>
        /\ SurveyFields'
    BY <1>6 DEF SurveyFields
  <2>2. SectorsOf(<<>>) = {}
    BY DEF SectorsOf, Range
  <2>3. FreeOf(survey.parts, survey.at - 1)' = {}
    BY <2>1 DEF FreeOf, Sized
  <2>4. Collected'
    <3>1. <<>> \in Seq(Extents) /\ 1 \in 1..(Len(q) + 1)
      OBVIOUS
    <3> QED
      BY <2>1, <2>2, <2>3, <3>1 DEF Collected
  <2> QED
    BY <1>1, <1>6, <2>1, <2>4 DEF SurveyInv, MapIsExact
<1>7. CASE target.count > 0
  <2>1. survey' = [survey EXCEPT !.pc = "volumes", !.parts = <<target>>]
    BY <1>3, <1>7
  <2>2. survey' = [pc |-> "volumes", parts |-> <<target>>, at |-> 1, out |-> <<>>,
                   tableUnread |-> t, mapUnread |-> m, fallback |-> f]
    BY <1>2, <2>1
  <2>3. target \in Extents
    BY <1>4 DEF Extents
  <2>4. <<target>> \in Seq(Extents) /\ target \in Range(<<target>>)
    BY <2>3 DEF Range
  <2>5. GptKeepsTheRest'
    <3>1. survey'.parts = <<target>>
      BY <2>2
    <3> QED
      BY <2>4, <3>1 DEF GptKeepsTheRest
  <2> QED
    BY <1>6, <2>2, <2>4, <2>5
<1>8. CASE ~(target.count > 0)
  <2>1. PICK u : u = parseTables.unread
    OBVIOUS
  <2>2. PICK q : q = IF parseTables.parts = <<>> THEN <<Part(0, drive.sectors)>> ELSE parseTables.parts
    OBVIOUS
  <2>3. survey' = [survey EXCEPT !.pc = "volumes", !.tableUnread = u, !.parts = q]
    BY <1>3, <1>8, <2>1, <2>2
  <2>4. survey' = [pc |-> "volumes", parts |-> q, at |-> 1, out |-> <<>>,
                   tableUnread |-> u, mapUnread |-> m, fallback |-> f]
    BY <1>2, <2>3
  <2>5. q \in Seq(Extents)
    <3>1. Part(0, drive.sectors) \in Extents
      BY <1>4 DEF Part, Extents
    <3>2. <<Part(0, drive.sectors)>> \in Seq(Extents)
      BY <3>1
    <3> QED
      BY <1>5, <2>2, <3>2
  <2>6. GptKeepsTheRest'
    <3>1. survey'.parts = q /\ (survey'.tableUnread = u)
      BY <2>4
    <3>2. \A r : r \in Range(parseTables.parts) => r \in Range(q)
      BY <2>2 DEF Range
    <3>3. parseTables.unread => survey'.tableUnread
      BY <2>1, <3>1, Zenon
    <3> QED
      BY <1>1, <1>5, <3>1, <3>2, <3>3 DEF GptKeepsTheRest
  <2> QED
    BY <1>6, <2>4, <2>5, <2>6
<1> QED
  BY <1>7, <1>8

\* What one more partition adds to the free sectors
LEMMA FreeGrows ==
    ASSUME NEW parts, NEW n \in Nat \ {0}
    PROVE  /\ FreeOf(parts, n) = FreeOf(parts, n - 1)
                                 \cup (IF parts[n].count > 0 THEN ReallyFree(parts[n].first) ELSE {})
           /\ UnownedOf(parts, n) = UnownedOf(parts, n - 1)
                                    \cup (IF parts[n].count > 0 THEN Unowned(parts[n].first) ELSE {})
<1>1. Sized(parts, n) = Sized(parts, n - 1) \cup (IF parts[n].count > 0 THEN {n} ELSE {})
  <2>1. 1..n = 1..(n - 1) \cup {n}
    OBVIOUS
  <2> QED
    BY <2>1 DEF Sized
<1>2. FreeOf(parts, n) = FreeOf(parts, n - 1)
                         \cup (IF parts[n].count > 0 THEN ReallyFree(parts[n].first) ELSE {})
  BY <1>1 DEF FreeOf
<1>3. UnownedOf(parts, n) = UnownedOf(parts, n - 1)
                            \cup (IF parts[n].count > 0 THEN Unowned(parts[n].first) ELSE {})
  BY <1>1 DEF UnownedOf
<1> QED
  BY <1>2, <1>3

\* The sectors of two lists of ranges behind each other
LEMMA SectorsOfBoth ==
    ASSUME NEW s \in Seq(Extents), NEW t \in Seq(Extents)
    PROVE  s \o t \in Seq(Extents) /\ SectorsOf(s \o t) = SectorsOf(s) \cup SectorsOf(t)
<1>1. s \o t \in Seq(Extents) /\ Range(s \o t) = Range(s) \cup Range(t)
  BY MembersOfBoth
<1>2. PICK u : u = s \o t
  OBVIOUS
<1>3. /\ SectorsOf(u) = UNION {SectorsIn(r) : r \in Range(u)}
      /\ SectorsOf(s) = UNION {SectorsIn(r) : r \in Range(s)}
      /\ SectorsOf(t) = UNION {SectorsIn(r) : r \in Range(t)}
  BY <1>1, <1>2, SectorsAre
<1>4. SectorsOf(u) = SectorsOf(s) \cup SectorsOf(t)
  BY <1>1, <1>2, <1>3
<1> QED
  BY <1>1, <1>2, <1>4

\* The map of one more volume keeps what was collected true.
LEMMA MapKeeps == ASSUME SurveyInv, MapVolume PROVE SurveyInv'
<1>1. /\ survey.pc = "volumes" /\ survey.at <= Len(survey.parts) /\ Collected
      /\ drive \in Drives /\ drive' = drive /\ DriveIsSound(drive)
      /\ survey.parts \in Seq(Extents)
  BY SpaceAssumption DEF MapVolume, SurveyInv
<1>2. PICK p, a, o, t, m, f :
         survey = [pc |-> "volumes", parts |-> p, at |-> a, out |-> o,
                   tableUnread |-> t, mapUnread |-> m, fallback |-> f]
  BY <1>1 DEF SurveyInv, SurveyFields
<1>3. /\ survey.parts = p /\ survey.at = a /\ survey.out = o /\ (survey.mapUnread = m)
      /\ (survey.tableUnread = t)
  BY <1>2
<1>4. /\ p \in Seq(Extents) /\ a \in 1..Len(p) /\ o \in Seq(Extents)
      /\ SectorsOf(o) \subseteq UnownedOf(p, a - 1)
  BY <1>1, <1>3 DEF Collected
<1>5. ~m => FreeOf(p, a - 1) \subseteq SectorsOf(o)
  <2>1. ~survey.mapUnread => FreeOf(p, a - 1) \subseteq SectorsOf(o)
    BY <1>1, <1>3 DEF Collected
  <2> QED
    BY <1>3, <2>1, Zenon
<1> DEFINE part == p[a]
           map == IF part.count = 0 THEN Map(<<>>, FALSE) ELSE buildUnallocatedRanges(part)
           gained == IF part.count > 0 THEN ReallyFree(part.first) ELSE {}
           spared == IF part.count > 0 THEN Unowned(part.first) ELSE {}
<1>6. PICK ranges, u : ranges = map.ranges /\ (u = map.unread)
  OBVIOUS
<1>7. part.first \in Int /\ part.count \in Nat
  <2>1. part \in Extents
    BY <1>4, MemberOf
  <2> QED
    BY <2>1 DEF Extents
<1>8. /\ map.ranges \in Seq(Extents) /\ SectorsOf(map.ranges) \subseteq spared
      /\ ~map.unread => gained \subseteq SectorsOf(map.ranges)
  <2>1. CASE part.count = 0
    <3>1. map.ranges = <<>>
      BY <2>1, MapFields
    <3>2. SectorsOf(<<>>) = {} /\ <<>> \in Seq(Extents)
      BY DEF SectorsOf, Range
    <3>3. gained = {}
      BY <2>1
    <3> HIDE DEF map, gained, spared
    <3> QED
      BY <3>1, <3>2, <3>3
  <2>2. CASE part.count # 0
    <3>1. /\ map = buildUnallocatedRanges(part)
          /\ gained = ReallyFree(part.first) /\ spared = Unowned(part.first)
      BY <1>7, <2>2
    <3>2. LET z == buildUnallocatedRanges(part)
          IN  /\ z.ranges \in Seq(Extents)
              /\ SectorsOf(z.ranges) \subseteq Unowned(part.first)
              /\ ~z.unread => ReallyFree(part.first) \subseteq SectorsOf(z.ranges)
      BY <1>1, <1>7, PartFacts
    <3> QED
      BY <3>1, <3>2, Zenon
  <2> QED
    BY <2>1, <2>2
<1>9. ~u => gained \subseteq SectorsOf(ranges)
  BY <1>6, <1>8, Zenon
<1>10. ranges \in Seq(Extents) /\ SectorsOf(ranges) \subseteq spared
  BY <1>6, <1>8
<1> DEFINE b == m \/ u
<1>11. survey' = [survey EXCEPT !.at = a + 1, !.out = o \o ranges, !.mapUnread = b]
  <2>1. survey' = [survey EXCEPT !.at = @ + 1, !.out = @ \o map.ranges, !.mapUnread = @ \/ map.unread]
    BY <1>3 DEF MapVolume
  <2> HIDE DEF map
  <2>2. (survey.mapUnread \/ map.unread) = b
    BY <1>3, <1>6, Zenon
  <2> HIDE DEF b
  <2>3. survey' = [survey EXCEPT !.at = survey.at + 1, !.out = survey.out \o map.ranges,
                                 !.mapUnread = (survey.mapUnread \/ map.unread)]
    BY <2>1
  <2> QED
    BY <1>3, <1>6, <2>2, <2>3, Zenon
<1> DEFINE next == o \o ranges
<1>12. PICK c : c = b
  OBVIOUS
<1> HIDE DEF b, map, next, gained, spared
<1>13. survey' = [pc |-> "volumes", parts |-> p, at |-> a + 1, out |-> next,
                  tableUnread |-> t, mapUnread |-> c, fallback |-> f]
  BY <1>2, <1>11, <1>12 DEF next
<1>14. /\ survey'.pc = "volumes" /\ survey'.parts = p /\ survey'.at = a + 1 /\ survey'.out = next
       /\ (survey'.mapUnread = c) /\ (survey'.tableUnread = t) /\ SurveyFields'
  BY <1>13 DEF SurveyFields
<1>15. next \in Seq(Extents) /\ SectorsOf(next) = SectorsOf(o) \cup SectorsOf(ranges)
  BY <1>4, <1>10, SectorsOfBoth DEF next
<1>16. /\ FreeOf(p, a) = FreeOf(p, a - 1) \cup gained
       /\ UnownedOf(p, a) = UnownedOf(p, a - 1) \cup spared
  BY <1>4, FreeGrows DEF gained, spared
<1>17. /\ FreeOf(survey.parts, survey.at - 1)' = FreeOf(p, a)
       /\ UnownedOf(survey.parts, survey.at - 1)' = UnownedOf(p, a)
  <2>1. survey'.at - 1 = a
    BY <1>4, <1>14
  <2> QED
    BY <1>1, <1>14, <2>1, FreeStays DEF FreeOf, UnownedOf, Sized
<1>18. ~survey'.mapUnread => ~m /\ ~u
  BY <1>12, <1>14, Zenon DEF b
<1>19. Collected'
  <2>1. a + 1 \in 1..(Len(p) + 1)
    BY <1>4
  <2>2. SectorsOf(next) \subseteq UnownedOf(p, a)
    BY <1>4, <1>10, <1>15, <1>16
  <2>3. ~survey'.mapUnread => FreeOf(p, a) \subseteq SectorsOf(next)
    BY <1>5, <1>9, <1>15, <1>16, <1>18
  <2>4. /\ survey'.at \in 1..(Len(survey'.parts) + 1) /\ survey'.out \in Seq(Extents)
        /\ SectorsOf(survey'.out) \subseteq UnownedOf(survey.parts, survey.at - 1)'
        /\ ~survey'.mapUnread => FreeOf(survey.parts, survey.at - 1)' \subseteq SectorsOf(survey'.out)
    BY <1>14, <1>15, <1>17, <2>1, <2>2, <2>3, Zenon
  <2> QED
    BY <2>4 DEF Collected
<1>20. GptKeepsTheRest'
  <2>1. survey'.parts = survey.parts /\ (survey'.tableUnread = survey.tableUnread)
    BY <1>3, <1>14
  <2> QED
    BY <1>1, <2>1, GptStays DEF SurveyInv
<1> QED
  BY <1>1, <1>4, <1>14, <1>19, <1>20 DEF SurveyInv, MapIsExact

\* What all partitions leave free
LEMMA FreeOfAll ==
    ASSUME NEW parts \in Seq(Extents)
    PROVE  LET sized == {q \in Range(parts) : q.count > 0}
           IN  /\ FreeOf(parts, Len(parts)) = UNION {ReallyFree(p.first) : p \in sized}
               /\ UnownedOf(parts, Len(parts)) = UNION {Unowned(p.first) : p \in sized}
<1>1. PICK n \in Nat : n = Len(parts)
  OBVIOUS
<1>2. DOMAIN parts = 1..n
  BY <1>1
<1> DEFINE sized == {q \in Range(parts) : q.count > 0}
<1>3. \A i \in Sized(parts, n) : parts[i] \in sized
  BY <1>2 DEF Range, Sized
<1>4. \A q \in sized : \E i \in Sized(parts, n) : q = parts[i]
  BY <1>2 DEF Range, Sized
<1> HIDE DEF sized
<1>5. FreeOf(parts, n) = UNION {ReallyFree(p.first) : p \in sized}
  BY <1>3, <1>4 DEF FreeOf
<1>6. UnownedOf(parts, n) = UNION {Unowned(p.first) : p \in sized}
  BY <1>3, <1>4 DEF UnownedOf
<1> QED
  BY <1>1, <1>5, <1>6 DEF sized

\* The merged map is exact: its ranges are apart and their sectors the collected ones.
LEMMA MergeKeeps == ASSUME SurveyInv, MergeRanges PROVE SurveyInv'
<1>1. /\ survey.pc = "volumes" /\ survey.at > Len(survey.parts) /\ Collected
      /\ drive \in Drives /\ drive' = drive /\ survey.parts \in Seq(Extents)
  BY DEF MergeRanges, SurveyInv
<1>2. PICK p, a, o, t, m, f :
         survey = [pc |-> "volumes", parts |-> p, at |-> a, out |-> o,
                   tableUnread |-> t, mapUnread |-> m, fallback |-> f]
  BY <1>1 DEF SurveyInv, SurveyFields
<1>3. /\ survey.parts = p /\ survey.at = a /\ survey.out = o /\ (survey.mapUnread = m)
      /\ (survey.tableUnread = t)
  BY <1>2
<1>4. PICK n \in Nat : n = Len(p)
  BY <1>1, <1>3
<1>5. p \in Seq(Extents) /\ a - 1 = n /\ o \in Seq(Extents) /\ SectorsOf(o) \subseteq UnownedOf(p, n)
  <2>1. p \in Seq(Extents) /\ a \in 1..(n + 1) /\ a > n
    BY <1>1, <1>3, <1>4 DEF Collected
  <2>2. a - 1 = n
    BY <2>1
  <2> QED
    BY <1>1, <1>3, <2>1, <2>2 DEF Collected
<1>6. ~m => FreeOf(p, n) \subseteq SectorsOf(o)
  <2>1. ~survey.mapUnread => FreeOf(p, n) \subseteq SectorsOf(o)
    BY <1>1, <1>3, <1>5 DEF Collected
  <2> QED
    BY <1>3, <2>1, Zenon
<1> DEFINE list == IF o = <<>> THEN WholeParts(p) ELSE o
           merged == mergeSectorRanges(list)
<1>7. list \in Seq(Extents) /\ SectorsOf(list) = IF o = <<>> THEN SectorsOf(p) ELSE SectorsOf(o)
  BY <1>5, WholeFacts
<1>8. PICK b : b = (o = <<>>)
  OBVIOUS
<1>9. survey' = [survey EXCEPT !.pc = "done", !.fallback = b, !.out = merged]
  <2>1. survey' = [survey EXCEPT !.pc = "done", !.fallback = survey.out = <<>>,
                     !.out = mergeSectorRanges(IF @ = <<>> THEN WholeParts(survey.parts) ELSE @)]
    BY DEF MergeRanges
  <2>2. (survey.out = <<>>) = b
    BY <1>3, <1>8, Zenon
  <2> QED
    BY <1>3, <2>1, <2>2
<1> HIDE DEF list
<1>10. merged \in Seq(Extents) /\ SetApart(merged) /\ SectorsOf(merged) = SectorsOf(list)
  BY <1>7, MergeFacts
<1> HIDE DEF merged
<1>11. survey' = [pc |-> "done", parts |-> p, at |-> a, out |-> merged,
                  tableUnread |-> t, mapUnread |-> m, fallback |-> b]
  BY <1>2, <1>9
<1>12. /\ survey'.pc = "done" /\ survey'.parts = p /\ survey'.out = merged
       /\ (survey'.mapUnread = m) /\ (survey'.tableUnread = t) /\ (survey'.fallback = b) /\ SurveyFields'
  BY <1>11 DEF SurveyFields
<1> DEFINE sized == {q \in Range(p) : q.count > 0}
           free == UNION {ReallyFree(r.first) : r \in sized}
           spared == UNION {Unowned(r.first) : r \in sized}
<1>13. FreeOf(p, n) = free /\ UnownedOf(p, n) = spared
  BY <1>4, <1>5, FreeOfAll
<1>14. LET sizedNow == {q \in Range(survey'.parts) : q.count > 0}
       IN  /\ UNION {ReallyFree(r.first)' : r \in sizedNow} = free
           /\ UNION {Unowned(r.first)' : r \in sizedNow} = spared
  BY <1>1, <1>12, FreeStays
<1> HIDE DEF free, spared
<1>15. b <=> o = <<>>
  BY <1>8, Zenon
<1>16. /\ ~b => SectorsOf(merged) \subseteq spared
       /\ ~b /\ ~m => free \subseteq SectorsOf(merged)
       /\ b => SectorsOf(merged) = SectorsOf(p)
  BY <1>5, <1>6, <1>7, <1>10, <1>13, <1>15
<1>17. MapIsExact'
  <2>1. /\ ~survey'.fallback => SectorsOf(survey'.out) \subseteq spared
        /\ ~survey'.fallback /\ ~survey'.mapUnread => free \subseteq SectorsOf(survey'.out)
        /\ survey'.fallback => SectorsOf(survey'.out) = SectorsOf(survey'.parts)
    BY <1>12, <1>16, Zenon
  <2>2. \A i \in 2..Len(survey'.out) :
           survey'.out[i - 1].first + survey'.out[i - 1].count < survey'.out[i].first
    BY <1>10, <1>12 DEF SetApart
  <2> QED
    BY <1>14, <2>1, <2>2 DEF MapIsExact
<1>18. GptKeepsTheRest'
  <2>1. survey'.parts = survey.parts /\ (survey'.tableUnread = survey.tableUnread)
    BY <1>3, <1>12
  <2> QED
    BY <1>1, <2>1, GptStays DEF SurveyInv
<1> QED
  BY <1>1, <1>5, <1>12, <1>17, <1>18 DEF SurveyInv

\* A turn of the search adds what the volume of its sector is spotted as.
LEMMA SearchKeeps == ASSUME SurveyInv, FinderInv, FindNext PROVE FinderInv'
<1>1. /\ drive' = drive /\ DriveIsSound(drive)
      /\ \A s \in DOMAIN drive.volumes : s \in Nat /\ VolumeIsSound(drive.volumes[s])
  <2>1. drive' = drive /\ DriveIsSound(drive)
    BY SpaceAssumption DEF FindNext, SurveyInv
  <2>2. DOMAIN drive.volumes \subseteq 0..(drive.sectors - 1) /\ drive.sectors \in Nat
    BY <2>1 DEF DriveIsSound
  <2> QED
    BY <2>1, <2>2 DEF DriveIsSound
<1>2. PICK s, d, u : finder = [sector |-> s, found |-> d, unread |-> u]
  BY DEF FinderInv
<1>3. finder.sector = s /\ finder.found = d /\ (finder.unread = u)
  BY <1>2
<1>4. PICK vols : vols = drive.volumes
  OBVIOUS
<1> DEFINE T == Nat \X FinderKinds
           v == vols[s]
           seen == FirstOf(FinderOrder, v.marks)
<1>5. /\ s \in Nat /\ s % Step = 0 /\ d \in Seq(T)
      /\ \A f \in Range(d) : \E i \in Searched(s) : f = <<i, Spotted(vols[i])>>
      /\ \A i \in Searched(s) : Spotted(vols[i]) # "none" => <<i, Spotted(vols[i])>> \in Range(d)
  BY <1>3, <1>4 DEF FinderInv
<1>6. \A i \in Searched(s) : Unreadable(vols[i]) => u
  <2>1. \A i \in Searched(s) : Unreadable(vols[i]) => finder.unread
    BY <1>3, <1>4 DEF FinderInv
  <2> QED
    BY <1>3, <2>1, Zenon
<1>7. PICK at : at = s + Step
  OBVIOUS
<1>8. /\ at \in Nat /\ at % Step = 0
      /\ \A i \in Nat : i % Step = 0 => (i < at <=> i < s \/ i = s)
  BY <1>5, <1>7, NextMultiple
<1>9. Searched(at) = Searched(s) \cup (IF s \in DOMAIN vols THEN {s} ELSE {})
  <2>1. ASSUME NEW i PROVE i \in Searched(at) <=> i \in Searched(s) \/ (i \in DOMAIN vols /\ i = s)
    <3>1. i \in DOMAIN drive.volumes => i \in Nat
      BY <1>1
    <3> QED
      BY <1>4, <1>5, <1>8, <3>1 DEF Searched
  <2> QED
    BY <2>1
\* What is left to show: the turn adds what it has to.
<1>10. ASSUME NEW e, NEW w, finder' = [sector |-> at, found |-> e, unread |-> w],
              e \in Seq(T), u => w,
              s \notin DOMAIN vols => Range(e) = Range(d),
              s \in DOMAIN vols => /\ Range(e) = Range(d) \cup (IF Spotted(v) # "none" THEN {<<s, Spotted(v)>>} ELSE {})
                                   /\ Unreadable(v) => w
       PROVE  FinderInv'
  <2>1. /\ finder'.sector = at /\ finder'.found = e /\ (finder'.unread = w)
        /\ finder' = [sector |-> finder'.sector, found |-> finder'.found, unread |-> finder'.unread]
    BY <1>10
  <2>2. \A i : Searched(i)' = Searched(i)
    BY <1>1 DEF Searched
  <2>3. ASSUME NEW f \in Range(e) PROVE \E i \in Searched(at) : f = <<i, Spotted(vols[i])>>
    <3>1. CASE f \in Range(d)
      BY <1>5, <1>9, <3>1
    <3>2. CASE f \notin Range(d)
      <4>1. s \in DOMAIN vols /\ f = <<s, Spotted(v)>>
        BY <1>10, <2>3, <3>2
      <4> QED
        BY <1>9, <4>1
    <3> QED
      BY <3>1, <3>2
  <2>4. ASSUME NEW i \in Searched(at), Spotted(vols[i]) # "none" PROVE <<i, Spotted(vols[i])>> \in Range(e)
    <3>1. CASE i \in Searched(s)
      <4>1. <<i, Spotted(vols[i])>> \in Range(d)
        BY <1>5, <2>4, <3>1
      <4> QED
        BY <1>10, <4>1
    <3>2. CASE i \notin Searched(s)
      <4>1. s \in DOMAIN vols /\ i = s
        BY <1>9, <3>2
      <4> QED
        BY <1>10, <2>4, <4>1
    <3> QED
      BY <3>1, <3>2
  <2>5. ASSUME NEW i \in Searched(at), Unreadable(vols[i]) PROVE w
    <3>1. CASE i \in Searched(s)
      BY <1>6, <1>10, <2>5, <3>1, Zenon
    <3>2. CASE i \notin Searched(s)
      <4>1. s \in DOMAIN vols /\ i = s
        BY <1>9, <3>2
      <4> QED
        BY <1>10, <2>5, <4>1, Zenon
    <3> QED
      BY <3>1, <3>2
  <2>6. drive'.volumes = vols /\ Searched(finder.sector)' = Searched(at)
    BY <1>1, <1>4, <2>1 DEF Searched
  <2>7. \A i \in Searched(at) : Unreadable(vols[i]) => finder'.unread
    BY <2>1, <2>5, Zenon
  <2> QED
    BY <1>8, <1>10, <2>1, <2>3, <2>4, <2>6, <2>7 DEF FinderInv
<1>11. finder' = CASE s \notin DOMAIN vols -> [finder EXCEPT !.sector = @ + Step]
                   [] s \in DOMAIN vols /\ v.reads = 0 ->
                        [finder EXCEPT !.sector = @ + Step, !.unread = TRUE]
                   [] s \in DOMAIN vols /\ v.reads > 0 /\ seen # "none" ->
                        [finder EXCEPT !.sector = @ + Step, !.found = Append(@, <<s, seen>>)]
                   [] OTHER ->
                        [finder EXCEPT !.sector = @ + Step, !.unread = @ \/ v.reads < 3,
                            !.found = IF v.reads = 3 /\ "ext4" \in v.marks THEN Append(@, <<s, "ext4">>) ELSE @]
  BY <1>3, <1>4 DEF FindNext, FinderOrder
<1>12. CASE s \notin DOMAIN vols
  <2>1. finder' = [finder EXCEPT !.sector = @ + Step]
    BY <1>11, <1>12
  <2>2. finder' = [sector |-> at, found |-> d, unread |-> u]
    BY <1>2, <1>7, <2>1
  <2> QED
    BY <1>5, <1>10, <1>12, <2>2
<1>13. CASE s \in DOMAIN vols
  <2>1. VolumeIsSound(v) /\ v.reads \in 0..3
    BY <1>1, <1>4, <1>13, SoundVolume
  <2>2. PICK n \in 0..3 : n = v.reads
    BY <2>1
  <2>3. Spotted(v) = IF n = 0 THEN "none" ELSE IF seen # "none" THEN seen
                     ELSE IF n = 3 /\ "ext4" \in v.marks THEN "ext4" ELSE "none"
    BY <2>2 DEF Spotted
  <2>4. Unreadable(v) <=> n = 0 \/ (seen = "none" /\ n < 3)
    BY <2>2 DEF Unreadable
  <2>5. Spotted(v) # "none" => <<s, Spotted(v)>> \in T
    BY <1>5, <2>1, KindsAgree
  <2>6. CASE n = 0
    <3>1. finder' = [finder EXCEPT !.sector = @ + Step, !.unread = TRUE]
      BY <1>11, <1>13, <2>2, <2>6
    <3>2. finder' = [sector |-> at, found |-> d, unread |-> TRUE]
      BY <1>2, <1>7, <3>1
    <3>3. Spotted(v) = "none"
      BY <2>3, <2>6
    <3> HIDE DEF v, T
    <3> QED
      BY <1>5, <1>10, <1>13, <3>2, <3>3
  <2>7. CASE n > 0 /\ seen # "none"
    <3>1. finder' = [finder EXCEPT !.sector = @ + Step, !.found = Append(@, <<s, seen>>)]
      BY <1>11, <1>13, <2>2, <2>7
    <3>2. Spotted(v) = seen /\ ~Unreadable(v)
      BY <2>3, <2>4, <2>7
    <3>3. <<s, seen>> \in T
      BY <2>5, <2>7, <3>2
    <3> DEFINE x == <<s, seen>>
    <3>4. Append(d, x) \in Seq(T) /\ Range(Append(d, x)) = Range(d) \cup {x}
      <4>1. x \in T
        BY <3>3
      <4> HIDE DEF x, T
      <4> QED
        BY <1>5, <4>1, RangeOfAppend
    <3>5. PICK e : e = Append(d, x)
      OBVIOUS
    <3>6. finder' = [sector |-> at, found |-> e, unread |-> u]
      BY <1>2, <1>7, <3>1, <3>5
    <3>7. Spotted(v) # "none" /\ x = <<s, Spotted(v)>>
      BY <2>7, <3>2
    <3> HIDE DEF x, v, seen, T
    <3> QED
      BY <1>10, <1>13, <3>2, <3>4, <3>5, <3>6, <3>7
  <2>8. CASE n > 0 /\ seen = "none"
    <3> DEFINE ending == n = 3 /\ "ext4" \in v.marks
               x == <<s, "ext4">>
    <3>1. PICK w : w = (u \/ n < 3)
      OBVIOUS
    <3>2. PICK e : e = IF ending THEN Append(d, x) ELSE d
      OBVIOUS
    <3>3. finder' = [finder EXCEPT !.sector = at, !.unread = w, !.found = e]
      <4>1. finder' = [finder EXCEPT !.sector = @ + Step, !.unread = @ \/ v.reads < 3,
                          !.found = IF v.reads = 3 /\ "ext4" \in v.marks THEN Append(@, <<s, "ext4">>) ELSE @]
        BY <1>11, <1>13, <2>2, <2>8
      <4>2. (finder.unread \/ v.reads < 3) = w
        BY <1>3, <2>2, <3>1, Zenon
      <4>3. finder.sector + Step = at
        BY <1>3, <1>7
      <4>4. (IF v.reads = 3 /\ "ext4" \in v.marks THEN Append(finder.found, <<s, "ext4">>) ELSE finder.found) = e
        BY <1>3, <2>2, <3>2
      <4> QED
        BY <4>1, <4>2, <4>3, <4>4, Zenon
    <3>4. finder' = [sector |-> at, found |-> e, unread |-> w]
      BY <1>2, <3>3
    <3>5. (u => w) /\ (n < 3 => w)
      BY <3>1, Zenon
    <3>6. Unreadable(v) => w
      <4>1. Unreadable(v) => n < 3
        BY <2>4, <2>8
      <4> QED
        BY <3>5, <4>1, Zenon
    <3>7. Spotted(v) = IF ending THEN "ext4" ELSE "none"
      BY <2>3, <2>8
    <3>8. e \in Seq(T) /\ Range(e) = Range(d) \cup (IF Spotted(v) # "none" THEN {<<s, Spotted(v)>>} ELSE {})
      <4>1. CASE ending
        <5>1. x \in T /\ x = <<s, Spotted(v)>> /\ Spotted(v) # "none"
          BY <2>5, <3>7, <4>1
        <5>2. Append(d, x) \in Seq(T) /\ Range(Append(d, x)) = Range(d) \cup {x}
          BY <1>5, <5>1, RangeOfAppend
        <5>3. e = Append(d, x)
          BY <3>2, <4>1
        <5> HIDE DEF x, v, T
        <5> QED
          BY <5>1, <5>2, <5>3
      <4>2. CASE ~ending
        <5>1. e = d /\ Spotted(v) = "none"
          BY <3>2, <3>7, <4>2
        <5> QED
          BY <1>5, <5>1
      <4> QED
        BY <4>1, <4>2
    <3> HIDE DEF x, v, seen, T, ending
    <3> QED
      BY <1>10, <1>13, <3>4, <3>5, <3>6, <3>8
  <2> QED
    BY <2>2, <2>6, <2>7, <2>8
<1> QED
  BY <1>12, <1>13

\* Every step keeps the invariant.
LEMMA SpaceStep == ASSUME SpaceInv, [SpaceNext]_spaceVars PROVE SpaceInv'
<1> USE DEF SpaceInv
<1>1. CASE FindPartitions
  <2>1. drive' = drive /\ finder' = finder
    BY <1>1 DEF FindPartitions
  <2> QED
    BY <1>1, <2>1, FoundKeeps, FinderStays
<1>2. CASE MapVolume
  <2>1. drive' = drive /\ finder' = finder
    BY <1>2 DEF MapVolume
  <2> QED
    BY <1>2, <2>1, MapKeeps, FinderStays
<1>3. CASE MergeRanges
  <2>1. drive' = drive /\ finder' = finder
    BY <1>3 DEF MergeRanges
  <2> QED
    BY <1>3, <2>1, MergeKeeps, FinderStays
<1>4. CASE FindNext
  <2>1. drive' = drive /\ survey' = survey
    BY <1>4 DEF FindNext
  <2> QED
    BY <1>4, <2>1, SurveyStays, SearchKeeps
<1>5. CASE UNCHANGED spaceVars
  <2>1. drive' = drive /\ survey' = survey /\ finder' = finder
    BY <1>5 DEF spaceVars
  <2> QED
    BY <2>1, SurveyStays, FinderStays
<1> QED
  BY <1>1, <1>2, <1>3, <1>4, <1>5 DEF SpaceNext

\* The search and the probe agree once the search is through.
LEMMA RecognisersMeet == ASSUME SpaceInv PROVE RecognisersAgree
<1> SUFFICES ASSUME finder.sector >= drive.sectors, NEW s \in DOMAIN drive.volumes
             PROVE  /\ (s % Step = 0 /\ ProbeAt(s) \in FinderKinds)
                         <=> (\E f \in Range(finder.found) : f = <<s, ProbeAt(s)>>)
                    /\ s % Step = 0 /\ ProbeAt(s) = "unread" => finder.unread
  BY DEF RecognisersAgree, FinderKinds
<1>1. DriveIsSound(drive) /\ FinderInv
  BY SpaceAssumption DEF SpaceInv, SurveyInv
<1>2. PICK v : v = drive.volumes[s]
  OBVIOUS
<1>3. VolumeIsSound(v) /\ ProbeAt(s) = ProbeVolume(v)
  BY <1>1, <1>2 DEF DriveIsSound, ProbeAt
<1>4. s < finder.sector
  <2>1. s \in 0..(drive.sectors - 1) /\ drive.sectors \in Nat /\ finder.sector \in Nat
    BY <1>1 DEF DriveIsSound, FinderInv
  <2> QED
    BY <2>1
<1>5. s \in Searched(finder.sector) <=> s % Step = 0
  BY <1>4 DEF Searched
<1>6. /\ ProbeVolume(v) \in FinderKinds => Spotted(v) = ProbeVolume(v)
      /\ Spotted(v) # "none" => Spotted(v) \in FinderKinds
      /\ ProbeVolume(v) = "unread" => Unreadable(v)
  BY <1>3, KindsAgree
<1>7. ASSUME s % Step = 0, ProbeAt(s) \in FinderKinds
      PROVE  <<s, ProbeAt(s)>> \in Range(finder.found)
  <2>1. Spotted(v) = ProbeAt(s) /\ Spotted(v) # "none"
    BY <1>3, <1>6, <1>7 DEF FinderKinds
  <2>2. <<s, Spotted(v)>> \in Range(finder.found)
    BY <1>1, <1>2, <1>5, <1>7, <2>1 DEF FinderInv
  <2> QED
    BY <2>1, <2>2
<1>8. ASSUME <<s, ProbeAt(s)>> \in Range(finder.found)
      PROVE  s % Step = 0 /\ ProbeAt(s) \in FinderKinds
  <2>1. PICK i \in Searched(finder.sector) : <<s, ProbeAt(s)>> = <<i, Spotted(drive.volumes[i])>>
    BY <1>1, <1>8 DEF FinderInv
  <2>2. i = s
    BY <2>1
  <2>3. finder.found \in Seq(Nat \X FinderKinds)
    BY <1>1 DEF FinderInv
  <2>4. <<s, ProbeAt(s)>> \in Nat \X FinderKinds
    <3>0. DOMAIN finder.found = 1..Len(finder.found)
      BY <2>3
    <3>1. PICK k \in 1..Len(finder.found) : finder.found[k] = <<s, ProbeAt(s)>>
      BY <1>8, <3>0 DEF Range
    <3>2. finder.found[k] \in Nat \X FinderKinds
      BY <2>3, MemberOf
    <3> QED
      BY <3>1, <3>2
  <2> QED
    BY <1>5, <2>1, <2>2, <2>4
<1>9. s % Step = 0 /\ ProbeAt(s) = "unread" => finder.unread
  BY <1>1, <1>2, <1>3, <1>5, <1>6, Zenon DEF FinderInv
<1> QED
  BY <1>7, <1>8, <1>9

\* The inductive invariant of the survey and the search: what was collected of the
\* volumes seen so far is no file's in them, and all that is free unless a read failed,
\* and the search has found what lies behind it (collectUnallocatedForScan,
\* scanForPartitions).
THEOREM SpaceInvariant == SpaceSpec => []SpaceInv
<1>1. SpaceInit => SpaceInv
  BY SurveyStarts
<1>2. SpaceInv /\ [SpaceNext]_spaceVars => SpaceInv'
  BY SpaceStep
<1> QED
  BY <1>1, <1>2, PTL DEF SpaceSpec

\* A scan is told nothing wrong of a disk: the map has no sector a file owns, as far
\* as what is read of a volume tells, and, without a failed read, each sector that a
\* map that is found leaves free, in ranges that are apart; an unread sector of the
\* GUID table takes only its own partitions with it; and the search for lost
\* partitions agrees with the probe (collectUnallocatedForScan, parseGPT,
\* scanForPartitions).
THEOREM SurveysAreTrue == SpaceSpec => []SurveyIsTrue
<1>1. SpaceInv => SurveyIsTrue
  BY RecognisersMeet DEF SpaceInv, SurveyInv, SurveyIsTrue
<1> QED
  BY <1>1, SpaceInvariant, PTL
=============================================================================
