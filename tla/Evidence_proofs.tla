-------------------------- MODULE Evidence_proofs ---------------------------
(***************************************************************************)
(* Theorems of what an acquisition leaves behind: of the audit log, for    *)
(* any number of sessions and events; of raw imaging, for sources of any   *)
(* size and content, chunks of any length and sectors that may or may not  *)
(* be read, as long as the one failure the code does not look at, that of  *)
(* close(), does not happen; and of EWF images, for disks, chunks, blocks  *)
(* and segments of any size.                                               *)
(***************************************************************************)
EXTENDS AuditLog, RawImaging, EwfImage, NaturalRecursion, SequenceTheorems, TLAPS

----------------------------------------------------------------------------
(* The audit log                                                           *)

\* The event a line of the file ends with
Told(i) == file[i].msg[Len(file[i].msg)]
Ordinary(e) == ~logged[e].critical

LineSet == [msg : Seq(Nat), hash : Seq(Nat), cut : BOOLEAN, ended : BOOLEAN, by : Nat]
EntrySet == [critical : BOOLEAN, open : BOOLEAN, late : BOOLEAN, by : Nat]

LogType ==
    /\ phase \in {"down", "running", "flushing", "flushed", "stopping", "ended"}
    /\ session \in Nat /\ opened \in BOOLEAN /\ stopThread \in BOOLEAN
    /\ worker \in {"run", "wait", "exited"}
    /\ previousHash \in Seq(Nat) /\ logQueue \in Seq(Nat)
    /\ file \in Seq(LineSet) /\ logged \in Seq(EntrySet)

\* Only the last line can be torn; the others tell of something that was logged.
LinesWhole ==
    /\ \A i \in 1..Len(file) : Len(file[i].msg) > 0 /\ Told(i) \in Nat
    /\ \A i \in 1..Len(file) : i < Len(file) => file[i].ended
    /\ \A i \in 1..Len(file) : file[i].ended => ~file[i].cut /\ Told(i) \in 1..Len(logged)

\* Sessions follow each other in the file, and a line that is not cut extends
\* the line before it in its session.
LinesChained ==
    /\ \A i \in 1..Len(file) : file[i].by <= session
    /\ \A i, j \in 1..Len(file) : i < j => file[i].by <= file[j].by
    /\ OneChainPerSession

\* The process knows where its chain ends.
HashKnown ==
    Up /\ opened =>
      IF file # <<>> /\ file[Len(file)].by = session
      THEN file[Len(file)].ended /\ file[Len(file)].hash = previousHash
      ELSE previousHash = <<>>

\* What waits is ordinary, in order, and behind everything ordinary in the file.
QueueInOrder ==
    /\ \A k \in 1..Len(logQueue) : logQueue[k] \in 1..Len(logged) /\ Ordinary(logQueue[k])
    /\ \A k, l \in 1..Len(logQueue) : k < l => logQueue[k] < logQueue[l]
    /\ \A i \in 1..Len(file), k \in 1..Len(logQueue) : file[i].ended =>
         Told(i) # logQueue[k] /\ (Ordinary(Told(i)) => Told(i) < logQueue[k])

LinesInOrder ==
    \A i, j \in 1..Len(file) : i < j /\ ~file[j].cut =>
      Told(i) # Told(j) /\ (Ordinary(Told(i)) => Told(i) < Told(j))

OnDisk(e) == \E i \in 1..Len(file) : file[i].ended /\ Told(i) = e
Waiting(e) == \E k \in 1..Len(logQueue) : logQueue[k] = e

CriticalOnDisk ==
    \A e \in 1..Len(logged) : logged[e].critical /\ logged[e].open => OnDisk(e)

\* Of the events of a session that lives none is anywhere but in the queue or
\* in the file; a worker that is gone leaves only late ones.
SessionKept ==
    /\ \A e \in 1..Len(logged) : logged[e].by <= session
    /\ Up => \A e \in 1..Len(logged) :
               logged[e].by = session /\ logged[e].open => OnDisk(e) \/ Waiting(e)
    /\ Up /\ phase # "ended" => \A e \in 1..Len(logged) :
               logged[e].by = session /\ logged[e].open => opened
    /\ Up /\ worker = "exited" =>
         stopThread /\ \A k \in 1..Len(logQueue) : logged[logQueue[k]].late
    /\ phase = "ended" => worker = "exited"

LogInv ==
    /\ LogType /\ LinesWhole /\ LinesChained /\ HashKnown /\ QueueInOrder /\ LinesInOrder
    /\ CriticalOnDisk /\ SessionKept

----------------------------------------------------------------------------
\* A machine without a log.
LEMMA LogStarts == AuditInit => LogInv
<1> SUFFICES ASSUME AuditInit PROVE LogInv
  OBVIOUS
<1>1. LogType
  <2>1. <<>> \in Seq(LineSet) /\ <<>> \in Seq(EntrySet) /\ <<>> \in Seq(Nat)
    BY EmptySeq
  <2> QED
    BY <2>1 DEF AuditInit, LogType
<1>2. Len(file) = 0 /\ Len(logged) = 0 /\ Len(logQueue) = 0 /\ phase = "down" /\ file = <<>>
  BY DEF AuditInit
<1>3. OneChainPerSession
  BY <1>2 DEF OneChainPerSession
<1>4. LinesWhole /\ LinesChained /\ HashKnown /\ QueueInOrder /\ LinesInOrder /\ CriticalOnDisk
  BY <1>2, <1>3 DEF LinesWhole, LinesChained, HashKnown, QueueInOrder, LinesInOrder, CriticalOnDisk, Up
<1>5. SessionKept
  BY <1>2 DEF SessionKept, Up
<1> QED
  BY <1>1, <1>4, <1>5 DEF LogInv

\* The fields of a line of the file
LEMMA LineFields ==
    ASSUME LogType
    PROVE  \A i \in 1..Len(file) : /\ file[i] \in LineSet /\ file[i].by \in Nat
                                   /\ file[i].msg \in Seq(Nat) /\ file[i].hash \in Seq(Nat)
<1> TAKE i \in 1..Len(file)
<1>1. file[i] \in LineSet
  BY ElementOfSeq DEF LogType
<1> QED
  BY <1>1 DEF LineSet

\* What the text of an entry makes of the file: one line at its end, the lines
\* before it as they were and none of them torn.
LEMMA LineWritten ==
    ASSUME LogType, LinesWhole, NEW e \in Nat, NEW isCut \in BOOLEAN, NEW isEnded \in BOOLEAN,
           file' = Written(Text(e, isCut, isEnded))
    PROVE  /\ file' \in Seq(LineSet) /\ Len(file') > 0
           /\ Len(file') - 1 <= Len(file)
           /\ \A i \in 1..(Len(file') - 1) : file'[i] = file[i] /\ file[i].ended
           /\ \A i \in 1..Len(file) : file[i].ended => i <= Len(file') - 1
           /\ Len(file'[Len(file')].msg) > 0
           /\ file'[Len(file')].msg[Len(file'[Len(file')].msg)] = e
           /\ file'[Len(file')].cut = isCut /\ file'[Len(file')].ended = isEnded
           /\ file'[Len(file')].by = session
           /\ file'[Len(file')].hash = IF isCut THEN <<>> ELSE Append(previousHash, e)
           /\ Unended => Len(file') = Len(file)
           /\ ~Unended => Len(file') = Len(file) + 1
<1> DEFINE line == Text(e, isCut, isEnded)
<1>1. /\ line \in LineSet /\ Len(line.msg) > 0 /\ line.msg[Len(line.msg)] = e
      /\ line.cut = isCut /\ line.ended = isEnded /\ line.by = session
      /\ line.hash = IF isCut THEN <<>> ELSE Append(previousHash, e)
  <2>1. CASE Unended
    <3>0. Len(file) \in 1..Len(file)
      BY <2>1 DEF Unended, LogType
    <3>1. file[Len(file)] \in LineSet
      BY <3>0, ElementOfSeq DEF LogType
    <3>2. file[Len(file)].msg \in Seq(Nat)
      BY <3>1 DEF LineSet
    <3> QED
      BY <2>1, <3>2, SMTT(30) DEF Text, LogType, LineSet
  <2>2. CASE ~Unended
    BY <2>2 DEF Text, LogType, LineSet
  <2> QED
    BY <2>1, <2>2
<1> HIDE DEF line
<1>2. CASE Unended
  <2>1. file' = [file EXCEPT ![Len(file)] = line] /\ Len(file) > 0 /\ ~file[Len(file)].ended
    BY <1>2 DEF Written, Unended, LogType, line
  <2>2. /\ file' \in Seq(LineSet) /\ Len(file') = Len(file) /\ file'[Len(file)] = line
        /\ \A i \in 1..(Len(file) - 1) : file'[i] = file[i]
    BY <1>1, <2>1 DEF LogType
  <2>3. Len(file) \in Nat /\ Len(file) > 0 /\ \A i \in 1..(Len(file) - 1) : file[i].ended
    BY <2>1, SMTT(30) DEF LinesWhole, LogType
  <2>4. \A i \in 1..Len(file) : file[i].ended => i # Len(file)
    BY <2>1
  <2>5. \A i \in 1..Len(file) : i # Len(file) => i <= Len(file) - 1
    BY <2>3
  <2>6. Len(file') > 0 /\ Len(file') - 1 <= Len(file) /\ file'[Len(file')] = line
    BY <2>2, <2>3
  <2>7. \A i \in 1..(Len(file') - 1) : file'[i] = file[i] /\ file[i].ended
    BY <2>2, <2>3
  <2>8. \A i \in 1..Len(file) : file[i].ended => i <= Len(file') - 1
    BY <2>2, <2>4, <2>5
  <2> QED
    BY <1>1, <1>2, <2>2, <2>6, <2>7, <2>8
<1>3. CASE ~Unended
  <2>1. file' = Append(file, line) /\ (Len(file) > 0 => file[Len(file)].ended)
    BY <1>3 DEF Written, Unended, LogType, line
  <2>2. /\ file' \in Seq(LineSet) /\ Len(file') = Len(file) + 1 /\ file'[Len(file) + 1] = line
        /\ \A i \in 1..Len(file) : file'[i] = file[i]
    BY <1>1, <2>1 DEF LogType
  <2> QED
    BY <1>1, <1>3, <2>1, <2>2 DEF LinesWhole, LogType
<1> QED
  BY <1>2, <1>3

\* The observations are only added to.
Grows ==
    /\ logged' \in Seq(EntrySet) /\ Len(logged) <= Len(logged')
    /\ \A k \in 1..Len(logged) : logged'[k] = logged[k]

\* What is said of the lines holds on when the file stays as it is.
LEMMA FileStays ==
    ASSUME LogInv, Grows, file' = file, session' \in Nat, session <= session'
    PROVE  /\ LinesWhole' /\ LinesChained' /\ LinesInOrder'
           /\ \A e \in Nat : OnDisk(e) => OnDisk(e)'
<1>0. /\ Len(logged) \in Nat /\ Len(logged') \in Nat /\ Len(logged) <= Len(logged')
      /\ Len(file) \in Nat
  BY DEF LogInv, LogType, Grows
<1>1. LinesWhole'
  BY <1>0 DEF LogInv, LinesWhole, Told
<1>2. LinesChained'
  <2>1. \A i \in 1..Len(file) : file[i].by \in Nat
    BY LineFields DEF LogInv
  <2>2. session \in Nat
    BY DEF LogInv, LogType
  <2>3. \A i \in 1..Len(file) : file[i].by <= session'
    BY <2>1, <2>2 DEF LogInv, LinesChained
  <2>4. OneChainPerSession'
    BY DEF LogInv, LinesChained, OneChainPerSession
  <2> QED
    BY <2>3, <2>4 DEF LogInv, LinesChained
<1>3. LinesInOrder'
  <2> SUFFICES ASSUME NEW i \in 1..Len(file), NEW j \in 1..Len(file), i < j, ~file[j].cut
               PROVE  Told(i) # Told(j) /\ (Ordinary(Told(i))' => Told(i) < Told(j))
    BY DEF LinesInOrder, Told
  <2>1. file[i].ended
    BY <1>0 DEF LogInv, LinesWhole
  <2>2. Told(i) \in 1..Len(logged)
    BY <2>1 DEF LogInv, LinesWhole
  <2>3. Ordinary(Told(i))' => Ordinary(Told(i))
    BY <2>2 DEF Grows, Ordinary, Told
  <2> QED
    BY <2>3 DEF LogInv, LinesInOrder
<1>4. \A e \in Nat : OnDisk(e) => OnDisk(e)'
  BY DEF OnDisk, Told
<1> QED
  BY <1>1, <1>2, <1>3, <1>4

\* A line that reaches the file of the session extends its chain.
LEMMA ChainGrows ==
    ASSUME LogInv, NEW e \in Nat, NEW isCut \in BOOLEAN, NEW isEnded \in BOOLEAN,
           Up, opened, file' = Written(Text(e, isCut, isEnded)), session' = session
    PROVE  LinesChained'
<1> DEFINE n == Len(file')
<1>0. LogType /\ LinesWhole
  BY DEF LogInv
<1>1. /\ file' \in Seq(LineSet) /\ n > 0 /\ n - 1 <= Len(file)
      /\ \A i \in 1..(n - 1) : file'[i] = file[i]
      /\ file'[n].by = session /\ Len(file'[n].msg) > 0
      /\ file'[n].msg[Len(file'[n].msg)] = e
      /\ file'[n].hash = IF isCut THEN <<>> ELSE Append(previousHash, e)
      /\ file'[n].cut = isCut
      /\ Unended => n = Len(file)
      /\ ~Unended => n = Len(file) + 1
  <2> HIDE DEF n
  <2> QED
    BY <1>0, LineWritten DEF n
<1>1a. n \in Nat /\ (~file'[n].cut => file'[n].hash = Append(previousHash, e))
  BY <1>1
<1> HIDE DEF n
<1>2. n = Len(file')
  BY DEF n
<1>3. Len(file) \in Nat /\ session \in Nat /\ (\A i \in 1..Len(file) : file[i].by \in Nat)
  BY LineFields DEF LogInv, LogType
<1>4. \A i \in 1..n : file'[i].by <= session
  <2>1. \A i \in 1..(n - 1) : file'[i].by <= session
    BY <1>1, <1>1a, <1>3 DEF LogInv, LinesChained
  <2> QED
    BY <1>1, <1>1a, <1>3, <2>1
<1>5. \A i, j \in 1..n : i < j => file'[i].by <= file'[j].by
  <2>1. \A i, j \in 1..(n - 1) : i < j => file'[i].by <= file'[j].by
    BY <1>1, <1>1a, <1>3, SMTT(30) DEF LogInv, LinesChained
  <2> QED
    BY <1>1, <1>1a, <1>4, <2>1
<1>6. ASSUME NEW i \in 1..(n - 1), ~file'[i].cut
      PROVE  LET own == i > 1 /\ file'[i - 1].by = file'[i].by
             IN  file'[i].hash = Append(IF own THEN file'[i - 1].hash ELSE <<>>,
                                        file'[i].msg[Len(file'[i].msg)])
  <2>1. i \in DOMAIN file /\ file'[i] = file[i] /\ (i > 1 => file'[i - 1] = file[i - 1])
    <3>1. i \in 1..Len(file)
      BY <1>1, <1>1a, <1>3
    <3>2. i > 1 => i - 1 \in 1..(n - 1)
      BY <1>1a
    <3> QED
      BY <1>1, <3>1, <3>2, SMTT(30) DEF LogInv, LogType
  <2> QED
    BY <1>6, <2>1 DEF LogInv, LinesChained, OneChainPerSession
<1>7. ASSUME ~file'[n].cut
      PROVE  LET own == n > 1 /\ file'[n - 1].by = file'[n].by
             IN  file'[n].hash = Append(IF own THEN file'[n - 1].hash ELSE <<>>,
                                        file'[n].msg[Len(file'[n].msg)])
  <2>1. CASE Unended
    <3>1. n = Len(file) /\ ~file[n].ended /\ file # <<>>
      BY <1>1, <2>1 DEF Unended
    <3>2. previousHash = <<>> /\ file[n].by # session
      BY <3>1 DEF LogInv, HashKnown
    <3>3. n > 1 => file'[n - 1].by # session
      BY <1>1, <1>3, <3>1, <3>2 DEF LogInv, LinesChained
    <3> QED
      BY <1>1, <1>7, <3>2, <3>3
  <2>2. CASE ~Unended
    <3>1. n = Len(file) + 1 /\ (n > 1 => file'[n - 1] = file[n - 1] /\ file # <<>>)
      BY <1>1, <1>3, <2>2
    <3>2. n > 1 /\ file[n - 1].by = session => file[n - 1].hash = previousHash
      BY <1>3, <3>1 DEF LogInv, HashKnown
    <3>3. ~(n > 1 /\ file[n - 1].by = session) => previousHash = <<>>
      <4>1. n = 1 => file = <<>>
        BY <3>1 DEF LogInv, LogType
      <4> QED
        BY <1>1, <1>3, <3>1, <4>1 DEF LogInv, HashKnown
    <3> QED
      BY <1>1, <1>7, <3>1, <3>2, <3>3
  <2> QED
    BY <2>1, <2>2
<1>8. OneChainPerSession'
  <2>1. \A i \in 1..n : i \in 1..(n - 1) \/ i = n
    BY <1>1a
  <2>2. DOMAIN file' = 1..n
    BY <1>1, <1>2
  <2> QED
    BY <1>6, <1>7, <2>1, <2>2 DEF OneChainPerSession
<1> QED
  BY <1>2, <1>4, <1>5, <1>8 DEF LinesChained

\* An event told by a line that reaches the file comes after the ordinary events
\* before it; an ended line tells it for good.
LEMMA OrderGrows ==
    ASSUME LogInv, Grows, NEW e \in Nat, NEW isCut \in BOOLEAN, NEW isEnded \in BOOLEAN,
           file' = Written(Text(e, isCut, isEnded)), session' = session,
           isEnded => ~isCut /\ e \in 1..Len(logged'),
           \A i \in 1..Len(file) : file[i].ended =>
              Told(i) # e /\ (Ordinary(Told(i)) => Told(i) < e)
    PROVE  /\ LinesWhole' /\ LinesInOrder'
           /\ \A d \in Nat : OnDisk(d) => OnDisk(d)'
           /\ isEnded => OnDisk(e)'
           /\ \A i \in 1..Len(file') : file'[i].ended =>
                \/ i \in 1..Len(file) /\ file[i].ended /\ Told(i)' = Told(i)
                \/ isEnded /\ Told(i)' = e
<1>0. /\ LogType /\ LinesWhole /\ Len(logged) \in Nat /\ Len(logged') \in Nat
      /\ Len(logged) <= Len(logged') /\ Len(file) \in Nat
  BY DEF LogInv, LogType, Grows
<1>a. file' \in Seq(LineSet)
  BY <1>0, LineWritten
<1>2. PICK n \in Nat : n = Len(file')
  BY <1>a
<1>1. /\ n > 0 /\ n - 1 <= Len(file)
      /\ \A i \in 1..(n - 1) : file'[i] = file[i] /\ file[i].ended
      /\ \A i \in 1..Len(file) : file[i].ended => i <= n - 1
      /\ Len(file'[n].msg) > 0 /\ file'[n].msg[Len(file'[n].msg)] = e
      /\ file'[n].cut = isCut /\ file'[n].ended = isEnded
  BY <1>0, <1>2, LineWritten
<1>3. \A i \in 1..n : i \in 1..(n - 1) \/ i = n
  BY <1>2
<1>4. /\ \A i \in 1..(n - 1) : i \in 1..Len(file) /\ file'[i] = file[i] /\ file[i].ended /\ Told(i)' = Told(i)
      /\ n \in 1..n /\ Told(n)' = e
  <2>1. \A i \in 1..(n - 1) : i \in 1..Len(file)
    BY <1>0, <1>1
  <2>2. n \in 1..n
    BY <1>1
  <2>3. \A i \in 1..(n - 1) : Told(i)' = Told(i)
    BY <1>1 DEF Told
  <2>4. Told(n)' = e
    BY <1>1 DEF Told
  <2> QED
    BY <1>1, <2>1, <2>2, <2>3, <2>4
<1>5. \A i \in 1..(n - 1) : Told(i) \in 1..Len(logged) /\ ~file[i].cut /\ Len(file[i].msg) > 0
  BY <1>0, <1>4 DEF LinesWhole
<1>6. LinesWhole'
  <2>1. \A i \in 1..n : Len(file'[i].msg) > 0 /\ Told(i)' \in Nat
    BY <1>1, <1>3, <1>4, <1>5, SMTT(30)
  <2>2. \A i \in 1..n : i < n => file'[i].ended
    BY <1>3, <1>4
  <2>3. \A i \in 1..n : file'[i].ended => ~file'[i].cut /\ Told(i)' \in 1..Len(logged')
    <3>1. \A i \in 1..(n - 1) : ~file'[i].cut /\ Told(i)' \in 1..Len(logged')
      BY <1>0, <1>4, <1>5
    <3>2. file'[n].ended => ~file'[n].cut /\ Told(n)' \in 1..Len(logged')
      BY <1>1, <1>4
    <3> QED
      BY <1>3, <3>1, <3>2
  <2> QED
    BY <1>2, <2>1, <2>2, <2>3 DEF LinesWhole
<1>7. LinesInOrder'
  <2> SUFFICES ASSUME NEW i \in 1..n, NEW j \in 1..n, i < j, ~file'[j].cut
               PROVE  Told(i)' # Told(j)' /\ (Ordinary(Told(i))' => Told(i)' < Told(j)')
    BY <1>2 DEF LinesInOrder
  <2>1. i \in 1..(n - 1)
    BY <1>2
  <2>2. Ordinary(Told(i))' => Ordinary(Told(i))
    BY <1>4, <1>5, <2>1 DEF Grows, Ordinary
  <2>3. CASE j = n
    BY <1>4, <2>1, <2>2, <2>3
  <2>4. CASE j # n
    <3>1. j \in 1..(n - 1)
      BY <1>2, <2>4
    <3> QED
      BY <1>4, <2>1, <2>2, <3>1 DEF LogInv, LinesInOrder
  <2> QED
    BY <2>3, <2>4
<1>8. ASSUME NEW d \in Nat, OnDisk(d) PROVE OnDisk(d)'
  <2>1. PICK i \in 1..Len(file) : file[i].ended /\ Told(i) = d
    BY <1>8 DEF OnDisk
  <2>2. i \in 1..(n - 1) /\ i \in 1..n
    BY <1>1, <1>2, <2>1
  <2> QED
    BY <1>2, <1>4, <2>1, <2>2 DEF OnDisk
<1>9. isEnded => OnDisk(e)'
  BY <1>1, <1>2, <1>4 DEF OnDisk
<1>10. \A i \in 1..n : file'[i].ended =>
                \/ i \in 1..Len(file) /\ file[i].ended /\ Told(i)' = Told(i)
                \/ isEnded /\ Told(i)' = e
  BY <1>1, <1>3, <1>4
<1> QED
  BY <1>2, <1>6, <1>7, <1>8, <1>9, <1>10

\* An entry that comes after every ordinary one in the file goes out.
LEMMA EntryGoesOut ==
    ASSUME LogInv, Grows, Up, session' = session, opened' = opened, NEW e \in 1..Len(logged'),
           WriteEntry(e),
           \A i \in 1..Len(file) : file[i].ended =>
              Told(i) # e /\ (Ordinary(Told(i)) => Told(i) < e)
    PROVE  /\ file' \in Seq(LineSet) /\ previousHash' \in Seq(Nat)
           /\ LinesWhole' /\ LinesChained' /\ LinesInOrder' /\ HashKnown'
           /\ \A d \in Nat : OnDisk(d) => OnDisk(d)'
           /\ opened => OnDisk(e)'
           /\ \A i \in 1..Len(file') : file'[i].ended =>
                \/ i \in 1..Len(file) /\ file[i].ended /\ Told(i)' = Told(i)
                \/ Told(i)' = e
<1>0. LogType /\ LinesWhole /\ e \in Nat /\ session \in Nat /\ session <= session' /\ session' \in Nat
  BY DEF LogInv, LogType, Grows
<1>1. previousHash' = Append(previousHash, e) /\ previousHash' \in Seq(Nat)
  BY <1>0 DEF WriteEntry, LogType
<1>2. CASE opened
  <2>1. file' = Written(Text(e, FALSE, TRUE))
    BY <1>2 DEF WriteEntry
  <2>2. LinesChained'
    BY <1>0, <1>2, <2>1, ChainGrows
  <2>3. /\ LinesWhole' /\ LinesInOrder' /\ OnDisk(e)'
        /\ \A d \in Nat : OnDisk(d) => OnDisk(d)'
        /\ \A i \in 1..Len(file') : file'[i].ended =>
             \/ i \in 1..Len(file) /\ file[i].ended /\ Told(i)' = Told(i)
             \/ Told(i)' = e
    BY <1>0, <2>1, OrderGrows
  <2>4. /\ file' \in Seq(LineSet) /\ file'[Len(file')].ended
        /\ file'[Len(file')].by = session /\ Len(file') > 0
        /\ file'[Len(file')].hash = Append(previousHash, e)
    BY <1>0, <2>1, LineWritten
  <2>5. HashKnown'
    BY <1>1, <2>4 DEF HashKnown
  <2> QED
    BY <1>1, <2>2, <2>3, <2>4, <2>5
<1>3. CASE ~opened
  <2>1. file' = file /\ file' \in Seq(LineSet)
    BY <1>0, <1>3 DEF WriteEntry, LogType
  <2>2. /\ LinesWhole' /\ LinesChained' /\ LinesInOrder'
        /\ \A d \in Nat : OnDisk(d) => OnDisk(d)'
    BY <1>0, <2>1, FileStays
  <2>3. HashKnown'
    BY <1>3 DEF HashKnown
  <2>4. \A i \in 1..Len(file') : file'[i].ended =>
          i \in 1..Len(file) /\ file[i].ended /\ Told(i)' = Told(i)
    BY <2>1 DEF Told
  <2> QED
    BY <1>1, <1>3, <2>1, <2>2, <2>3, <2>4
<1> QED
  BY <1>2, <1>3

\* The queue as it was, with no line in the file that was not there.
LEMMA QueueStays ==
    ASSUME LogInv, Grows, logQueue' = logQueue,
           \A i \in 1..Len(file') : file'[i].ended =>
              i \in 1..Len(file) /\ file[i].ended /\ Told(i)' = Told(i)
    PROVE  QueueInOrder'
<1>0. Len(logged) \in Nat /\ Len(logged') \in Nat /\ Len(logged) <= Len(logged')
  BY DEF LogInv, LogType, Grows
<1>1. \A k \in 1..Len(logQueue) : logQueue[k] \in 1..Len(logged) /\ Ordinary(logQueue[k])
  BY DEF LogInv, QueueInOrder
<1>2. \A k \in 1..Len(logQueue) : logQueue[k] \in 1..Len(logged') /\ ~logged'[logQueue[k]].critical
  BY <1>0, <1>1 DEF Grows, Ordinary
<1>3. ASSUME NEW i \in 1..Len(file'), NEW k \in 1..Len(logQueue), file'[i].ended
      PROVE  Told(i)' # logQueue[k] /\ (Ordinary(Told(i))' => Told(i)' < logQueue[k])
  <2>1. i \in 1..Len(file) /\ file[i].ended /\ Told(i)' = Told(i)
    BY <1>3
  <2>2. Told(i) \in 1..Len(logged)
    BY <2>1 DEF LogInv, LinesWhole
  <2>3. Ordinary(Told(i))' => Ordinary(Told(i))
    BY <2>1, <2>2 DEF Grows, Ordinary
  <2> QED
    BY <2>1, <2>3 DEF LogInv, QueueInOrder
<1> QED
  BY <1>2, <1>3 DEF LogInv, QueueInOrder, Ordinary

\* One more ordinary event joins the queue.
LEMMA QueueGrows ==
    ASSUME LogInv, Grows, file' = file, NEW q \in Seq(Nat),
           q = logQueue \/ q = <<>>,
           Len(logged') = Len(logged) + 1, ~logged'[Len(logged) + 1].critical,
           logQueue' = Append(q, Len(logged) + 1)
    PROVE  QueueInOrder' /\ (\A e \in Nat : e = Len(logged) + 1 => Waiting(e)')
           /\ (q = logQueue => \A e \in Nat : Waiting(e) => Waiting(e)')
<1>0. Len(logged) \in Nat /\ Len(q) \in Nat
  BY DEF LogInv, LogType
<1>1. /\ Len(logQueue') = Len(q) + 1 /\ logQueue'[Len(q) + 1] = Len(logged) + 1
      /\ \A k \in 1..Len(q) : logQueue'[k] = q[k]
  BY <1>0
<1>2. \A k \in 1..(Len(q) + 1) : k \in 1..Len(q) \/ k = Len(q) + 1
  BY <1>0
<1>3. /\ \A k \in 1..Len(q) : q[k] \in 1..Len(logged) /\ Ordinary(q[k])
      /\ \A k, l \in 1..Len(q) : k < l => q[k] < q[l]
      /\ \A i \in 1..Len(file), k \in 1..Len(q) : file[i].ended =>
           Told(i) # q[k] /\ (Ordinary(Told(i)) => Told(i) < q[k])
  <2>1. q = logQueue \/ Len(q) = 0
    BY <1>0
  <2> QED
    BY <2>1 DEF LogInv, QueueInOrder
<1>4. \A k \in 1..Len(logQueue') : logQueue'[k] \in 1..Len(logged') /\ ~logged'[logQueue'[k]].critical
  BY <1>0, <1>1, <1>2, <1>3 DEF Grows, Ordinary
<1>5. \A k, l \in 1..Len(logQueue') : k < l => logQueue'[k] < logQueue'[l]
  BY <1>0, <1>1, <1>2, <1>3
<1>6. ASSUME NEW i \in 1..Len(file), NEW k \in 1..Len(logQueue'), file[i].ended
      PROVE  Told(i) # logQueue'[k] /\ (Ordinary(Told(i))' => Told(i) < logQueue'[k])
  <2>1. Told(i) \in 1..Len(logged)
    BY <1>6 DEF LogInv, LinesWhole
  <2>2. Ordinary(Told(i))' => Ordinary(Told(i))
    BY <2>1 DEF Grows, Ordinary, Told
  <2>3. CASE k \in 1..Len(q)
    BY <1>1, <1>3, <1>6, <2>2, <2>3
  <2>4. CASE k = Len(q) + 1
    BY <1>0, <1>1, <2>1, <2>4
  <2> QED
    BY <1>1, <1>2, <2>3, <2>4
<1>7. QueueInOrder'
  BY <1>4, <1>5, <1>6 DEF QueueInOrder, Ordinary, Told
<1>8. ASSUME NEW e \in Nat, e = Len(logged) + 1 PROVE Waiting(e)'
  BY <1>0, <1>1, <1>8 DEF Waiting
<1>9. ASSUME q = logQueue, NEW e \in Nat, Waiting(e) PROVE Waiting(e)'
  BY <1>0, <1>1, <1>9 DEF Waiting
<1> QED
  BY <1>7, <1>8, <1>9

\* One more event is logged.
LEMMA OneMore ==
    ASSUME LogType, NEW r \in EntrySet, logged' = Append(logged, r)
    PROVE  /\ Grows /\ Len(logged') = Len(logged) + 1 /\ logged'[Len(logged) + 1] = r
           /\ \A e \in 1..Len(logged') : e \in 1..Len(logged) \/ e = Len(logged) + 1
<1>1. Len(logged) \in Nat /\ logged \in Seq(EntrySet)
  BY DEF LogType
<1>2. /\ logged' \in Seq(EntrySet) /\ Len(logged') = Len(logged) + 1
      /\ logged'[Len(logged) + 1] = r
      /\ \A k \in 1..Len(logged) : logged'[k] = logged[k]
  BY <1>1
<1> QED
  BY <1>1, <1>2 DEF Grows

\* A critical event stays on disk while no other is logged.
LEMMA CriticalStays ==
    ASSUME LogInv, Grows, \A d \in Nat : OnDisk(d) => OnDisk(d)',
           \A e \in 1..Len(logged') : e \in 1..Len(logged) \/ ~logged'[e].critical \/ OnDisk(e)'
                                        \/ ~logged'[e].open
    PROVE  CriticalOnDisk'
<1> SUFFICES ASSUME NEW e \in 1..Len(logged'), logged'[e].critical, logged'[e].open
             PROVE  OnDisk(e)'
  BY DEF CriticalOnDisk
<1>1. CASE e \in 1..Len(logged)
  <2>1. logged'[e] = logged[e] /\ e \in Nat
    BY <1>1 DEF Grows
  <2>2. OnDisk(e)
    BY <1>1, <2>1 DEF LogInv, CriticalOnDisk
  <2> QED
    BY <2>1, <2>2
<1>2. CASE e \notin 1..Len(logged)
  BY <1>2
<1> QED
  BY <1>1, <1>2

\* The first event of a session finds a queue and a chain that begin.
LEMMA StartSessionKeeps == LogInv /\ StartSession => LogInv'
<1> SUFFICES ASSUME LogInv, StartSession PROVE LogInv'
  OBVIOUS
<1>0. LogType /\ session \in Nat /\ session' = session + 1 /\ session <= session' /\ session' \in Nat
      /\ opened' \in BOOLEAN /\ file' = file /\ phase' = "running" /\ worker' = "run"
      /\ stopThread' = FALSE /\ previousHash' = <<>> /\ phase = "down"
  BY DEF LogInv, LogType, StartSession
<1> DEFINE r == [critical |-> FALSE, open |-> opened', late |-> FALSE, by |-> session']
<1>1. r \in EntrySet /\ r.critical = FALSE /\ r.open = opened' /\ r.by = session' /\ r.late = FALSE
  BY <1>0 DEF EntrySet
<1>2. logged' = Append(logged, r) /\ logQueue' = <<Len(logged) + 1>>
  BY DEF StartSession, NextEvent
<1> HIDE DEF r
<1>3. /\ Grows /\ Len(logged') = Len(logged) + 1 /\ logged'[Len(logged) + 1] = r
      /\ \A e \in 1..Len(logged') : e \in 1..Len(logged) \/ e = Len(logged) + 1
  BY <1>0, <1>1, <1>2, OneMore
<1>4. /\ LinesWhole' /\ LinesChained' /\ LinesInOrder'
      /\ \A e \in Nat : OnDisk(e) => OnDisk(e)'
  BY <1>0, <1>3, FileStays
<1>5. QueueInOrder' /\ (\A e \in Nat : e = Len(logged) + 1 => Waiting(e)')
  <2>1. <<>> \in Seq(Nat) /\ logQueue' = Append(<<>>, Len(logged) + 1)
    BY <1>2, EmptySeq
  <2> QED
    BY <1>0, <1>1, <1>3, <2>1, QueueGrows
<1>6. CriticalOnDisk'
  BY <1>1, <1>3, <1>4, CriticalStays
<1>7. HashKnown'
  <2>1. file # <<>> => file[Len(file)].by <= session /\ file[Len(file)].by \in Nat
    <3>1. file # <<>> => Len(file) \in 1..Len(file)
      BY <1>0 DEF LogType
    <3> QED
      BY <1>0, <3>1, LineFields DEF LogInv, LinesChained
  <2> QED
    BY <1>0, <2>1 DEF HashKnown
<1>8. LogType'
  <2>1. previousHash' \in Seq(Nat) /\ logQueue' \in Seq(Nat) /\ file' \in Seq(LineSet)
    BY <1>0, <1>2 DEF LogType
  <2> QED
    BY <1>0, <1>3, <2>1 DEF LogType, Grows
<1>9. SessionKept'
  <2>1. \A e \in 1..Len(logged) : logged'[e] = logged[e] /\ logged[e].by <= session /\ logged[e].by \in Nat
    <3>1. \A e \in 1..Len(logged) : logged[e] \in EntrySet
      BY <1>0, ElementOfSeq DEF LogType
    <3> QED
      BY <1>3, <3>1 DEF Grows, LogInv, SessionKept, EntrySet
  <2>2. \A e \in 1..Len(logged') : logged'[e].by <= session'
    BY <1>0, <1>1, <1>3, <2>1
  <2>3. \A e \in 1..Len(logged') : logged'[e].by = session' => e = Len(logged) + 1 /\ e \in Nat
    BY <1>0, <1>1, <1>3, <2>1
  <2>4. \A e \in 1..Len(logged') : logged'[e].by = session' => Waiting(e)'
    BY <1>5, <2>3
  <2>5. \A e \in 1..Len(logged') : logged'[e].by = session' /\ logged'[e].open => opened'
    BY <1>1, <1>3, <2>3
  <2> QED
    BY <1>0, <2>2, <2>4, <2>5 DEF SessionKept
<1> QED
  BY <1>4, <1>5, <1>6, <1>7, <1>8, <1>9 DEF LogInv

\* An ordinary event joins the queue behind everything logged.
LEMMA LogEventKeeps == LogInv /\ LogEvent => LogInv'
<1> SUFFICES ASSUME LogInv, LogEvent PROVE LogInv'
  OBVIOUS
<1>0. /\ LogType /\ session \in Nat /\ session' = session /\ opened' = opened /\ file' = file
      /\ phase' = phase /\ stopThread' = stopThread /\ previousHash' = previousHash /\ Up
      /\ worker' \in {"run", "wait", "exited"} /\ (worker' = "exited" <=> worker = "exited")
  BY DEF LogInv, LogType, LogEvent, process, Woken
<1> DEFINE r == [critical |-> FALSE, open |-> opened, late |-> stopThread, by |-> session]
<1>1. r \in EntrySet /\ r.critical = FALSE /\ r.open = opened /\ r.by = session /\ r.late = stopThread
  BY <1>0 DEF EntrySet, LogType
<1>2. logged' = Append(logged, r) /\ logQueue' = Append(logQueue, Len(logged) + 1)
  BY DEF LogEvent, Logged, NextEvent
<1> HIDE DEF r
<1>3. /\ Grows /\ Len(logged') = Len(logged) + 1 /\ logged'[Len(logged) + 1] = r
      /\ \A e \in 1..Len(logged') : e \in 1..Len(logged) \/ e = Len(logged) + 1
  BY <1>0, <1>1, <1>2, OneMore
<1>4. /\ LinesWhole' /\ LinesChained' /\ LinesInOrder'
      /\ \A e \in Nat : OnDisk(e) => OnDisk(e)'
  BY <1>0, <1>3, FileStays
<1>5. /\ QueueInOrder' /\ (\A e \in Nat : e = Len(logged) + 1 => Waiting(e)')
      /\ \A e \in Nat : Waiting(e) => Waiting(e)'
  <2>1. logQueue \in Seq(Nat)
    BY <1>0 DEF LogType
  <2> QED
    BY <1>0, <1>1, <1>2, <1>3, <2>1, QueueGrows
<1>6. CriticalOnDisk'
  BY <1>1, <1>3, <1>4, CriticalStays
<1>7. HashKnown'
  BY <1>0 DEF HashKnown, LogInv, Up
<1>8. LogType'
  <2>1. Len(logged) + 1 \in Nat /\ logQueue' \in Seq(Nat)
    BY <1>0, <1>2 DEF LogType
  <2> QED
    BY <1>0, <1>3, <2>1 DEF LogType, Grows
<1>9. SessionKept'
  <2>0. Len(logged) \in Nat
    BY <1>0 DEF LogType
  <2>1. \A e \in 1..Len(logged) : logged'[e] = logged[e] /\ e \in Nat
    BY <1>3 DEF Grows
  <2>2. \A e \in 1..Len(logged') : logged'[e].by <= session'
    BY <1>0, <1>1, <1>3, <2>1 DEF LogInv, SessionKept
  <2>3. \A e \in 1..Len(logged') :
          logged'[e].by = session' /\ logged'[e].open => OnDisk(e)' \/ Waiting(e)'
    <3>1. ASSUME NEW e \in 1..Len(logged), logged'[e].by = session', logged'[e].open
          PROVE  OnDisk(e)' \/ Waiting(e)'
      BY <1>0, <1>4, <1>5, <2>1, <3>1 DEF LogInv, SessionKept
    <3>2. ASSUME NEW e \in 1..Len(logged'), e = Len(logged) + 1 PROVE Waiting(e)'
      BY <1>5, <2>0, <3>2
    <3> QED
      BY <1>3, <3>1, <3>2
  <2>4. phase' # "ended" => \A e \in 1..Len(logged') :
          logged'[e].by = session' /\ logged'[e].open => opened'
    BY <1>0, <1>1, <1>3, <2>1 DEF LogInv, SessionKept
  <2>5. worker' = "exited" =>
          stopThread' /\ \A k \in 1..Len(logQueue') : logged'[logQueue'[k]].late
    <3> SUFFICES ASSUME worker' = "exited" PROVE
                   stopThread /\ \A k \in 1..Len(logQueue') : logged'[logQueue'[k]].late
      BY <1>0
    <3>1. stopThread /\ \A k \in 1..Len(logQueue) : logged[logQueue[k]].late
      BY <1>0 DEF LogInv, SessionKept
    <3>2. \A k \in 1..Len(logQueue') :
             \/ k \in 1..Len(logQueue) /\ logQueue'[k] = logQueue[k]
             \/ logQueue'[k] = Len(logged) + 1
      BY <1>0, <1>2, <2>0 DEF LogType
    <3>3. \A k \in 1..Len(logQueue) : logQueue[k] \in 1..Len(logged)
      BY DEF LogInv, QueueInOrder
    <3>4. \A k \in 1..Len(logQueue) : logged'[logQueue[k]].late
      BY <2>1, <3>1, <3>3
    <3>5. logged'[Len(logged) + 1].late
      BY <1>1, <1>3, <3>1
    <3> QED
      BY <3>1, <3>2, <3>4, <3>5
  <2>6. phase' = "ended" => worker' = "exited"
    BY <1>0 DEF LogInv, SessionKept
  <2> QED
    BY <2>2, <2>3, <2>4, <2>5, <2>6 DEF SessionKept
<1> QED
  BY <1>4, <1>5, <1>6, <1>7, <1>8, <1>9 DEF LogInv

\* A critical event passes the queue; the ordinary ones keep their order.
LEMMA LogCriticalKeeps == LogInv /\ LogCritical => LogInv'
<1> SUFFICES ASSUME LogInv, LogCritical PROVE LogInv'
  OBVIOUS
<1>0. /\ LogType /\ session \in Nat /\ session' = session /\ opened' = opened /\ Up
      /\ phase' = phase /\ stopThread' = stopThread /\ worker' = worker /\ logQueue' = logQueue
      /\ Len(logged) \in Nat
  BY DEF LogInv, LogType, LogCritical, process
<1> DEFINE r == [critical |-> TRUE, open |-> opened, late |-> stopThread, by |-> session]
<1>1. r \in EntrySet /\ r.critical = TRUE /\ r.open = opened /\ r.by = session
  BY <1>0 DEF EntrySet, LogType
<1>2. logged' = Append(logged, r) /\ WriteEntry(Len(logged) + 1)
  BY DEF LogCritical, Logged, NextEvent
<1> HIDE DEF r
<1>3. /\ Grows /\ Len(logged') = Len(logged) + 1 /\ logged'[Len(logged) + 1] = r
      /\ \A e \in 1..Len(logged') : e \in 1..Len(logged) \/ e = Len(logged) + 1
  BY <1>0, <1>1, <1>2, OneMore
<1>e. PICK x \in 1..Len(logged') : x = Len(logged) + 1
  BY <1>0, <1>3
<1>4. \A i \in 1..Len(file) : file[i].ended => Told(i) # x /\ Told(i) < x
  BY <1>0, <1>e DEF LogInv, LinesWhole
<1>5. /\ file' \in Seq(LineSet) /\ previousHash' \in Seq(Nat)
      /\ LinesWhole' /\ LinesChained' /\ LinesInOrder' /\ HashKnown'
      /\ \A d \in Nat : OnDisk(d) => OnDisk(d)'
      /\ opened => OnDisk(x)'
      /\ \A i \in 1..Len(file') : file'[i].ended =>
           \/ i \in 1..Len(file) /\ file[i].ended /\ Told(i)' = Told(i)
           \/ Told(i)' = x
  BY <1>0, <1>2, <1>3, <1>e, <1>4, EntryGoesOut
<1>6. CriticalOnDisk'
  BY <1>1, <1>3, <1>e, <1>5, CriticalStays
<1>7. QueueInOrder'
  <2>1. \A k \in 1..Len(logQueue) : logQueue[k] \in 1..Len(logged) /\ ~logged[logQueue[k]].critical
    BY DEF LogInv, QueueInOrder, Ordinary
  <2>2. \A k \in 1..Len(logQueue) : logQueue[k] \in 1..Len(logged') /\ ~logged'[logQueue[k]].critical
    BY <1>0, <1>3, <2>1 DEF Grows
  <2>3. ASSUME NEW i \in 1..Len(file'), NEW k \in 1..Len(logQueue), file'[i].ended
        PROVE  Told(i)' # logQueue[k] /\ (Ordinary(Told(i))' => Told(i)' < logQueue[k])
    <3>1. CASE i \in 1..Len(file) /\ file[i].ended /\ Told(i)' = Told(i)
      <4>1. Told(i) \in 1..Len(logged)
        BY <3>1 DEF LogInv, LinesWhole
      <4>2. Ordinary(Told(i))' => Ordinary(Told(i))
        BY <1>3, <3>1, <4>1 DEF Grows, Ordinary
      <4> QED
        BY <3>1, <4>2 DEF LogInv, QueueInOrder
    <3>2. CASE Told(i)' = x
      <4>1. ~Ordinary(Told(i))'
        BY <1>1, <1>3, <1>e, <3>2 DEF Ordinary
      <4> QED
        BY <1>0, <1>e, <2>1, <3>2, <4>1
    <3> QED
      BY <1>5, <2>3, <3>1, <3>2
  <2>4. \A k, l \in 1..Len(logQueue) : k < l => logQueue[k] < logQueue[l]
    BY DEF LogInv, QueueInOrder
  <2> QED
    BY <1>0, <2>2, <2>3, <2>4 DEF QueueInOrder, Ordinary
<1>8. LogType'
  BY <1>0, <1>3, <1>5 DEF LogType, Grows
<1>9. SessionKept'
  <2>1. \A e \in 1..Len(logged) : logged'[e] = logged[e] /\ e \in Nat
    BY <1>3 DEF Grows
  <2>2. \A e \in 1..Len(logged') : logged'[e].by <= session'
    BY <1>0, <1>1, <1>3, <2>1 DEF LogInv, SessionKept
  <2>3. \A e \in 1..Len(logged') :
          logged'[e].by = session' /\ logged'[e].open => OnDisk(e)' \/ Waiting(e)'
    <3>1. ASSUME NEW e \in 1..Len(logged), logged'[e].by = session', logged'[e].open
          PROVE  OnDisk(e)' \/ Waiting(e)'
      <4>1. OnDisk(e) \/ Waiting(e)
        BY <1>0, <2>1, <3>1 DEF LogInv, SessionKept
      <4>2. Waiting(e) => Waiting(e)'
        BY <1>0 DEF Waiting
      <4> QED
        BY <1>5, <2>1, <4>1, <4>2
    <3>2. logged'[x].open => OnDisk(x)'
      BY <1>1, <1>3, <1>e, <1>5
    <3> QED
      BY <1>3, <1>e, <3>1, <3>2
  <2>4. phase' # "ended" => \A e \in 1..Len(logged') :
          logged'[e].by = session' /\ logged'[e].open => opened'
    BY <1>0, <1>1, <1>3, <2>1 DEF LogInv, SessionKept
  <2>5. worker' = "exited" =>
          stopThread' /\ \A k \in 1..Len(logQueue') : logged'[logQueue'[k]].late
    <3>1. \A k \in 1..Len(logQueue) : logQueue[k] \in 1..Len(logged)
      BY DEF LogInv, QueueInOrder
    <3> QED
      BY <1>0, <2>1, <3>1 DEF LogInv, SessionKept
  <2>6. phase' = "ended" => worker' = "exited"
    BY <1>0 DEF LogInv, SessionKept
  <2> QED
    BY <2>2, <2>3, <2>4, <2>5, <2>6 DEF SessionKept
<1> QED
  BY <1>5, <1>6, <1>7, <1>8, <1>9 DEF LogInv

\* The worker or FlushPending writes the head of the queue.
LEMMA HeadWritten ==
    ASSUME LogInv, Up, phase # "ended", logQueue # <<>>, WriteEntry(Head(logQueue)),
           logQueue' = Tail(logQueue), UNCHANGED <<process, stopThread, worker, logged>>
    PROVE  LogInv'
<1>0. /\ LogType /\ session' = session /\ opened' = opened /\ phase' = phase /\ logged' = logged
      /\ stopThread' = stopThread /\ worker' = worker /\ logQueue \in Seq(Nat)
      /\ Len(logged) \in Nat /\ logged \in Seq(EntrySet)
  BY DEF LogInv, LogType, process
<1>1. /\ Len(logQueue) > 0 /\ Len(logQueue) \in Nat /\ Head(logQueue) = logQueue[1]
      /\ Len(logQueue') = Len(logQueue) - 1 /\ logQueue' \in Seq(Nat)
      /\ \A k \in 1..(Len(logQueue) - 1) : logQueue'[k] = logQueue[k + 1]
  BY <1>0
<1>2. Grows
  BY <1>0 DEF Grows
<1>3. PICK x \in 1..Len(logged) : x = logQueue[1] /\ ~logged[x].critical
  BY <1>1 DEF LogInv, QueueInOrder, Ordinary
<1>4. \A i \in 1..Len(file) : file[i].ended =>
         Told(i) # x /\ (Ordinary(Told(i)) => Told(i) < x)
  BY <1>1, <1>3 DEF LogInv, QueueInOrder
<1>5. /\ file' \in Seq(LineSet) /\ previousHash' \in Seq(Nat)
      /\ LinesWhole' /\ LinesChained' /\ LinesInOrder' /\ HashKnown'
      /\ \A d \in Nat : OnDisk(d) => OnDisk(d)'
      /\ opened => OnDisk(x)'
      /\ \A i \in 1..Len(file') : file'[i].ended =>
           \/ i \in 1..Len(file) /\ file[i].ended /\ Told(i)' = Told(i)
           \/ Told(i)' = x
  BY <1>0, <1>1, <1>2, <1>3, <1>4, EntryGoesOut
<1>6. CriticalOnDisk'
  BY <1>0, <1>2, <1>5, CriticalStays
<1>7. \A k \in 1..Len(logQueue') : k + 1 \in 1..Len(logQueue) /\ logQueue'[k] = logQueue[k + 1]
                                     /\ logQueue[k + 1] > x
  <2>1. \A k \in 1..Len(logQueue') : k + 1 \in 1..Len(logQueue) /\ logQueue'[k] = logQueue[k + 1] /\ 1 < k + 1
    BY <1>1
  <2>2. 1 \in 1..Len(logQueue)
    BY <1>1
  <2>3. \A l \in 1..Len(logQueue) : 1 < l => logQueue[1] < logQueue[l]
    BY <2>2 DEF LogInv, QueueInOrder
  <2>4. \A l \in 1..Len(logQueue) : logQueue[l] \in Nat
    BY <1>0
  <2> QED
    BY <1>3, <2>1, <2>3, <2>4
<1>8. QueueInOrder'
  <2>1. \A k \in 1..Len(logQueue') : logQueue'[k] \in 1..Len(logged) /\ ~logged[logQueue'[k]].critical
    BY <1>7 DEF LogInv, QueueInOrder, Ordinary
  <2>2. \A k, l \in 1..Len(logQueue') : k < l => logQueue'[k] < logQueue'[l]
    <3>1. \A k, l \in 1..Len(logQueue') : k < l => k + 1 < l + 1
      BY <1>1
    <3> QED
      BY <1>7, <3>1 DEF LogInv, QueueInOrder
  <2>3. ASSUME NEW i \in 1..Len(file'), NEW k \in 1..Len(logQueue'), file'[i].ended
        PROVE  Told(i)' # logQueue'[k] /\ (~logged[Told(i)'].critical => Told(i)' < logQueue'[k])
    <3>1. CASE i \in 1..Len(file) /\ file[i].ended /\ Told(i)' = Told(i)
      BY <1>7, <3>1 DEF LogInv, QueueInOrder, Ordinary
    <3>2. CASE Told(i)' = x
      BY <1>7, <3>2, <2>1
    <3> QED
      BY <1>5, <2>3, <3>1, <3>2
  <2> QED
    BY <1>0, <2>1, <2>2, <2>3 DEF QueueInOrder, Ordinary
<1>9. SessionKept'
  <2>1. \A e \in 1..Len(logged) :
          logged[e].by = session /\ logged[e].open => OnDisk(e)' \/ Waiting(e)'
    <3> SUFFICES ASSUME NEW e \in 1..Len(logged), logged[e].by = session, logged[e].open
                 PROVE  OnDisk(e)' \/ Waiting(e)'
      OBVIOUS
    <3>1. opened /\ (OnDisk(e) \/ Waiting(e)) /\ e \in Nat
      BY DEF LogInv, SessionKept
    <3>2. CASE OnDisk(e)
      BY <1>5, <3>1, <3>2
    <3>3. CASE Waiting(e)
      <4>1. PICK k \in 1..Len(logQueue) : logQueue[k] = e
        BY <3>3 DEF Waiting
      <4>2. CASE k = 1
        BY <1>3, <1>5, <3>1, <4>1, <4>2
      <4>3. CASE k # 1
        <5>1. k - 1 \in 1..Len(logQueue') /\ logQueue'[k - 1] = e
          BY <1>1, <4>1, <4>3
        <5> QED
          BY <5>1 DEF Waiting
      <4> QED
        BY <4>2, <4>3
    <3> QED
      BY <3>1, <3>2, <3>3
  <2>2. worker = "exited" => stopThread /\ \A k \in 1..Len(logQueue') : logged[logQueue'[k]].late
    BY <1>7 DEF LogInv, SessionKept
  <2> QED
    BY <1>0, <2>1, <2>2 DEF LogInv, SessionKept
<1>10. LogType'
  BY <1>0, <1>1, <1>5 DEF LogType
<1> QED
  BY <1>5, <1>6, <1>8, <1>9, <1>10 DEF LogInv

\* A step that neither writes nor logs
LEMMA QuietStep ==
    ASSUME LogInv, LogType', UNCHANGED <<session, logQueue, file, logged>>,
           Up' => Up /\ (previousHash' = previousHash /\ (opened' => opened)),
           Up' /\ phase' # "ended" => phase # "ended" /\ opened' = opened,
           Up' /\ worker' = "exited" =>
              stopThread' /\ (worker = "exited" \/ logQueue = <<>>),
           phase' = "ended" => worker' = "exited"
    PROVE  LogInv'
<1>0. LogType /\ session \in Nat /\ session' \in Nat /\ session <= session'
  BY DEF LogInv, LogType
<1>1. Grows
  BY <1>0 DEF Grows, LogType
<1>2. /\ LinesWhole' /\ LinesChained' /\ LinesInOrder'
      /\ \A e \in Nat : OnDisk(e) => OnDisk(e)'
  BY <1>0, <1>1, FileStays
<1>3. CriticalOnDisk'
  BY <1>1, <1>2, CriticalStays
<1>4. QueueInOrder'
  BY <1>1, QueueStays DEF Told
<1>5. HashKnown'
  <2>1. Up' /\ opened' => Up /\ opened /\ previousHash' = previousHash
    OBVIOUS
  <2> QED
    BY <2>1 DEF HashKnown, LogInv
<1>6. SessionKept'
  <2>1. Up' => \A e \in 1..Len(logged) :
          logged[e].by = session /\ logged[e].open => OnDisk(e)' \/ Waiting(e)'
    BY DEF LogInv, SessionKept, OnDisk, Waiting, Told
  <2>2. Up' /\ phase' # "ended" => \A e \in 1..Len(logged) :
          logged[e].by = session /\ logged[e].open => opened'
    BY DEF LogInv, SessionKept
  <2>3. Up' /\ worker' = "exited" =>
          stopThread' /\ \A k \in 1..Len(logQueue) : logged[logQueue[k]].late
    BY DEF LogInv, SessionKept
  <2> QED
    BY <2>1, <2>2, <2>3 DEF LogInv, SessionKept
<1> QED
  BY <1>2, <1>3, <1>4, <1>5, <1>6 DEF LogInv

\* A process that dies in the middle of a line leaves the lines before it whole.
LEMMA DiesWritingKeeps == LogInv /\ DiesWriting => LogInv'
<1> SUFFICES ASSUME LogInv, DiesWriting PROVE LogInv'
  OBVIOUS
<1>0. /\ LogType /\ Up /\ opened /\ phase' = "down" /\ opened' = FALSE /\ session' = session
      /\ logged' = logged /\ logQueue' = logQueue /\ stopThread' = stopThread /\ worker' = worker
      /\ previousHash' = previousHash /\ Len(logged) \in Nat /\ logQueue \in Seq(Nat)
  BY DEF LogInv, LogType, DiesWriting
<1>1. Grows
  BY <1>0 DEF Grows, LogType
<1>2. PICK isCut \in BOOLEAN :
         \/ logQueue # <<>> /\ file' = Written(Text(Head(logQueue), isCut, FALSE))
         \/ file' = Written(Text(NextEvent, isCut, FALSE))
  BY DEF DiesWriting
<1>3. PICK x \in Nat : /\ file' = Written(Text(x, isCut, FALSE))
                       /\ \A i \in 1..Len(file) : file[i].ended =>
                            Told(i) # x /\ (Ordinary(Told(i)) => Told(i) < x)
  <2>1. CASE logQueue # <<>> /\ file' = Written(Text(Head(logQueue), isCut, FALSE))
    <3>1. 1 \in 1..Len(logQueue) /\ Head(logQueue) = logQueue[1] /\ logQueue[1] \in Nat
      BY <1>0, <2>1
    <3>2. \A i \in 1..Len(file) : file[i].ended =>
            Told(i) # logQueue[1] /\ (Ordinary(Told(i)) => Told(i) < logQueue[1])
      BY <3>1 DEF LogInv, QueueInOrder
    <3> QED
      BY <2>1, <3>1, <3>2
  <2>2. CASE file' = Written(Text(NextEvent, isCut, FALSE))
    <3>1. \A i \in 1..Len(file) : file[i].ended => Told(i) \in 1..Len(logged)
      BY DEF LogInv, LinesWhole
    <3>2. NextEvent \in Nat /\ \A i \in 1..Len(file) : file[i].ended =>
            Told(i) # NextEvent /\ Told(i) < NextEvent
      BY <1>0, <3>1 DEF NextEvent
    <3> QED
      BY <2>2, <3>2
  <2> QED
    BY <1>2, <2>1, <2>2
<1>4. LinesChained'
  BY <1>0, <1>3, ChainGrows
<1>5. /\ LinesWhole' /\ LinesInOrder'
      /\ \A d \in Nat : OnDisk(d) => OnDisk(d)'
      /\ \A i \in 1..Len(file') : file'[i].ended =>
           i \in 1..Len(file) /\ file[i].ended /\ Told(i)' = Told(i)
  BY <1>0, <1>1, <1>3, OrderGrows
<1>6. file' \in Seq(LineSet)
  BY <1>0, <1>3, LineWritten DEF LogInv
<1>7. CriticalOnDisk'
  BY <1>0, <1>1, <1>5, CriticalStays
<1>8. QueueInOrder'
  BY <1>0, <1>1, <1>5, QueueStays
<1>9. HashKnown' /\ SessionKept'
  BY <1>0 DEF HashKnown, SessionKept, Up, LogInv
<1>10. LogType'
  BY <1>0, <1>6 DEF LogType
<1> QED
  BY <1>4, <1>5, <1>7, <1>8, <1>9, <1>10 DEF LogInv

----------------------------------------------------------------------------
\* Every step of the log keeps what is said of it.
LEMMA AuditStep == LogInv /\ [AuditNext]_auditVars => LogInv'
<1> SUFFICES ASSUME LogInv, [AuditNext]_auditVars PROVE LogInv'
  OBVIOUS
<1>0. LogType /\ (phase = "ended" => worker = "exited")
  BY DEF LogInv, SessionKept
<1>1. CASE StartSession
  BY <1>1, StartSessionKeeps
<1>2. CASE LogEvent
  BY <1>2, LogEventKeeps
<1>3. CASE LogCritical
  BY <1>3, LogCriticalKeeps
<1>4. CASE ProcessQueue
  <2>1. phase # "ended"
    BY <1>0, <1>4 DEF ProcessQueue
  <2> QED
    BY <1>4, <2>1, HeadWritten DEF ProcessQueue
<1>5. CASE FlushPending
  BY <1>5, HeadWritten DEF FlushPending, Up
<1>6. CASE WorkerSleeps
  <2>1. LogType'
    BY <1>0, <1>6 DEF WorkerSleeps, process, LogType
  <2> QED
    BY <1>0, <1>6, <2>1, QuietStep DEF WorkerSleeps, process, Up
<1>7. CASE WorkerExits
  <2>1. LogType'
    BY <1>0, <1>7 DEF WorkerExits, process, LogType
  <2> QED
    BY <1>0, <1>7, <2>1, QuietStep DEF WorkerExits, process, Up
<1>8. CASE Shutdown
  <2>1. LogType'
    BY <1>0, <1>8 DEF Shutdown, LogType
  <2>2. worker = "exited" => stopThread
    BY <1>8 DEF Shutdown, LogInv, SessionKept, Up
  <2> QED
    BY <1>0, <1>8, <2>1, <2>2, QuietStep DEF Shutdown, Up
<1>9. CASE Flushed
  <2>1. LogType'
    BY <1>0, <1>9 DEF Flushed, LogType
  <2>2. worker = "exited" => stopThread
    BY <1>9 DEF Flushed, LogInv, SessionKept, Up
  <2> QED
    BY <1>0, <1>9, <2>1, <2>2, QuietStep DEF Flushed, Up
<1>10. CASE StopWorker
  <2>1. LogType' /\ (worker' = "exited" => worker = "exited")
    BY <1>0, <1>10 DEF StopWorker, Woken, LogType
  <2> QED
    BY <1>0, <1>10, <2>1, QuietStep DEF StopWorker, Up
<1>11. CASE JoinWorker
  <2>1. LogType'
    BY <1>0, <1>11 DEF JoinWorker, LogType
  <2>2. stopThread
    BY <1>11 DEF JoinWorker, LogInv, SessionKept, Up
  <2> QED
    BY <1>0, <1>11, <2>1, <2>2, QuietStep DEF JoinWorker, Up
<1>12. CASE ProcessDies
  <2>1. LogType'
    BY <1>0, <1>12 DEF ProcessDies, LogType
  <2> QED
    BY <1>0, <1>12, <2>1, QuietStep DEF ProcessDies, Up
<1>13. CASE DiesWriting
  BY <1>13, DiesWritingKeeps
<1>14. CASE UNCHANGED auditVars
  <2>1. LogType'
    BY <1>0, <1>14 DEF auditVars, process, LogType
  <2>2. Up /\ worker = "exited" => stopThread
    BY DEF LogInv, SessionKept
  <2> QED
    BY <1>0, <1>14, <2>1, <2>2, QuietStep DEF auditVars, process, Up
<1> QED
  BY <1>1, <1>2, <1>3, <1>4, <1>5, <1>6, <1>7, <1>8, <1>9, <1>10, <1>11, <1>12, <1>13, <1>14
     DEF AuditNext, Over

\* What is said of the log holds in every state.
THEOREM LogKept == AuditSpec => []LogInv
  BY LogStarts, AuditStep, PTL DEF AuditSpec

\* audit_logger.cpp WriteEntryLocked: what a session leaves in the file is one
\* chain with every event at most once and the ordinary ones in order, whichever
\* of the worker, FlushPending and the callers of critical events wrote a line.
THEOREM OneLogPerSession == AuditSpec => []SessionIsOneLog
<1>1. ASSUME LogInv PROVE SessionIsOneLog
  <2>1. OneChainPerSession
    BY <1>1 DEF LogInv, LinesChained
  <2>2. InOrderOnce
    <3>1. DOMAIN file = 1..Len(file) /\ DOMAIN logged = 1..Len(logged) /\ Len(file) \in Nat
      BY <1>1 DEF LogInv, LogType
    <3> SUFFICES ASSUME NEW i \in 1..Len(file), NEW j \in 1..Len(file),
                        NEW d \in Events, NEW e \in Events, i < j, Holds(i, d), Holds(j, e)
                 PROVE  /\ d # e
                        /\ d \in DOMAIN logged /\ e \in DOMAIN logged
                             /\ ~logged[d].critical /\ ~logged[e].critical => d < e
      BY <3>1 DEF InOrderOnce
    <3>2. Told(i) = d /\ Told(j) = e /\ ~file[j].cut
      BY DEF Holds, Told
    <3> QED
      BY <1>1, <3>2 DEF LogInv, LinesInOrder, Ordinary
  <2> QED
    BY <2>1, <2>2 DEF SessionIsOneLog
<1> QED
  BY <1>1, LogKept, PTL

\* audit_logger.h CA-028: a critical event is on disk when its call returns and
\* stays there, whatever happens to the process next.
THEOREM CriticalKept == AuditSpec => []CriticalIsDurable
<1>1. ASSUME LogInv PROVE CriticalIsDurable
  <2>0. DOMAIN logged = 1..Len(logged)
    BY <1>1 DEF LogInv, LogType
  <2> SUFFICES ASSUME NEW e \in 1..Len(logged), logged[e].critical, logged[e].open
               PROVE  \E i \in DOMAIN file : Holds(i, e)
    BY <2>0 DEF CriticalIsDurable
  <2>1. PICK i \in 1..Len(file) : file[i].ended /\ Told(i) = e
    BY <1>1 DEF LogInv, CriticalOnDisk, OnDisk
  <2> QED
    BY <1>1, <2>1 DEF LogInv, LogType, LinesWhole, Holds, Told
<1> QED
  BY <1>1, LogKept, PTL

\* Shutdown leaves every event of the session in the file that was logged before
\* the worker was told to stop.
THEOREM NothingLostAtShutdown == AuditSpec => []ShutdownKeepsAll
<1>1. ASSUME LogInv PROVE ShutdownKeepsAll
  <2>0. DOMAIN logged = 1..Len(logged)
    BY <1>1 DEF LogInv, LogType
  <2> SUFFICES ASSUME phase = "ended", NEW e \in 1..Len(logged), logged[e].by = session,
                      logged[e].open, ~logged[e].late
               PROVE  \E i \in DOMAIN file : Holds(i, e)
    BY <2>0 DEF ShutdownKeepsAll
  <2>1. Up /\ worker = "exited"
    BY <1>1 DEF LogInv, SessionKept, Up
  <2>2. ~Waiting(e)
    BY <1>1, <2>1 DEF LogInv, SessionKept, Waiting
  <2>3. OnDisk(e)
    BY <1>1, <2>1, <2>2 DEF LogInv, SessionKept
  <2>4. PICK i \in 1..Len(file) : file[i].ended /\ Told(i) = e
    BY <2>3 DEF OnDisk
  <2> QED
    BY <1>1, <2>4 DEF LogInv, LogType, LinesWhole, Holds, Told
<1> QED
  BY <1>1, LogKept, PTL

\* Both promises of the log together: critical events at their return, the rest
\* at a clean shutdown.
THEOREM PromisesKept == AuditSpec => []PromisedIsKept
  BY CriticalKept, NothingLostAtShutdown, PTL DEF PromisedIsKept

----------------------------------------------------------------------------
(* Raw imaging                                                             *)

Keys == [Windows -> Values]
Sidecars == [done : 0..NSectors, key : Keys, md5 : Data, source : Sources, stopped : BOOLEAN]
Copying == {"read", "write", "saveStop", "replace", "rename"}
States == Copying \cup {"idle", "decide", "verify", "append", "discard", "create",
                        "saveError", "finish"}

ImagingType ==
    /\ source \in Sources
    /\ part \in Data /\ dest \in Data /\ side \in Sidecars
    /\ pc \in States /\ isRunning \in BOOLEAN
    /\ srcKey \in Keys /\ sector \in 0..NSectors
    /\ buffer \in Data /\ rawMd5 \in Data /\ lastImageMd5 \in Data

\* What can have been copied from a source: its sectors, or those of one that
\* it cannot be told from, and zeros where a read may fail.
Copy(data, s) ==
    \A i \in 1..Len(data) :
        \/ i \in Bad /\ data[i] = 0
        \/ \E t \in Sources : Confusable(t, s) /\ data[i] = t[i]

\* A key tells what of the source could be read.
KeyOf(key, s) == \A w \in Windows \ Bad : key[w] = s[w]

\* The file, the hash and the loop counter say the same of a run that copies;
\* a run that resumes has a .part of the sidecar's length, and once verified of
\* its content.
Hashed ==
    /\ pc = "create" => part = <<>> /\ ~side.stopped
    /\ pc \in Copying => part = rawMd5 /\ Len(part) = sector
    /\ pc \in {"write", "saveError"} => sector < NSectors
    /\ pc = "write" => Len(buffer) = ChunkLen
    /\ pc \in {"replace", "rename"} => sector = NSectors
    /\ pc = "finish" => dest = rawMd5 /\ Len(dest) = NSectors
    /\ pc = "verify" => side.done > 0 /\ side.key = srcKey /\ Len(part) = side.done
    /\ pc = "append" => part = side.md5 /\ Len(part) = side.done
    /\ lastImageMd5 # <<>> => pc = "idle" /\ lastImageMd5 = dest /\ Len(dest) = NSectors

\* What is copied or recorded is a copy of its source.
Copied ==
    /\ pc # "idle" => KeyOf(srcKey, source)
    /\ pc \in Copying \cup {"saveError"} => Copy(rawMd5, source)
    /\ pc = "append" => Copy(part, source)
    /\ pc = "write" => \A i \in 1..Len(buffer) :
                         buffer[i] = source[sector + i] \/ (sector + i \in Bad /\ buffer[i] = 0)
    /\ side.done > 0 => Copy(side.md5, side.source) /\ KeyOf(side.key, side.source)

\* The .part of a stopped run still begins with what its sidecar hashed.
StoppedKept ==
    side.stopped => /\ Len(side.md5) = side.done /\ Len(part) >= side.done
                    /\ Prefix(part, side.done) = side.md5

ImagingInv == ImagingType /\ Hashed /\ Copied /\ StoppedKept

----------------------------------------------------------------------------
(* Operators of the model                                                  *)

\* The sizes, the windows and the contents of the sources
LEMMA SectorFacts ==
    /\ NSectors \in Nat /\ NSectors > 0 /\ Chunk \in Nat /\ Chunk > 0
    /\ Windows \subseteq Sectors /\ Sample \in Sectors /\ Sectors = 1..NSectors
    /\ 0 \in Values /\ \A s \in Sources, i \in Sectors : s[i] \in Values
<1>1. NSectors \in Nat /\ NSectors > 0 /\ Chunk \in Nat /\ Chunk > 0
  BY ImagingAssumption
<1>2. NSectors \div 2 + 1 \in 1..NSectors
  BY <1>1
<1>3. Windows \subseteq Sectors /\ Sample \in Sectors /\ Sectors = 1..NSectors
  BY <1>1, <1>2 DEF Windows, Sample, Sectors
<1>4. 0 \in Values /\ \A s \in Sources, i \in Sectors : s[i] \in Values
  <2>1. ASSUME NEW s \in Sources, NEW i \in Sectors PROVE s[i] \in Values
    <3>1. s[i] \in {s[j] : j \in Sectors}
      OBVIOUS
    <3> QED
      BY <3>1 DEF Values
  <2> QED
    BY <2>1 DEF Values
<1> QED
  BY <1>1, <1>3, <1>4

\* The key of a source, whatever windows could not be read
LEMMA KeyOfSource ==
    ASSUME NEW s \in Sources, NEW failed \in SUBSET (Bad \cap Windows)
    PROVE  SourceKey(s, failed) \in Keys /\ KeyOf(SourceKey(s, failed), s)
  BY SectorFacts DEF SourceKey, Keys, KeyOf

\* Data that is appended follows what was there.
LEMMA Appended ==
    ASSUME NEW a \in Data, NEW b \in Data
    PROVE  /\ a \o b \in Data /\ Len(a \o b) = Len(a) + Len(b)
           /\ \A i \in 1..Len(a) : (a \o b)[i] = a[i]
           /\ \A i \in 1..Len(b) : (a \o b)[Len(a) + i] = b[i]
           /\ Len(a) \in Nat /\ Len(b) \in Nat
  BY DEF Data

\* The beginning of data
LEMMA Cut ==
    ASSUME NEW a \in Data, NEW n \in 0..Len(a)
    PROVE  /\ Prefix(a, n) \in Data /\ Len(Prefix(a, n)) = n
           /\ \A i \in 1..n : Prefix(a, n)[i] = a[i]
           /\ n = Len(a) => Prefix(a, n) = a
           /\ Prefix(Prefix(a, n), n) = Prefix(a, n)
  BY DEF Data, Prefix

\* What is appended leaves the beginning as it was.
LEMMA PrefixStays ==
    ASSUME NEW a \in Data, NEW b \in Data, NEW n \in 0..Len(a)
    PROVE  Len(a \o b) >= n /\ Prefix(a \o b, n) = Prefix(a, n)
  BY DEF Data, Prefix

\* A source can be told from itself by nothing, and if it can be told neither
\* from a second nor that from a third, it cannot be told from the third.
LEMMA Alike ==
    /\ \A s \in Sources : Confusable(s, s)
    /\ \A s, t, u \in Sources : Confusable(s, t) /\ Confusable(t, u) => Confusable(s, u)
  BY DEF Confusable

LEMMA CopyOfAlike ==
    ASSUME NEW s \in Sources, NEW t \in Sources, Confusable(s, t), NEW d, Copy(d, s)
    PROVE  Copy(d, t)
  BY Alike DEF Copy

\* Where a sector can be read, a copy that begins at it has that sector.
LEMMA SampleOfCopy ==
    ASSUME NEW s \in Sources, NEW d \in Data, Copy(d, s), Len(d) >= Sample, Sample \notin Bad
    PROVE  d[Sample] = s[Sample]
  BY DEF Copy, Confusable, Sample, Data

----------------------------------------------------------------------------
(* The steps                                                               *)

\* Nothing was imaged yet.
LEMMA ImagingStarts == ImagingInit => ImagingInv
<1> SUFFICES ASSUME ImagingInit PROVE ImagingInv
  OBVIOUS
<1>1. NoSidecar \in Sidecars /\ NoSidecar.key \in Keys /\ NoSidecar.done = 0 /\ ~NoSidecar.stopped
  <2>1. (CHOOSE s \in Sources : TRUE) \in Sources
    BY DEF ImagingInit
  <2>2. [w \in Windows |-> 0] \in Keys /\ <<>> \in Data /\ 0 \in 0..NSectors
    BY SectorFacts DEF Keys, Data
  <2> QED
    BY <2>1, <2>2 DEF NoSidecar, Sidecars
<1>2. ImagingType
  <2>1. <<>> \in Data /\ 0 \in 0..NSectors
    BY SectorFacts DEF Data
  <2> QED
    BY <1>1, <2>1 DEF ImagingInit, ImagingType, States
<1>3. Hashed /\ Copied /\ StoppedKept
  BY <1>1 DEF ImagingInit, Hashed, Copied, StoppedKept, Copying
<1> QED
  BY <1>2, <1>3 DEF ImagingInv

\* The empty sidecar
LEMMA NoSidecarFacts ==
    ASSUME ImagingType
    PROVE  NoSidecar \in Sidecars /\ NoSidecar.done = 0 /\ ~NoSidecar.stopped
<1>1. (CHOOSE s \in Sources : TRUE) \in Sources
  BY DEF ImagingType
<1>2. [w \in Windows |-> 0] \in Keys /\ <<>> \in Data /\ 0 \in 0..NSectors
  BY SectorFacts DEF Keys, Data
<1> QED
  BY <1>1, <1>2 DEF NoSidecar, Sidecars

\* A step that leaves the sidecar as it is, forgets a stop or empties it
\* leaves in it a copy of its source; and what it kept of a stop stays kept as
\* long as the .part keeps its beginning.
LEMMA SidecarKept ==
    ASSUME ImagingInv,
           \/ side' = side \/ side' = [side EXCEPT !.stopped = FALSE] \/ side' = NoSidecar
    PROVE  /\ side' \in Sidecars
           /\ side'.done > 0 => Copy(side'.md5, side'.source) /\ KeyOf(side'.key, side'.source)
           /\ side'.stopped => side' = side
<1>1. CASE side' = side
  BY <1>1 DEF ImagingInv, ImagingType, Copied
<1>2. CASE side' = [side EXCEPT !.stopped = FALSE]
  <2>1. side \in Sidecars
    BY DEF ImagingInv, ImagingType
  <2>2. side' \in Sidecars /\ ~side'.stopped /\ side'.done = side.done /\ side'.md5 = side.md5
        /\ side'.key = side.key /\ side'.source = side.source
    BY <1>2, <2>1 DEF Sidecars
  <2> QED
    BY <2>2 DEF ImagingInv, Copied
<1>3. CASE side' = NoSidecar
  BY <1>3, NoSidecarFacts DEF ImagingInv
<1> QED
  BY <1>1, <1>2, <1>3

\* Data appended to the .part leaves what was kept of a stop.
LEMMA StoppedKeptAppending ==
    ASSUME ImagingInv, side' = side \/ side' = NoSidecar,
           NEW b \in Data, part' = part \o b
    PROVE  StoppedKept'
<1>1. CASE side' = NoSidecar
  BY <1>1, NoSidecarFacts DEF StoppedKept, ImagingInv
<1>2. CASE side' = side
  <2> SUFFICES ASSUME side.stopped
               PROVE  Len(side.md5) = side.done /\ Len(part') >= side.done
                      /\ Prefix(part', side.done) = side.md5
    BY <1>2 DEF StoppedKept
  <2>1. part \in Data /\ side.done \in 0..Len(part)
    <3>1. part \in Data /\ side.done \in Nat /\ Len(part) \in Nat /\ Len(part) >= side.done
      BY SectorFacts DEF ImagingInv, ImagingType, StoppedKept, Sidecars, Data
    <3> QED
      BY <3>1
  <2> QED
    BY <2>1, PrefixStays DEF ImagingInv, StoppedKept
<1> QED
  BY <1>1, <1>2

\* The preparation of a run: what is left of an earlier one is trusted or not.
LEMMA Prepared ==
    ASSUME ImagingInv,
           StartImaging \/ ReadSidecar \/ VerifyPrefix \/ OpenToAppend \/ Discard \/ Create
    PROVE  ImagingInv'
<1> USE DEF States, Copying
<1>1. CASE StartImaging
  <2>1. UNCHANGED <<source, part, dest, side, sector, buffer, rawMd5>> /\ lastImageMd5' = <<>>
    BY <1>1 DEF StartImaging, files
  <2>2. \/ /\ pc' = "decide" /\ isRunning' = TRUE
           /\ srcKey' \in Keys /\ KeyOf(srcKey', source)
        \/ pc' = "idle" /\ isRunning' = FALSE /\ srcKey' = srcKey
    <3>1. source \in Sources
      BY DEF ImagingInv, ImagingType
    <3> QED
      BY <1>1, <3>1, KeyOfSource DEF StartImaging
  <2>3. ImagingType'
    <3>1. <<>> \in Data
      BY DEF Data
    <3> QED
      BY <2>1, <2>2, <3>1 DEF ImagingInv, ImagingType
  <2>4. Hashed' /\ Copied' /\ StoppedKept'
    BY <2>1, <2>2 DEF ImagingInv, Hashed, Copied, StoppedKept
  <2> QED
    BY <2>3, <2>4 DEF ImagingInv
<1>2. CASE ReadSidecar
  <2>1. UNCHANGED <<source, dest, side, isRunning, srcKey, sector, buffer, rawMd5, lastImageMd5>>
        /\ pc = "decide"
    BY <1>2 DEF ReadSidecar, run
  <2>2. CASE Claimed
    <3>1. part' = Prefix(part, side.done) /\ pc' = "verify" /\ side.done > 0 /\ side.key = srcKey
      BY <1>2, <2>2 DEF ReadSidecar, Claimed
    <3>2. part \in Data /\ side.done \in 0..Len(part)
      <4>1. part \in Data /\ Len(part) \in Nat /\ side.done \in Nat /\ side.done <= Len(part)
        BY <2>2, SectorFacts DEF Claimed, ImagingInv, ImagingType, Sidecars, Data
      <4> QED
        BY <4>1
    <3>3. part' \in Data /\ Len(part') = side.done /\ Prefix(part', side.done) = part'
      BY <3>1, <3>2, Cut
    <3>4. ImagingType'
      BY <2>1, <3>1, <3>3 DEF ImagingInv, ImagingType
    <3>5. Hashed' /\ Copied'
      BY <2>1, <3>1, <3>3 DEF ImagingInv, Hashed, Copied
    <3>6. StoppedKept'
      BY <2>1, <3>1, <3>2, <3>3 DEF ImagingInv, StoppedKept
    <3> QED
      BY <3>4, <3>5, <3>6 DEF ImagingInv
  <2>3. CASE ~Claimed
    BY <1>2, <2>1, <2>3 DEF ReadSidecar, ImagingInv, ImagingType, Hashed, Copied, StoppedKept
  <2> QED
    BY <2>2, <2>3
<1>3. CASE VerifyPrefix
  <2>1. UNCHANGED <<source, part, dest, side, isRunning, srcKey, sector, buffer, rawMd5, lastImageMd5>>
        /\ pc = "verify" /\ pc' \in {"append", "discard"}
        /\ (pc' = "append" => part = side.md5 /\ part[Sample] = source[Sample])
    BY <1>3 DEF VerifyPrefix, files, run
  <2>2. pc' = "append" => Copy(part, source)
    <3> SUFFICES ASSUME pc' = "append" PROVE Copy(part, source)
      OBVIOUS
    <3>1. /\ side.done > 0 /\ side.key = srcKey /\ Len(part) = side.done /\ part \in Data
          /\ side.source \in Sources /\ source \in Sources
          /\ KeyOf(srcKey, source) /\ KeyOf(side.key, side.source) /\ Copy(side.md5, side.source)
      BY <2>1 DEF ImagingInv, ImagingType, Hashed, Copied, Sidecars
    <3>2. \A w \in Windows \ Bad : side.source[w] = source[w]
      BY <3>1 DEF KeyOf
    <3>3. Sample \notin Bad => side.source[Sample] = source[Sample]
      <4>1. Len(part) >= Sample
        BY <3>1 DEF Sample, Data
      <4> QED
        BY <2>1, <3>1, <4>1, SampleOfCopy
    <3>4. Confusable(side.source, source)
      BY <3>2, <3>3 DEF Confusable
    <3> QED
      BY <2>1, <3>1, <3>4, CopyOfAlike
  <2>3. ImagingType'
    BY <2>1 DEF ImagingInv, ImagingType
  <2>4. Hashed' /\ Copied' /\ StoppedKept'
    BY <2>1, <2>2 DEF ImagingInv, Hashed, Copied, StoppedKept
  <2> QED
    BY <2>3, <2>4 DEF ImagingInv
<1>4. CASE OpenToAppend
  <2>1. UNCHANGED <<source, part, dest, side, isRunning, srcKey, buffer, lastImageMd5>> /\ pc = "append"
    BY <1>4 DEF OpenToAppend, files
  <2>2. CASE pc' = "read" /\ sector' = side.done /\ rawMd5' = ResumedMd5
    <3>1. rawMd5' = part /\ Len(part) = sector' /\ Copy(part, source) /\ part \in Data
          /\ sector' \in 0..NSectors
      BY <2>1, <2>2 DEF ResumedMd5, ImagingInv, ImagingType, Hashed, Copied, Sidecars
    <3> QED
      BY <2>1, <2>2, <3>1 DEF ImagingInv, ImagingType, Hashed, Copied, StoppedKept
  <2>3. CASE pc' = "discard" /\ UNCHANGED <<sector, rawMd5>>
    BY <2>1, <2>3 DEF ImagingInv, ImagingType, Hashed, Copied, StoppedKept
  <2> QED
    BY <1>4, <2>2, <2>3 DEF OpenToAppend
<1>5. CASE Discard
  <2>1. UNCHANGED <<source, dest, isRunning, srcKey, sector, buffer, rawMd5, lastImageMd5>>
        /\ part' = <<>> /\ pc' = "create" /\ pc = "discard" /\ <<>> \in Data
    BY <1>5 DEF Discard, run, Data
  <2>2. /\ side' \in Sidecars /\ ~side'.stopped
        /\ side'.done > 0 => Copy(side'.md5, side'.source) /\ KeyOf(side'.key, side'.source)
    <3>1. side' = [side EXCEPT !.stopped = FALSE] /\ side \in Sidecars
      BY <1>5 DEF Discard, ImagingInv, ImagingType
    <3>2. ~side'.stopped
      BY <3>1 DEF Sidecars
    <3> QED
      BY <3>1, <3>2, SidecarKept
  <2> QED
    BY <2>1, <2>2 DEF ImagingInv, ImagingType, Hashed, Copied, StoppedKept
<1>6. CASE Create
  <2>1. UNCHANGED <<source, part, dest, srcKey, buffer, lastImageMd5>> /\ pc = "create"
    BY <1>6 DEF Create
  <2>2. /\ side' \in Sidecars
        /\ side'.done > 0 => Copy(side'.md5, side'.source) /\ KeyOf(side'.key, side'.source)
        /\ side'.stopped => side' = side
    BY <1>6, SidecarKept DEF Create
  <2>3. part = <<>> /\ ~side'.stopped
    BY <2>1, <2>2 DEF ImagingInv, Hashed
  <2>4. CASE pc' = "read" /\ sector' = 0 /\ rawMd5' = <<>> /\ UNCHANGED isRunning
    <3>1. <<>> \in Data /\ Len(<<>>) = 0 /\ 0 \in 0..NSectors
      BY SectorFacts DEF Data
    <3>2. Copy(<<>>, source)
      BY DEF Copy
    <3> QED
      BY <2>1, <2>2, <2>3, <2>4, <3>1, <3>2
         DEF ImagingInv, ImagingType, Hashed, Copied, StoppedKept
  <2>5. CASE pc' = "idle" /\ isRunning' = FALSE /\ UNCHANGED <<sector, rawMd5>>
    BY <2>1, <2>2, <2>3, <2>5 DEF ImagingInv, ImagingType, Hashed, Copied, StoppedKept
  <2> QED
    BY <1>6, <2>4, <2>5 DEF Create
<1> QED
  BY <1>1, <1>2, <1>3, <1>4, <1>5, <1>6

\* A copy grows by the sectors that follow it.
LEMMA CopyGrows ==
    ASSUME NEW s \in Sources, NEW a \in Data, NEW b \in Data, Copy(a, s),
           \A i \in 1..Len(b) : b[i] = s[Len(a) + i] \/ (Len(a) + i \in Bad /\ b[i] = 0)
    PROVE  Copy(a \o b, s)
<1> DEFINE d == a \o b
<1>1. Len(d) = Len(a) + Len(b) /\ Len(a) \in Nat /\ Len(b) \in Nat
      /\ (\A i \in 1..Len(a) : d[i] = a[i]) /\ (\A i \in 1..Len(b) : d[Len(a) + i] = b[i])
  BY Appended
<1> HIDE DEF d
<1>2. ASSUME NEW i \in 1..Len(d)
      PROVE  (i \in Bad /\ d[i] = 0) \/ \E t \in Sources : Confusable(t, s) /\ d[i] = t[i]
  <2>1. CASE i \in 1..Len(a)
    BY <1>1, <2>1 DEF Copy
  <2>2. CASE i \notin 1..Len(a)
    <3>1. PICK j \in 1..Len(b) : i = Len(a) + j
      <4>1. i - Len(a) \in 1..Len(b) /\ i = Len(a) + (i - Len(a))
        BY <1>1, <2>2
      <4> QED
        BY <4>1
    <3>2. d[i] = s[i] \/ (i \in Bad /\ d[i] = 0)
      BY <1>1, <3>1
    <3> QED
      BY <3>2, Alike
  <2> QED
    BY <2>1, <2>2
<1>3. Copy(d, s)
  BY <1>2 DEF Copy
<1> QED
  BY <1>3 DEF d

\* The chunk loop: the file, the hash and the counter move together, and what
\* a stop or a failing write leaves in the sidecar is a copy of the source.
LEMMA ChunksCopied ==
    ASSUME ImagingInv,
           ReadChunk \/ WriteChunk \/ WriteFails \/ StopSeen \/ SaveResumePoint
    PROVE  ImagingInv'
<1> USE DEF States, Copying
<1>0. /\ source \in Sources /\ buffer \in Data /\ rawMd5 \in Data /\ part \in Data
      /\ sector \in Nat /\ sector <= NSectors /\ NSectors \in Nat /\ Chunk \in Nat /\ Chunk > 0
  BY SectorFacts DEF ImagingInv, ImagingType
<1>1. CASE ReadChunk
  <2>1. /\ UNCHANGED <<source, part, dest, side, isRunning, srcKey, sector, rawMd5, lastImageMd5>>
        /\ pc = "read" /\ pc' = "write" /\ sector < NSectors
    BY <1>1 DEF ReadChunk, files
  <2>2. PICK failed \in SUBSET (Bad \cap {s \in Sectors : s > sector /\ s <= sector + ChunkLen}) :
          buffer' = [i \in 1..ChunkLen |->
                       IF sector + i \in Sectors \ failed THEN source[sector + i] ELSE 0]
    BY <1>1 DEF ReadChunk
  <2>3. ChunkLen \in Nat /\ sector + ChunkLen <= NSectors /\ ChunkLen' = ChunkLen
    BY <1>0, <2>1 DEF ChunkLen
  <2>4. buffer' \in Data /\ Len(buffer') = ChunkLen
    <3>1. \A i \in 1..ChunkLen : buffer'[i] \in Values
      BY <1>0, <2>2, SectorFacts
    <3>2. buffer' \in [1..ChunkLen -> Values]
      BY <2>2, <3>1
    <3> QED
      BY <2>3, <3>2 DEF Data
  <2>5. ASSUME NEW i \in 1..Len(buffer')
        PROVE  buffer'[i] = source[sector + i] \/ (sector + i \in Bad /\ buffer'[i] = 0)
    <3>1. sector + i \in Sectors /\ i \in 1..ChunkLen
      BY <1>0, <2>3, <2>4 DEF Sectors
    <3>2. CASE sector + i \in failed
      BY <2>2, <3>1, <3>2
    <3>3. CASE sector + i \notin failed
      BY <2>2, <3>1, <3>3
    <3> QED
      BY <3>2, <3>3
  <2>6. ImagingType'
    BY <2>1, <2>4 DEF ImagingInv, ImagingType
  <2>7. Hashed' /\ Copied' /\ StoppedKept'
    BY <2>1, <2>3, <2>4, <2>5 DEF ImagingInv, Hashed, Copied, StoppedKept
  <2> QED
    BY <2>6, <2>7 DEF ImagingInv
<1>2. CASE WriteChunk
  <2>1. /\ UNCHANGED <<source, dest, side, isRunning, srcKey, lastImageMd5>>
        /\ pc = "write" /\ pc' = "read" /\ part' = part \o buffer /\ rawMd5' = rawMd5 \o buffer
        /\ sector' = sector + Len(buffer) /\ buffer' = <<>>
    BY <1>2 DEF WriteChunk
  <2>2. part = rawMd5 /\ Len(part) = sector /\ Copy(rawMd5, source) /\ Len(buffer) = ChunkLen
        /\ sector < NSectors
        /\ \A i \in 1..Len(buffer) :
             buffer[i] = source[sector + i] \/ (sector + i \in Bad /\ buffer[i] = 0)
    BY <2>1 DEF ImagingInv, Hashed, Copied
  <2>3. sector' \in 0..NSectors /\ <<>> \in Data
    BY <1>0, <2>1, <2>2 DEF ChunkLen, Data
  <2>4. part' \in Data /\ rawMd5' = part' /\ Len(part') = sector' /\ Copy(rawMd5', source)
    BY <1>0, <2>1, <2>2, Appended, CopyGrows
  <2>5. StoppedKept'
    BY <1>0, <2>1, StoppedKeptAppending
  <2> QED
    BY <2>1, <2>3, <2>4, <2>5 DEF ImagingInv, ImagingType, Hashed, Copied
<1>3. CASE WriteFails
  <2>1. /\ UNCHANGED <<source, dest, side, isRunning, srcKey, sector, lastImageMd5>>
        /\ pc = "write" /\ pc' = "saveError" /\ rawMd5' = rawMd5 \o buffer /\ buffer' = <<>>
    BY <1>3 DEF WriteFails
  <2>2. PICK n \in 0..(Len(buffer) - 1) : part' = part \o Prefix(buffer, n)
    BY <1>3 DEF WriteFails
  <2>3. part = rawMd5 /\ Len(part) = sector /\ Copy(rawMd5, source) /\ sector < NSectors
        /\ \A i \in 1..Len(buffer) :
             buffer[i] = source[sector + i] \/ (sector + i \in Bad /\ buffer[i] = 0)
    BY <2>1 DEF ImagingInv, Hashed, Copied
  <2>4. Prefix(buffer, n) \in Data /\ <<>> \in Data
    <3>1. n \in 0..Len(buffer)
      BY <1>0 DEF Data
    <3> QED
      BY <1>0, <3>1, Cut DEF Data
  <2>5. part' \in Data /\ rawMd5' \in Data /\ Copy(rawMd5', source)
    BY <1>0, <2>1, <2>2, <2>3, <2>4, Appended, CopyGrows
  <2>6. StoppedKept'
    BY <2>1, <2>2, <2>4, StoppedKeptAppending
  <2> QED
    BY <2>1, <2>3, <2>4, <2>5, <2>6 DEF ImagingInv, ImagingType, Hashed, Copied
<1>4. CASE StopSeen
  BY <1>4 DEF StopSeen, files, run, ImagingInv, ImagingType, Hashed, Copied, StoppedKept
<1>5. CASE SaveResumePoint
  <2>1. /\ UNCHANGED <<source, part, dest, srcKey, sector, buffer, rawMd5, lastImageMd5>>
        /\ pc \in {"saveStop", "saveError"} /\ pc' = "idle" /\ isRunning' = FALSE
    BY <1>5 DEF SaveResumePoint, run
  <2>2. CASE side' = Saved
    <3>1. /\ side'.done = sector /\ side'.key = srcKey /\ side'.md5 = rawMd5 /\ side'.source = source
          /\ side'.stopped = (pc = "saveStop") /\ side' \in Sidecars
      BY <2>2 DEF Saved, Sidecars, ImagingInv, ImagingType
    <3>2. Copy(rawMd5, source) /\ KeyOf(srcKey, source)
          /\ (pc = "saveStop" => part = rawMd5 /\ Len(part) = sector)
      BY <2>1 DEF ImagingInv, Hashed, Copied
    <3>3. StoppedKept'
      <4>1. pc = "saveStop" => Prefix(part, sector) = part /\ Len(part) >= sector
        BY <1>0, <3>2, Cut
      <4> QED
        BY <2>1, <3>1, <3>2, <4>1 DEF StoppedKept
    <3> QED
      BY <2>1, <3>1, <3>2, <3>3 DEF ImagingInv, ImagingType, Hashed, Copied
  <2>3. CASE side' \in {side, NoSidecar}
    <3>1. /\ side' \in Sidecars
          /\ side'.done > 0 => Copy(side'.md5, side'.source) /\ KeyOf(side'.key, side'.source)
          /\ side'.stopped => side' = side
      BY <2>3, SidecarKept
    <3> QED
      BY <2>1, <3>1 DEF ImagingInv, ImagingType, Hashed, Copied, StoppedKept
  <2> QED
    BY <1>5, <2>2, <2>3 DEF SaveResumePoint
<1> QED
  BY <1>1, <1>2, <1>3, <1>4, <1>5

\* The end of a run: as long as the close writes what was left, the image is
\* what was hashed, and the digest is published with it.
LEMMA Promoted ==
    ASSUME ImagingInv, "close" \notin MayFail, Close \/ RemoveDest \/ Rename \/ Finish
    PROVE  ImagingInv'
<1> USE DEF States, Copying
<1>1. CASE Close
  BY <1>1 DEF Close, run, ImagingInv, ImagingType, Hashed, Copied, StoppedKept
<1>2. CASE RemoveDest
  <2>1. <<>> \in Data
    BY DEF Data
  <2> QED
    BY <1>2, <2>1 DEF RemoveDest, run, ImagingInv, ImagingType, Hashed, Copied, StoppedKept
<1>3. CASE Rename
  <2>1. UNCHANGED <<source, srcKey, sector, buffer, rawMd5, lastImageMd5>> /\ pc = "rename"
        /\ <<>> \in Data
    BY <1>3 DEF Rename, run, Data
  <2>2. CASE dest' = part /\ part' = <<>> /\ side' = [side EXCEPT !.stopped = FALSE]
             /\ pc' = "finish" /\ UNCHANGED isRunning
    <3>1. /\ side' \in Sidecars /\ ~side'.stopped
          /\ side'.done > 0 => Copy(side'.md5, side'.source) /\ KeyOf(side'.key, side'.source)
      <4>1. ~side'.stopped
        BY <2>2 DEF ImagingInv, ImagingType, Sidecars
      <4> QED
        BY <2>2, <4>1, SidecarKept
    <3> QED
      BY <2>1, <2>2, <3>1 DEF ImagingInv, ImagingType, Hashed, Copied, StoppedKept
  <2>3. CASE pc' = "idle" /\ isRunning' = FALSE /\ UNCHANGED files
    BY <2>1, <2>3 DEF files, ImagingInv, ImagingType, Hashed, Copied, StoppedKept
  <2> QED
    BY <1>3, <2>2, <2>3 DEF Rename
<1>4. CASE Finish
  <2>1. UNCHANGED <<source, part, dest, srcKey, sector, buffer, rawMd5>> /\ pc = "finish"
        /\ lastImageMd5' = rawMd5 /\ pc' = "idle" /\ isRunning' = FALSE
    BY <1>4 DEF Finish, run
  <2>2. /\ side' \in Sidecars
        /\ side'.done > 0 => Copy(side'.md5, side'.source) /\ KeyOf(side'.key, side'.source)
        /\ side'.stopped => side' = side
    BY <1>4, SidecarKept DEF Finish
  <2> QED
    BY <2>1, <2>2 DEF ImagingInv, ImagingType, Hashed, Copied, StoppedKept
<1> QED
  BY <1>1, <1>2, <1>3, <1>4

\* A stop, a death, or another source changes nothing that was kept.
LEMMA Disturbed ==
    ASSUME ImagingInv,
           RequestStop \/ ImagerDies \/ ReplaceSource \/ Idle \/ UNCHANGED imagingVars
    PROVE  ImagingInv'
<1> USE DEF States, Copying
<1>1. CASE RequestStop \/ ReplaceSource \/ Idle \/ UNCHANGED imagingVars
  BY <1>1, ZenonT(30) DEF RequestStop, ReplaceSource, Idle, imagingVars, files, run,
              ImagingInv, ImagingType, Hashed, Copied, StoppedKept, ChunkLen
<1>2. CASE ImagerDies
  <2>1. /\ UNCHANGED <<source, dest, srcKey>> /\ pc' = "idle" /\ isRunning' = FALSE
        /\ sector' = 0 /\ buffer' = <<>> /\ rawMd5' = <<>> /\ lastImageMd5' = <<>>
        /\ side' = side \/ side' = NoSidecar
    BY <1>2 DEF ImagerDies
  <2>2. <<>> \in Data /\ 0 \in 0..NSectors
    BY SectorFacts DEF Data
  <2>3. part' \in Data /\ StoppedKept'
    <3>1. PICK b \in Data : part' = part \o b
      <4>1. CASE pc = "write"
        <5>1. PICK n \in 0..Len(buffer) : part' = part \o Prefix(buffer, n)
          BY <1>2, <4>1 DEF ImagerDies
        <5>2. Prefix(buffer, n) \in Data
          BY Cut DEF ImagingInv, ImagingType
        <5> QED
          BY <5>1, <5>2
      <4>2. CASE pc # "write"
        <5>1. part' = part /\ part \in Data
          BY <1>2, <4>2 DEF ImagerDies, ImagingInv, ImagingType
        <5>2. part \o <<>> = part /\ <<>> \in Data
          BY <5>1 DEF Data
        <5> QED
          BY <5>1, <5>2
      <4> QED
        BY <4>1, <4>2
    <3>2. part' \in Data
      BY <3>1, Appended DEF ImagingInv, ImagingType
    <3> QED
      BY <2>1, <3>1, <3>2, StoppedKeptAppending
  <2>4. /\ side' \in Sidecars
        /\ side'.done > 0 => Copy(side'.md5, side'.source) /\ KeyOf(side'.key, side'.source)
    BY <2>1, SidecarKept
  <2> QED
    BY <2>1, <2>2, <2>3, <2>4 DEF ImagingInv, ImagingType, Hashed, Copied
<1> QED
  BY <1>1, <1>2

LEMMA ImagingKept ==
    ASSUME ImagingInv, "close" \notin MayFail, [ImagingNext]_imagingVars PROVE ImagingInv'
  BY Prepared, ChunksCopied, Promoted, Disturbed DEF ImagingNext

----------------------------------------------------------------------------
(* The theorems                                                            *)

\* The type invariant and the rest of the inductive invariant.
THEOREM ImagingInvariant ==
    ASSUME "close" \notin MayFail PROVE ImagingSpec => []ImagingInv
<1>1. ImagingInv /\ [ImagingNext]_imagingVars => ImagingInv'
  BY ImagingKept
<1> QED
  BY <1>1, ImagingStarts, PTL DEF ImagingSpec

\* A published digest is that of every byte of the image, and the image is
\* whole: imaging_close shows that only a close that fails breaks this.
THEOREM DigestIsOfImage ==
    ASSUME "close" \notin MayFail PROVE ImagingSpec => [](DigestOfImage /\ VerifiedIsWhole)
<1>1. ImagingInv => DigestOfImage /\ VerifiedIsWhole
  BY DEF ImagingInv, Hashed, DigestOfImage, VerifiedIsWhole
<1> QED
  BY <1>1, ImagingInvariant, PTL

\* Through any stops, failures, deaths and swaps of sources, an image that is
\* promoted is byte for byte a copy of the source it is promoted for.
THEOREM ImageIsByteIdentical ==
    ASSUME "close" \notin MayFail PROVE ImagingSpec => ByteIdentical
<1> DEFINE Identical(d) ==
      /\ Len(d) = NSectors
      /\ \A i \in Sectors : \/ i \in Bad /\ d[i] = 0
                            \/ \E s \in Sources : Confusable(s, source) /\ d[i] = s[i]
<1>1. ASSUME ImagingInv, [ImagingNext]_imagingVars, dest' # dest, dest' # <<>>
      PROVE  Identical(dest')
  <2>1. CASE Rename
    <3>1. dest' = part /\ pc = "rename"
      BY <1>1, <2>1 DEF Rename, files
    <3>2. part = rawMd5 /\ Len(part) = NSectors /\ Copy(rawMd5, source)
      BY <1>1, <3>1 DEF ImagingInv, Hashed, Copied, Copying
    <3> QED
      BY <3>1, <3>2 DEF Copy, Sectors
  <2>2. CASE ~Rename
    <3>1. dest' = dest \/ dest' = <<>>
      BY <1>1, <2>2
         DEF ImagingNext, StartImaging, ReadSidecar, VerifyPrefix, OpenToAppend, Discard, Create,
             ReadChunk, WriteChunk, WriteFails, StopSeen, SaveResumePoint, Close, RemoveDest,
             Finish, RequestStop, ImagerDies, ReplaceSource, Idle, imagingVars, files
    <3> QED
      BY <1>1, <3>1
  <2> QED
    BY <2>1, <2>2
<1>2. ImagingInv /\ [ImagingNext]_imagingVars
        => [dest' # dest /\ dest' # <<>> => Identical(dest')]_imagingVars
  BY <1>1
<1> QED
  BY <1>2, ImagingInvariant, PTL DEF ImagingSpec, ByteIdentical

\* What a stopped run left is resumed from, unless the source was replaced or
\* what identifies it cannot be read.
THEOREM StoppedRunIsResumed ==
    ASSUME "close" \notin MayFail PROVE ImagingSpec => StoppedRunResumes
<1> DEFINE Trusted == side.stopped /\ side.done > 0 /\ side.source = source /\ Readable
<1>1. ASSUME ImagingInv, Trusted, pc' = "discard", pc \in {"decide", "verify"},
             [ImagingNext]_imagingVars
      PROVE  FALSE
  <2>0. ReadSidecar \/ VerifyPrefix
    BY <1>1 DEF ImagingNext, StartImaging, OpenToAppend, Discard, Create, ReadChunk, WriteChunk,
             WriteFails, StopSeen, SaveResumePoint, Close, RemoveDest, Rename, Finish,
             RequestStop, ImagerDies, ReplaceSource, Idle, imagingVars
  <2>1. /\ KeyOf(srcKey, source) /\ KeyOf(side.key, source) /\ Copy(side.md5, source)
        /\ Len(side.md5) = side.done /\ Len(part) >= side.done
        /\ Prefix(part, side.done) = side.md5
    BY <1>1 DEF ImagingInv, Copied, StoppedKept
  <2>2. srcKey \in Keys /\ side.key \in Keys /\ source \in Sources /\ part \in Data
        /\ side.md5 \in Data /\ side.done \in Nat
    BY <1>1, SectorFacts DEF ImagingInv, ImagingType, Sidecars
  <2>3. side.key = srcKey
    BY <1>1, <2>1, <2>2 DEF KeyOf, Keys, Readable
  <2>4. CASE ReadSidecar
    BY <1>1, <2>1, <2>3, <2>4 DEF ReadSidecar, Claimed
  <2>5. CASE VerifyPrefix
    <3>1. pc = "verify" /\ Len(part) = side.done
      BY <1>1, <2>5 DEF VerifyPrefix, ImagingInv, Hashed
    <3>2. part = side.md5
      <4>1. Len(part) \in 0..Len(part) /\ side.done = Len(part)
        BY <2>2, <3>1
      <4>2. Prefix(part, side.done) = part
        BY <2>2, <4>1, Cut
      <4> QED
        BY <2>1, <4>2
    <3>3. Sample \notin Bad /\ Len(part) >= Sample
      BY <1>1, <2>2, <3>1 DEF Readable, Sample
    <3>4. part[Sample] = source[Sample]
      BY <2>1, <2>2, <3>2, <3>3, SampleOfCopy
    <3> QED
      BY <1>1, <2>5, <3>2, <3>3, <3>4 DEF VerifyPrefix
  <2> QED
    BY <2>0, <2>4, <2>5
<1>2. ImagingInv /\ [ImagingNext]_imagingVars
        => [pc' = "discard" /\ pc \in {"decide", "verify"} => ~Trusted]_imagingVars
  BY <1>1
<1> QED
  BY <1>2, ImagingInvariant, PTL DEF ImagingSpec, StoppedRunResumes

----------------------------------------------------------------------------
(* EWF images                                                              *)

SectorGiven(jb, s) == IF s \in jb.damaged THEN 0 ELSE s

SectorsGiven(jb, behind, n) == [i \in 1..n |-> SectorGiven(jb, behind + i)]

\* The sectors of so many chunks
ChunksEnd(c) == c * EwfChunk

\* Chunk c, of the sectors up to one
PlainOf(jb, c, filled) ==
    SectorsGiven(jb, ChunksEnd(c - 1), IF ChunksEnd(c) <= filled THEN EwfChunk ELSE filled - ChunksEnd(c - 1))

StoredByte == Nat \cup [plain : Seq(Nat), part : Nat, of : Nat]

ChunkStored(plain, size) == [i \in 1..size |-> [plain |-> plain, part |-> i, of |-> size]]
SizesGiven(jb, c) == \A k \in 1..c : jb.sizes[k] \in Nat \ {0}

\* What a segment stores: the chunks behind chunk before, one for each offset
StopOf(data, offsets, j) == IF j = Len(offsets) THEN Len(data) ELSE offsets[j + 1]
StoredAt(data, start, stored) == \A i \in DOMAIN stored : data[start + i] = stored[i]
PackedData(jb, data, offsets, before, filled) ==
    /\ offsets = <<>> => data = <<>>
    /\ offsets # <<>> => offsets[1] = 0
    /\ \A j \in 1..Len(offsets) :
         /\ StopOf(data, offsets, j) = offsets[j] + jb.sizes[before + j]
         /\ StoredAt(data, offsets[j], ChunkStored(PlainOf(jb, before + j, filled), jb.sizes[before + j]))
SectorsTo(c, filled) == IF ChunksEnd(c) <= filled THEN ChunksEnd(c) ELSE filled
RawData(jb, data, before, n, filled) ==
    data = SectorsGiven(jb, ChunksEnd(before), SectorsTo(before + n, filled) - ChunksEnd(before))
ChunkData(jb, data, offsets, before, filled) ==
    IF jb.packed THEN PackedData(jb, data, offsets, before, filled)
    ELSE RawData(jb, data, before, Len(offsets), filled)

LEMMA Joined ==
    ASSUME NEW S, NEW s \in Seq(S), NEW t \in Seq(S)
    PROVE  /\ s \o t \in Seq(S) /\ Len(s \o t) = Len(s) + Len(t) /\ Len(s) \in Nat /\ Len(t) \in Nat
           /\ \A i \in 1..Len(s) : (s \o t)[i] = s[i]
           /\ \A i \in 1..Len(t) : (s \o t)[Len(s) + i] = t[i]
  OBVIOUS

\* One sequence behind another, a number behind others: without the operators
JoinOf(grown, data, stored) ==
    /\ Len(grown) = Len(data) + Len(stored) /\ Len(data) \in Nat /\ Len(stored) \in Nat
    /\ \A i \in 1..Len(data) : grown[i] = data[i]
    /\ StoredAt(grown, Len(data), stored) /\ DOMAIN stored = 1..Len(stored)
AppendOf(places, offsets, x) ==
    /\ places # <<>> /\ Len(places) = Len(offsets) + 1 /\ Len(offsets) \in Nat /\ places[Len(offsets) + 1] = x
    /\ \A j \in 1..Len(offsets) : places[j] = offsets[j]

LEMMA IsJoin ==
    ASSUME NEW S, NEW s \in Seq(S), NEW t \in Seq(S)
    PROVE  JoinOf(s \o t, s, t)
  <1>1. DOMAIN t = 1..Len(t)
    OBVIOUS
  <1> QED
    BY <1>1, Joined DEF JoinOf, StoredAt

LEMMA Appendix ==
    ASSUME NEW S, NEW s \in Seq(S), NEW x \in S
    PROVE  /\ Append(s, x) \in Seq(S) /\ Len(Append(s, x)) = Len(s) + 1 /\ Len(s) \in Nat
           /\ Append(s, x)[Len(s) + 1] = x /\ \A i \in 1..Len(s) : Append(s, x)[i] = s[i]
           /\ Append(s, x) # <<>>
  OBVIOUS

\* Two sequences as long and with the same elements are the same.
LEMMA SameSeq ==
    ASSUME NEW S, NEW s \in Seq(S), NEW T, NEW t \in Seq(T), Len(s) = Len(t), \A i \in 1..Len(s) : s[i] = t[i]
    PROVE  s = t
  OBVIOUS

LEMMA SeqWider ==
    ASSUME NEW S, NEW T, S \subseteq T, NEW s \in Seq(S)
    PROVE  s \in Seq(T)
  <1>1. s \in [1..Len(s) -> S] /\ Len(s) \in Nat
    OBVIOUS
  <1>2. s \in [1..Len(s) -> T]
    BY <1>1
  <1> QED
    BY <1>1, <1>2

LEMMA NoLength ==
    ASSUME NEW S, NEW s \in Seq(S)
    PROVE  Len(s) = 0 <=> s = <<>>
  OBVIOUS

LEMMA GivenIs ==
    ASSUME NEW jb, NEW behind \in Nat, NEW n \in Nat
    PROVE  /\ SectorsGiven(jb, behind, n) \in Seq(Nat) /\ Len(SectorsGiven(jb, behind, n)) = n
           /\ \A i \in 1..n : SectorsGiven(jb, behind, n)[i] = SectorGiven(jb, behind + i)
  <1> DEFINE s == SectorsGiven(jb, behind, n)
  <1>1. \A i \in 1..n : SectorGiven(jb, behind + i) \in Nat
    BY DEF SectorGiven
  <1>2. s \in [1..n -> Nat] /\ \A i \in 1..n : s[i] = SectorGiven(jb, behind + i)
    BY <1>1 DEF SectorsGiven
  <1> HIDE DEF s
  <1>3. s \in Seq(Nat) /\ Len(s) = n
    BY <1>2
  <1> QED
    BY <1>2, <1>3 DEF s

LEMMA GivenJoin ==
    ASSUME NEW jb, NEW behind \in Nat, NEW m \in Nat, NEW n \in Nat
    PROVE  SectorsGiven(jb, behind, m) \o SectorsGiven(jb, behind + m, n) = SectorsGiven(jb, behind, m + n)
  <1>1. PICK s \in Seq(Nat) : s = SectorsGiven(jb, behind, m)
    BY GivenIs
  <1>2. PICK t \in Seq(Nat) : t = SectorsGiven(jb, behind + m, n)
    BY GivenIs
  <1>3. PICK u \in Seq(Nat) : u = SectorsGiven(jb, behind, m + n)
    BY GivenIs
  <1>4. Len(s) = m /\ \A i \in 1..m : s[i] = SectorGiven(jb, behind + i)
    BY <1>1, GivenIs
  <1>5. Len(t) = n /\ \A i \in 1..n : t[i] = SectorGiven(jb, (behind + m) + i)
    <2>1. behind + m \in Nat
      OBVIOUS
    <2> QED
      BY <1>2, <2>1, GivenIs
  <1>6. Len(u) = m + n /\ \A i \in 1..(m + n) : u[i] = SectorGiven(jb, behind + i)
    <2>1. m + n \in Nat
      OBVIOUS
    <2> QED
      BY <1>3, <2>1, GivenIs
  <1>7. /\ s \o t \in Seq(Nat) /\ Len(s \o t) = m + n
        /\ \A i \in 1..m : (s \o t)[i] = s[i]
        /\ \A i \in 1..n : (s \o t)[m + i] = t[i]
    <2>1. JoinOf(s \o t, s, t) /\ s \o t \in Seq(Nat)
      BY IsJoin, Joined
    <2>2. Len(s) = m /\ Len(t) = n
      BY <1>4, <1>5
    <2>3. \A i \in DOMAIN t : (s \o t)[Len(s) + i] = t[i]
      BY <2>1 DEF JoinOf, StoredAt
    <2> QED
      BY <2>1, <2>2, <2>3, Zenon DEF JoinOf
  <1>8. ASSUME NEW i \in 1..(m + n) PROVE (s \o t)[i] = u[i]
    <2>1. CASE i <= m
      BY <1>4, <1>6, <1>7, <2>1
    <2>2. CASE i > m
      <3>1. PICK k \in 1..n : i = m + k /\ (behind + m) + k = behind + i
        <4>1. i - m \in 1..n /\ i = m + (i - m) /\ (behind + m) + (i - m) = behind + i
          BY <2>2
        <4> QED
          BY <4>1
      <3>2. (s \o t)[m + k] = t[k]
        BY <1>7
      <3> QED
        BY <1>5, <1>6, <3>1, <3>2
    <2>3. i <= m \/ i > m
      OBVIOUS
    <2> QED
      BY <2>1, <2>2, <2>3, Zenon
  <1>9. s \o t = u
    BY <1>6, <1>7, <1>8, SameSeq
  <1> QED
    BY <1>1, <1>2, <1>3, <1>9

LEMMA GivenJoins ==
    ASSUME NEW jb, NEW at \in Nat, NEW filled \in Nat, NEW more \in Nat, at <= filled, filled <= more
    PROVE  SectorsGiven(jb, at, filled - at) \o SectorsGiven(jb, filled, more - filled)
             = SectorsGiven(jb, at, more - at)
  <1>1. PICK p \in Nat : p = filled - at
    OBVIOUS
  <1>2. PICK q \in Nat : q = more - filled
    OBVIOUS
  <1>3. at + p = filled /\ p + q = more - at
    BY <1>1, <1>2
  <1>4. SectorsGiven(jb, at, p) \o SectorsGiven(jb, at + p, q) = SectorsGiven(jb, at, p + q)
    BY GivenJoin, ZenonT(30)
  <1> QED
    BY <1>1, <1>2, <1>3, <1>4

LEMMA GivenMore ==
    ASSUME NEW jb, NEW behind \in Nat, NEW n \in Nat
    PROVE  Append(SectorsGiven(jb, behind, n), SectorGiven(jb, behind + (n + 1))) = SectorsGiven(jb, behind, n + 1)
  <1>1. PICK s \in Seq(Nat) : s = SectorsGiven(jb, behind, n)
    BY GivenIs
  <1>2. PICK u \in Seq(Nat) : u = SectorsGiven(jb, behind, n + 1)
    BY GivenIs
  <1>3. Len(s) = n /\ \A i \in 1..n : s[i] = SectorGiven(jb, behind + i)
    BY <1>1, GivenIs
  <1>4. Len(u) = n + 1 /\ \A i \in 1..(n + 1) : u[i] = SectorGiven(jb, behind + i)
    <2>1. n + 1 \in Nat
      OBVIOUS
    <2> QED
      BY <1>2, <2>1, GivenIs
  <1>5. PICK x \in Nat : x = SectorGiven(jb, behind + (n + 1))
    BY DEF SectorGiven
  <1>6. /\ Append(s, x) \in Seq(Nat) /\ Len(Append(s, x)) = n + 1 /\ Append(s, x)[n + 1] = x
        /\ \A i \in 1..n : Append(s, x)[i] = s[i]
    BY <1>3, Appendix
  <1>7. ASSUME NEW i \in 1..(n + 1) PROVE Append(s, x)[i] = u[i]
    <2>1. CASE i \in 1..n
      BY <1>3, <1>4, <1>6, <2>1
    <2>2. CASE i = n + 1
      BY <1>4, <1>5, <1>6, <2>2
    <2>3. i \in 1..n \/ i = n + 1
      OBVIOUS
    <2> QED
      BY <2>1, <2>2, <2>3, Zenon
  <1>8. Append(s, x) = u
    BY <1>4, <1>6, <1>7, SameSeq
  <1> QED
    BY <1>1, <1>2, <1>5, <1>8

\* The numbers of two
LEMMA LesserOf ==
    ASSUME NEW a \in Int, NEW b \in Int
    PROVE  Min({a, b}) = IF a <= b THEN a ELSE b
  <1> DEFINE m == IF a <= b THEN a ELSE b
  <1>1. m \in {a, b} /\ \A y \in {a, b} : m <= y
    OBVIOUS
  <1>2. \A x \in {a, b} : (\A y \in {a, b} : x <= y) => x = m
    OBVIOUS
  <1> HIDE DEF m
  <1>3. Min({a, b}) = m
    BY <1>1, <1>2 DEF Min
  <1> QED
    BY <1>3 DEF m

LEMMA ChunkEnds ==
    ASSUME NEW a \in Nat, NEW b \in Nat
    PROVE  /\ ChunksEnd(a) \in Nat /\ ChunksEnd(a + b) = ChunksEnd(a) + ChunksEnd(b)
           /\ ChunksEnd(0) = 0 /\ ChunksEnd(1) = EwfChunk
           /\ ChunksEnd(a + 1) = ChunksEnd(a) + EwfChunk
           /\ a > 0 => a - 1 \in Nat /\ ChunksEnd(a) = ChunksEnd(a - 1) + EwfChunk
           /\ a <= b <=> ChunksEnd(a) <= ChunksEnd(b)
  <1>1. EwfChunk \in Nat \ {0}
    BY EwfAssumption
  <1>2. ChunksEnd(a) \in Nat /\ ChunksEnd(a + b) = ChunksEnd(a) + ChunksEnd(b)
    BY <1>1 DEF ChunksEnd
  <1>3. ChunksEnd(0) = 0 /\ ChunksEnd(1) = EwfChunk
    BY <1>1 DEF ChunksEnd
  <1>4. ChunksEnd(a + 1) = ChunksEnd(a) + EwfChunk
    BY <1>1 DEF ChunksEnd
  <1>5. a > 0 => a - 1 \in Nat /\ ChunksEnd(a) = ChunksEnd(a - 1) + EwfChunk
    BY <1>1 DEF ChunksEnd
  <1>6. a <= b => ChunksEnd(a) <= ChunksEnd(b)
    BY <1>1 DEF ChunksEnd
  <1>7. a > b => ChunksEnd(a) > ChunksEnd(b)
    BY <1>1 DEF ChunksEnd
  <1>8. ChunksEnd(b) \in Nat
    BY <1>1 DEF ChunksEnd
  <1> QED
    BY <1>2, <1>3, <1>4, <1>5, <1>6, <1>7, <1>8

LEMMA JobFacts ==
    ASSUME NEW jb \in EwfJobs
    PROVE  /\ jb.size \in Nat /\ jb.packed \in BOOLEAN /\ jb.sizes \in Seq(Nat \ {0})
           /\ jb.packed => jb.size <= ChunksEnd(Len(jb.sizes))
  BY EwfAssumption DEF EwfJob, ChunksEnd

\* A chunk that is full stays as it is while more sectors come.
LEMMA PlainStays ==
    ASSUME NEW jb, NEW c \in Nat, NEW filled \in Nat, NEW more \in Nat, ChunksEnd(c) <= filled, filled <= more
    PROVE  PlainOf(jb, c, more) = PlainOf(jb, c, filled)
  <1>1. ChunksEnd(c) \in Nat
    BY ChunkEnds
  <1>2. ChunksEnd(c) <= more
    BY <1>1
  <1> QED
    BY <1>2 DEF PlainOf

LEMMA DataStays ==
    ASSUME NEW jb, NEW data, NEW offsets \in Seq(Nat), NEW before \in Nat, NEW filled \in Nat, NEW more \in Nat,
           ChunkData(jb, data, offsets, before, filled), ChunksEnd(before + Len(offsets)) <= filled, filled <= more
    PROVE  ChunkData(jb, data, offsets, before, more)
  <1> DEFINE n == Len(offsets)
  <1>1. n \in Nat /\ ChunksEnd(before + n) \in Nat
    BY ChunkEnds
  <1>2. ASSUME NEW j \in 1..n PROVE PlainOf(jb, before + j, more) = PlainOf(jb, before + j, filled)
    <2>1. before + j \in Nat /\ before + j <= before + n /\ before + n \in Nat
      BY <1>1
    <2>2. ChunksEnd(before + j) <= ChunksEnd(before + n) /\ ChunksEnd(before + j) \in Nat
      BY <2>1, ChunkEnds
    <2>3. ChunksEnd(before + j) <= filled
      BY <1>1, <2>2
    <2> QED
      BY <2>1, <2>3, PlainStays
  <1>3. CASE jb.packed
    <2>1. PackedData(jb, data, offsets, before, filled)
      BY <1>3 DEF ChunkData
    <2>2. PackedData(jb, data, offsets, before, more)
      BY <1>2, <2>1 DEF PackedData
    <2> QED
      BY <1>3, <2>2 DEF ChunkData
  <1>4. CASE ~jb.packed
    <2>1. SectorsTo(before + n, more) = SectorsTo(before + n, filled)
      BY <1>1 DEF SectorsTo
    <2>2. RawData(jb, data, before, n, filled)
      BY <1>4 DEF ChunkData
    <2>3. RawData(jb, data, before, n, more)
      BY <2>1, <2>2 DEF RawData
    <2> QED
      BY <1>4, <2>3 DEF ChunkData
  <1> QED
    BY <1>3, <1>4

LEMMA PlainIs ==
    ASSUME NEW jb, NEW c \in Nat, c > 0, NEW more \in Nat, ChunksEnd(c - 1) < more, more <= ChunksEnd(c)
    PROVE  /\ PlainOf(jb, c, more) = SectorsGiven(jb, ChunksEnd(c - 1), more - ChunksEnd(c - 1))
           /\ PlainOf(jb, c, more) \in Seq(Nat) /\ Len(PlainOf(jb, c, more)) = more - ChunksEnd(c - 1)
  <1>1. PICK at \in Nat : at = ChunksEnd(c - 1)
    BY ChunkEnds
  <1>2. ChunksEnd(c) = at + EwfChunk /\ EwfChunk \in Nat
    BY <1>1, ChunkEnds, EwfAssumption
  <1>3. PICK n \in Nat : n = more - at
    BY <1>1
  <1>4. (IF ChunksEnd(c) <= more THEN EwfChunk ELSE more - at) = n
    BY <1>1, <1>2, <1>3
  <1>5. PlainOf(jb, c, more) = SectorsGiven(jb, at, n)
    BY <1>1, <1>4 DEF PlainOf
  <1> QED
    BY <1>1, <1>3, <1>5, GivenIs

\* The chunks of a disk have their sizes.
LEMMA SizesOf ==
    ASSUME NEW jb \in EwfJobs, jb.packed, NEW c \in Nat, ChunksEnd(c) < jb.size
    PROVE  c < Len(jb.sizes) /\ SizesGiven(jb, c + 1)
  <1>1. jb.size <= ChunksEnd(Len(jb.sizes)) /\ jb.size \in Nat /\ jb.sizes \in Seq(Nat \ {0})
    BY JobFacts
  <1> DEFINE all == Len(jb.sizes)
  <1>2. all \in Nat
    BY <1>1
  <1>3. \A k \in 1..all : jb.sizes[k] \in Nat \ {0}
    BY <1>1
  <1> HIDE DEF all
  <1>4. ChunksEnd(c) \in Nat /\ ChunksEnd(all) \in Nat /\ (all <= c <=> ChunksEnd(all) <= ChunksEnd(c))
    BY <1>2, ChunkEnds
  <1>5. ChunksEnd(c) < ChunksEnd(all)
    BY <1>1, <1>4 DEF all
  <1>6. c < all
    BY <1>2, <1>4, <1>5
  <1> QED
    BY <1>2, <1>3, <1>6 DEF all, SizesGiven

\* Chunks do not reach behind the data.
StopsFit(jb, data, offsets, before) ==
    \A k \in 1..Len(offsets) :
        /\ StopOf(data, offsets, k) <= Len(data) /\ StopOf(data, offsets, k) \in Nat
        /\ offsets[k] < StopOf(data, offsets, k) /\ offsets[k] \in Nat
        /\ StopOf(data, offsets, k) = offsets[k] + jb.sizes[before + k]

LEMMA StopsIn ==
    ASSUME NEW jb, NEW data, NEW offsets \in Seq(Nat), NEW before \in Nat, NEW filled, Len(data) \in Nat,
           PackedData(jb, data, offsets, before, filled),
           SizesGiven(jb, before + Len(offsets))
    PROVE  StopsFit(jb, data, offsets, before)
  <1> DEFINE n == Len(offsets)
             S == {m \in 0..n : m < n => StopOf(data, offsets, n - m) <= Len(data)}
  <1>1. n \in Nat /\ \A k \in 1..n : offsets[k] \in Nat
    OBVIOUS
  <1>2. \A k \in 1..n : StopOf(data, offsets, k) = offsets[k] + jb.sizes[before + k]
    BY DEF PackedData
  <1>3. \A k \in 1..n : jb.sizes[before + k] \in Nat \ {0}
    <2>1. \A k \in 1..n : before + k \in 1..(before + n)
      BY <1>1
    <2> QED
      BY <2>1 DEF SizesGiven
  <1> HIDE DEF n
  <1>4. 0 \in S
    BY <1>1 DEF StopOf, n
  <1>5. ASSUME NEW m \in 1..n, m - 1 \in S PROVE m \in S
    <2> SUFFICES ASSUME m < n PROVE StopOf(data, offsets, n - m) <= Len(data)
      BY <1>1
    <2>1. PICK k \in 1..n : k = n - m
      BY <1>1
    <2>2. k + 1 \in 1..n /\ k # n /\ k + 1 = n - (m - 1) /\ m - 1 < n
      BY <1>1, <2>1
    <2>3. StopOf(data, offsets, k) = offsets[k + 1]
      BY <2>2 DEF StopOf, n
    <2>4. StopOf(data, offsets, k + 1) <= Len(data)
      BY <1>5, <2>2
    <2>5. StopOf(data, offsets, k + 1) = offsets[k + 1] + jb.sizes[before + (k + 1)]
      BY <1>2, <2>2
    <2>6. jb.sizes[before + (k + 1)] \in Nat /\ offsets[k + 1] \in Nat
      BY <1>1, <1>3, <2>2
    <2>7. StopOf(data, offsets, k) <= Len(data)
      BY <2>3, <2>4, <2>5, <2>6
    <2> QED
      BY <2>1, <2>7
  <1> HIDE DEF S
  <1>6. 0..n \subseteq S
    BY <1>1, <1>4, <1>5, AllUpTo
  <1>7. ASSUME NEW k \in 1..n PROVE StopOf(data, offsets, k) <= Len(data)
    <2>1. PICK m \in 0..n : m = n - k
      BY <1>1
    <2>2. m < n /\ n - m = k /\ m \in S
      BY <1>1, <1>6, <2>1
    <2> QED
      BY <2>2 DEF S
  <1> QED
    BY <1>1, <1>2, <1>3, <1>7, SMTT(30) DEF n, StopsFit

LEMMA IsAppend ==
    ASSUME NEW S, NEW s \in Seq(S), NEW x \in S
    PROVE  AppendOf(Append(s, x), s, x)
  BY Appendix DEF AppendOf

LEMMA ChunkIs ==
    ASSUME NEW plain \in Seq(Nat), NEW size \in Nat
    PROVE  /\ ChunkStored(plain, size) \in Seq(StoredByte) /\ Len(ChunkStored(plain, size)) = size
           /\ DOMAIN ChunkStored(plain, size) = 1..size
  <1> DEFINE stored == ChunkStored(plain, size)
  <1>1. \A i \in 1..size : [plain |-> plain, part |-> i, of |-> size] \in StoredByte
    BY DEF StoredByte
  <1>2. stored \in [1..size -> StoredByte]
    BY <1>1 DEF ChunkStored
  <1> HIDE DEF stored
  <1>3. stored \in Seq(StoredByte) /\ Len(stored) = size /\ DOMAIN stored = 1..size
    BY <1>2
  <1> QED
    BY <1>3 DEF stored

LEMMA PackedGrows ==
    ASSUME NEW jb, NEW data, NEW offsets \in Seq(Nat), NEW before \in Nat, NEW more, NEW stored, NEW grown, NEW places,
           JoinOf(grown, data, stored), AppendOf(places, offsets, Len(data)),
           SizesGiven(jb, before + Len(offsets) + 1),
           stored = ChunkStored(PlainOf(jb, before + Len(offsets) + 1, more), jb.sizes[before + Len(offsets) + 1]),
           Len(stored) = jb.sizes[before + Len(offsets) + 1],
           PackedData(jb, data, offsets, before, more)
    PROVE  PackedData(jb, grown, places, before, more)
  <1>1. PICK end \in Nat : end = Len(data)
    BY DEF JoinOf
  <1>2. PICK n \in Nat : n = Len(offsets)
    OBVIOUS
  <1>3. PICK size \in Nat : size = jb.sizes[before + (n + 1)] /\ size = Len(stored)
    <2>1. before + (n + 1) = before + Len(offsets) + 1
      BY <1>2
    <2> QED
      BY <2>1 DEF JoinOf
  <1>4. /\ Len(grown) = end + size
        /\ \A i \in 1..end : grown[i] = data[i]
        /\ StoredAt(grown, end, stored)
    BY <1>1, <1>3 DEF JoinOf
  <1>5. places # <<>> /\ Len(places) = n + 1 /\ places[n + 1] = end /\ \A j \in 1..n : places[j] = offsets[j]
    BY <1>1, <1>2 DEF AppendOf
  <1>6. StopsFit(jb, data, offsets, before)
    <2>1. SizesGiven(jb, before + Len(offsets))
      BY <1>2 DEF SizesGiven
    <2> QED
      BY <1>1, <2>1, StopsIn
  <1>7. \A k \in 1..n : /\ StopOf(data, offsets, k) <= end /\ StopOf(data, offsets, k) \in Nat
                        /\ offsets[k] < StopOf(data, offsets, k) /\ offsets[k] \in Nat
                        /\ StopOf(data, offsets, k) = offsets[k] + jb.sizes[before + k]
    BY <1>1, <1>2, <1>6 DEF StopsFit
  <1>8. places[1] = 0
    <2>1. CASE n = 0
      <3>1. offsets = <<>>
        BY <1>2, <2>1, NoLength, Zenon
      <3>2. data = <<>>
        BY <3>1 DEF PackedData
      <3>3. end = 0
        BY <1>1, <3>2
      <3> QED
        BY <1>5, <2>1, <3>3
    <2>2. CASE n > 0
      <3>1. offsets # <<>>
        BY <1>2, <2>2
      <3>2. offsets[1] = 0
        BY <3>1 DEF PackedData
      <3>3. 1 \in 1..n
        BY <2>2
      <3> QED
        BY <1>5, <3>2, <3>3
    <2> QED
      BY <2>1, <2>2
  <1>9. ASSUME NEW j \in 1..n
        PROVE  /\ StopOf(grown, places, j) = places[j] + jb.sizes[before + j]
               /\ StoredAt(grown, places[j], ChunkStored(PlainOf(jb, before + j, more), jb.sizes[before + j]))
    <2>1. j # n + 1 /\ j \in Nat /\ places[j] = offsets[j]
      BY <1>5
    <2>2. StopOf(grown, places, j) = places[j + 1]
      BY <1>5, <2>1 DEF StopOf
    <2>3. StopOf(data, offsets, j) = places[j + 1]
      <3>1. CASE j = n
        BY <1>1, <1>2, <1>5, <3>1 DEF StopOf
      <3>2. CASE j # n
        <4>1. j + 1 \in 1..n
          BY <3>2
        <4> QED
          BY <1>2, <1>5, <3>2, <4>1 DEF StopOf
      <3> QED
        BY <3>1, <3>2
    <2>4. PICK from \in Nat : from = offsets[j]
      BY <1>7
    <2>5. PICK one : one = jb.sizes[before + j]
      OBVIOUS
    <2>6. from + one <= end /\ StopOf(data, offsets, j) = from + one
      BY <1>7, <2>4, <2>5
    <2>7. one \in Nat
      BY <1>2, <2>5 DEF SizesGiven
    <2>8. PICK kept : kept = ChunkStored(PlainOf(jb, before + j, more), one)
      OBVIOUS
    <2>9. DOMAIN kept = 1..one
      BY <2>8 DEF ChunkStored
    <2>10. StoredAt(data, from, kept)
      BY <1>2, <2>4, <2>5, <2>8 DEF PackedData
    <2>11. StoredAt(grown, from, kept)
      <3>1. \A i \in 1..one : from + i \in 1..end
        BY <2>6, <2>7
      <3> QED
        BY <1>4, <2>9, <2>10, <3>1 DEF StoredAt
    <2> QED
      BY <2>1, <2>2, <2>3, <2>4, <2>5, <2>6, <2>8, <2>11
  <1>10. /\ StopOf(grown, places, n + 1) = places[n + 1] + jb.sizes[before + (n + 1)]
         /\ StoredAt(grown, places[n + 1], ChunkStored(PlainOf(jb, before + (n + 1), more), jb.sizes[before + (n + 1)]))
    <2>1. before + (n + 1) = before + Len(offsets) + 1
      BY <1>2
    <2>2. StopOf(grown, places, n + 1) = end + size
      BY <1>4, <1>5 DEF StopOf
    <2> QED
      BY <1>3, <1>4, <1>5, <2>1, <2>2
  <1>11. \A j \in 1..Len(places) : j \in 1..n \/ j = n + 1
    BY <1>5
  <1> QED
    BY <1>5, <1>8, <1>9, <1>10, <1>11 DEF PackedData

\* The next chunk goes behind the data, and its offset behind the offsets.
LEMMA DataGrows ==
    ASSUME job \in EwfJobs, NEW data \in Seq(StoredByte), NEW offsets \in Seq(Nat), NEW before \in Nat,
           NEW more \in Nat, ChunksEnd(before + Len(offsets)) < more,
           more <= ChunksEnd(before + Len(offsets) + 1), more <= job.size,
           ChunkData(job, data, offsets, before, ChunksEnd(before + Len(offsets))),
           NEW stored, stored = InChunk(before + Len(offsets) + 1, PlainOf(job, before + Len(offsets) + 1, more))
    PROVE  /\ data \o stored \in Seq(StoredByte)
           /\ ChunkData(job, data \o stored, Append(offsets, Len(data)), before, more)
  <1>1. PICK n \in Nat : n = Len(offsets)
    OBVIOUS
  <1>2. PICK c \in Nat : c = before + n + 1 /\ c > 0 /\ c - 1 = before + n /\ before + n \in Nat
    <2> DEFINE c == before + n + 1
    <2>1. c \in Nat /\ c > 0 /\ c - 1 = before + n /\ before + n \in Nat
      OBVIOUS
    <2> QED
      BY <2>1
  <1>3. PICK filled \in Nat : filled = ChunksEnd(c - 1)
    BY <1>2, ChunkEnds
  <1>4. filled < more /\ more <= ChunksEnd(c) /\ ChunksEnd(c) \in Nat
    BY <1>1, <1>2, <1>3, ChunkEnds
  <1>5. PICK plain : plain = PlainOf(job, c, more)
    OBVIOUS
  <1>6. plain = SectorsGiven(job, filled, more - filled) /\ plain \in Seq(Nat) /\ Len(plain) = more - filled
    <2>1. ChunksEnd(c - 1) < more
      BY <1>3, <1>4
    <2> QED
      BY <1>2, <1>3, <1>4, <1>5, <2>1, PlainIs
  <1>7. ChunkData(job, data, offsets, before, filled)
    BY <1>1, <1>2, <1>3
  <1>8. ChunkData(job, data, offsets, before, more)
    <2>1. ChunksEnd(before + Len(offsets)) <= filled /\ filled <= more
      BY <1>1, <1>2, <1>3, <1>4
    <2> QED
      BY <1>7, <2>1, DataStays
  <1>9. stored = InChunk(c, plain)
    BY <1>1, <1>2, <1>5
  <1>10. PICK places : places = Append(offsets, Len(data))
    OBVIOUS
  <1>11. AppendOf(places, offsets, Len(data))
    <2>1. Len(data) \in Nat
      OBVIOUS
    <2> QED
      BY <1>10, <2>1, IsAppend
  <1>12. CASE job.packed
    <2>1. SizesGiven(job, before + Len(offsets) + 1)
      <3>1. ChunksEnd(before + n) < job.size
        BY <1>2, <1>3, <1>4, JobFacts
      <3> QED
        BY <1>1, <1>2, <1>12, <3>1, SizesOf
    <2>2. PICK size \in Nat : size = job.sizes[c]
      BY <1>1, <1>2, <2>1 DEF SizesGiven
    <2>3. stored = ChunkStored(plain, size)
      BY <1>9, <1>12, <2>2 DEF InChunk, ChunkStored
    <2>4. stored \in Seq(StoredByte) /\ Len(stored) = size
      BY <1>6, <2>2, <2>3, ChunkIs
    <2>5. PackedData(job, data, offsets, before, more)
      BY <1>8, <1>12 DEF ChunkData
    <2>6. JoinOf(data \o stored, data, stored)
      BY <2>4, IsJoin
    <2>7. PackedData(job, data \o stored, places, before, more)
      <3>1. before + Len(offsets) + 1 = c
        BY <1>1, <1>2
      <3>2. /\ stored = ChunkStored(PlainOf(job, before + Len(offsets) + 1, more), job.sizes[before + Len(offsets) + 1])
            /\ Len(stored) = job.sizes[before + Len(offsets) + 1]
        BY <1>5, <2>2, <2>3, <2>4, <3>1
      <3> QED
        BY <1>11, <2>1, <2>5, <2>6, <3>2, PackedGrows
    <2>8. data \o stored \in Seq(StoredByte)
      BY <2>4, Joined
    <2> QED
      BY <1>10, <1>12, <2>7, <2>8 DEF ChunkData
  <1>13. CASE ~job.packed
    <2>1. stored = plain
      BY <1>9, <1>13 DEF InChunk
    <2>2. RawData(job, data, before, n, more)
      BY <1>1, <1>8, <1>13 DEF ChunkData
    <2>3. PICK at \in Nat : at = ChunksEnd(before)
      BY ChunkEnds
    <2>4. at <= filled
      <3>1. ChunksEnd(n) \in Nat /\ ChunksEnd(before + n) = ChunksEnd(before) + ChunksEnd(n)
        BY ChunkEnds
      <3> QED
        BY <1>2, <1>3, <2>3, <3>1
    <2>5. SectorsTo(before + n, more) = filled
      BY <1>2, <1>3, <1>4 DEF SectorsTo
    <2>6. SectorsTo(before + (n + 1), more) = more
      <3>1. before + (n + 1) = c
        BY <1>2
      <3> QED
        BY <1>4, <3>1, SMTT(30) DEF SectorsTo
    <2>7. data = SectorsGiven(job, at, filled - at)
      BY <2>2, <2>3, <2>5 DEF RawData
    <2>8. data \o stored = SectorsGiven(job, at, more - at)
      <3>1. SectorsGiven(job, at, filled - at) \o SectorsGiven(job, filled, more - filled) = SectorsGiven(job, at, more - at)
        <4>1. filled <= more
          BY <1>4
        <4> QED
          BY <2>4, <4>1, GivenJoins
      <3> QED
        BY <1>6, <2>1, <2>7, <3>1, Zenon
    <2>9. RawData(job, data \o stored, before, Len(places), more)
      <3>1. Len(places) = n + 1
        BY <1>1, <1>11 DEF AppendOf
      <3> QED
        BY <2>3, <2>6, <2>8, <3>1 DEF RawData
    <2>10. data \o stored \in Seq(StoredByte)
      <3>1. plain \in Seq(StoredByte)
        <4>1. Nat \subseteq StoredByte
          BY DEF StoredByte
        <4> QED
          BY <1>6, <4>1, SeqWider
      <3> QED
        BY <2>1, <3>1, Joined
    <2> QED
      BY <1>10, <1>13, <2>9, <2>10 DEF ChunkData
  <1> QED
    BY <1>12, <1>13, JobFacts

EwfWriters ==
    [pc : {"writing", "failed", "finished", "aborted"}, chunks : Nat, pending : Seq(Nat), fed : Seq(Nat),
     data : Seq(StoredByte), offsets : Seq(Nat), spoilt : BOOLEAN]
EwfSegments(jb) ==
    [sized : BOOLEAN, data : Seq(StoredByte), table : Seq(Nat), errors : {{}, jb.damaged},
     digest : Seq(Int), total : Nat]

\* The writer was given the sectors of the disk, in order, and holds back the
\* ones behind its last chunk.
FedRight(jb, w) == w.fed = SectorsGiven(jb, 0, Len(w.fed)) /\ Len(w.fed) <= jb.size
PendingRight(jb, w) ==
    /\ w.pending = SectorsGiven(jb, ChunksEnd(w.chunks), Len(w.pending))
    /\ Len(w.fed) = ChunksEnd(w.chunks) + Len(w.pending)

\* The current segment holds the chunks behind chunk before.
DataRight(jb, w, before, filled) ==
    /\ before \in Nat /\ w.chunks = before + Len(w.offsets)
    /\ ChunkData(jb, w.data, w.offsets, before, filled)

\* A closed segment holds the chunks behind one and up to another.
SegmentHolds(jb, seg, before, after, filled) ==
    /\ before \in Nat /\ after \in Nat /\ filled \in Nat /\ before <= after
    /\ filled <= ChunksEnd(after) /\ (before = after => filled = ChunksEnd(after))
    /\ before < after => ChunksEnd(after - 1) < filled
    /\ \E offsets \in Seq(Nat) :
         /\ Len(offsets) = after - before
         /\ seg.table = PaddedTable(offsets, Len(seg.data))
         /\ ChunkData(jb, seg.data, offsets, before, filled)

\* b: the chunks before each segment, and in all
SectorsIn(closed, b, k, filled) == IF k = Len(closed) THEN filled ELSE ChunksEnd(b[k + 1])
Laid(jb, closed, b, filled) ==
    /\ closed \in Seq(EwfSegments(jb)) /\ b \in Seq(Nat) /\ Len(b) = Len(closed) + 1 /\ b[1] = 0
    /\ \A k \in 1..Len(closed) : SegmentHolds(jb, closed[k], b[k], b[k + 1], SectorsIn(closed, b, k, filled))

OpenBy(jb, w, closed, b) ==
    /\ w \in EwfWriters /\ FedRight(jb, w) /\ PendingRight(jb, w)
    /\ Laid(jb, closed, b, ChunksEnd(b[Len(closed) + 1]))
    /\ DataRight(jb, w, b[Len(closed) + 1], ChunksEnd(w.chunks))

LEMMA FedFields ==
    ASSUME NEW w \in EwfWriters, NEW s \in Nat
    PROVE  /\ Fed(w, s) \in EwfWriters
           /\ Fed(w, s).pc = w.pc /\ Fed(w, s).chunks = w.chunks /\ Fed(w, s).spoilt = w.spoilt
           /\ Fed(w, s).data = w.data /\ Fed(w, s).offsets = w.offsets
           /\ Fed(w, s).pending = Append(w.pending, s) /\ Fed(w, s).fed = Append(w.fed, s)
  <1> DEFINE v == [w EXCEPT !.pending = Append(w.pending, s)]
             u == [v EXCEPT !.fed = Append(w.fed, s)]
  <1>1. Append(w.pending, s) \in Seq(Nat) /\ Append(w.fed, s) \in Seq(Nat)
    BY DEF EwfWriters
  <1>2. /\ v \in EwfWriters /\ v.pc = w.pc /\ v.chunks = w.chunks /\ v.spoilt = w.spoilt
        /\ v.data = w.data /\ v.offsets = w.offsets /\ v.pending = Append(w.pending, s) /\ v.fed = w.fed
    BY <1>1 DEF EwfWriters
  <1> HIDE DEF v
  <1>3. /\ u \in EwfWriters /\ u.pc = v.pc /\ u.chunks = v.chunks /\ u.spoilt = v.spoilt
        /\ u.data = v.data /\ u.offsets = v.offsets /\ u.pending = v.pending /\ u.fed = Append(w.fed, s)
    BY <1>1, <1>2 DEF EwfWriters
  <1>4. Fed(w, s) = u
    BY DEF Fed, v, EwfWriters
  <1> QED
    BY <1>2, <1>3, <1>4

LEMMA FlushFields ==
    ASSUME NEW w \in EwfWriters, w.pending # <<>>, NEW stored, stored = InChunk(w.chunks + 1, w.pending),
           w.data \o stored \in Seq(StoredByte)
    PROVE  /\ flushChunk(w) \in EwfWriters
           /\ flushChunk(w).pc = w.pc /\ flushChunk(w).chunks = w.chunks + 1 /\ flushChunk(w).spoilt = w.spoilt
           /\ flushChunk(w).fed = w.fed /\ flushChunk(w).pending = <<>>
           /\ flushChunk(w).data = w.data \o stored /\ flushChunk(w).offsets = Append(w.offsets, Len(w.data))
  <1>1. PICK grown \in Seq(StoredByte) : grown = w.data \o stored
    OBVIOUS
  <1>2. PICK places : places = Append(w.offsets, Len(w.data))
    OBVIOUS
  <1>3. places \in Seq(Nat)
    <2>1. w.offsets \in Seq(Nat) /\ Len(w.data) \in Nat
      BY DEF EwfWriters
    <2> QED
      BY <1>2, <2>1, Appendix
  <1>0. PICK more \in Nat : more = w.chunks + 1
    BY DEF EwfWriters
  <1>e. PICK none \in Seq(Nat) : none = <<>>
    BY EmptySeq
  <1> DEFINE v == [w EXCEPT !.offsets = places]
             u == [v EXCEPT !.data = grown]
             t == [u EXCEPT !.chunks = more]
             r == [t EXCEPT !.pending = none]
  <1>4. /\ v \in EwfWriters /\ v.pc = w.pc /\ v.chunks = w.chunks /\ v.spoilt = w.spoilt
        /\ v.data = w.data /\ v.offsets = places /\ v.pending = w.pending /\ v.fed = w.fed
    BY <1>3 DEF EwfWriters
  <1> HIDE DEF v
  <1>5. /\ u \in EwfWriters /\ u.pc = w.pc /\ u.chunks = w.chunks /\ u.spoilt = w.spoilt
        /\ u.data = grown /\ u.offsets = places /\ u.pending = w.pending /\ u.fed = w.fed
    BY <1>4 DEF EwfWriters
  <1> HIDE DEF u
  <1>6. /\ t \in EwfWriters /\ t.pc = w.pc /\ t.chunks = more /\ t.spoilt = w.spoilt
        /\ t.data = grown /\ t.offsets = places /\ t.pending = w.pending /\ t.fed = w.fed
    BY <1>5 DEF EwfWriters
  <1> HIDE DEF t
  <1>7. /\ r \in EwfWriters /\ r.pc = w.pc /\ r.chunks = more /\ r.spoilt = w.spoilt
        /\ r.data = grown /\ r.offsets = places /\ r.pending = none /\ r.fed = w.fed
    BY <1>6 DEF EwfWriters
  <1>8. flushChunk(w) = r
    BY <1>0, <1>e, <1>1, <1>2, <1>4, <1>5 DEF flushChunk, v, u, t, EwfWriters
  <1> QED
    BY <1>0, <1>e, <1>1, <1>2, <1>7, <1>8

LEMMA StartFields ==
    ASSUME NEW w \in EwfWriters
    PROVE  /\ startSegment(w) \in EwfWriters
           /\ startSegment(w).pc = w.pc /\ startSegment(w).chunks = w.chunks /\ startSegment(w).fed = w.fed
           /\ startSegment(w).pending = w.pending /\ startSegment(w).spoilt = FALSE
           /\ startSegment(w).data = <<>> /\ startSegment(w).offsets = <<>>
  <1>d. PICK none \in Seq(StoredByte) : none = <<>>
    BY EmptySeq
  <1>o. PICK zero \in Seq(Nat) : zero = <<>>
    BY EmptySeq
  <1> DEFINE v == [w EXCEPT !.data = none]
             u == [v EXCEPT !.offsets = zero]
             t == [u EXCEPT !.spoilt = FALSE]
  <1>1. /\ v \in EwfWriters /\ v.pc = w.pc /\ v.chunks = w.chunks /\ v.spoilt = w.spoilt
        /\ v.data = none /\ v.offsets = w.offsets /\ v.pending = w.pending /\ v.fed = w.fed
    BY DEF EwfWriters
  <1> HIDE DEF v
  <1>2. /\ u \in EwfWriters /\ u.pc = w.pc /\ u.chunks = w.chunks /\ u.spoilt = w.spoilt
        /\ u.data = none /\ u.offsets = zero /\ u.pending = w.pending /\ u.fed = w.fed
    BY <1>1 DEF EwfWriters
  <1> HIDE DEF u
  <1>3. /\ t \in EwfWriters /\ t.pc = w.pc /\ t.chunks = w.chunks /\ t.spoilt = FALSE
        /\ t.data = none /\ t.offsets = zero /\ t.pending = w.pending /\ t.fed = w.fed
    BY <1>2 DEF EwfWriters
  <1>4. startSegment(w) = t
    BY <1>d, <1>o DEF startSegment, v, u, EwfWriters
  <1> QED
    BY <1>d, <1>o, <1>3, <1>4

LEMMA PcFields ==
    ASSUME NEW w \in EwfWriters, NEW way \in {"writing", "failed", "finished", "aborted"}
    PROVE  /\ [w EXCEPT !.pc = way] \in EwfWriters /\ [w EXCEPT !.pc = way].pc = way
           /\ [w EXCEPT !.pc = way].chunks = w.chunks /\ [w EXCEPT !.pc = way].spoilt = w.spoilt
           /\ [w EXCEPT !.pc = way].fed = w.fed /\ [w EXCEPT !.pc = way].pending = w.pending
           /\ [w EXCEPT !.pc = way].data = w.data /\ [w EXCEPT !.pc = way].offsets = w.offsets
  BY DEF EwfWriters

LEMMA SpoiltFields ==
    ASSUME NEW w \in EwfWriters
    PROVE  /\ [w EXCEPT !.spoilt = TRUE] \in EwfWriters /\ [w EXCEPT !.spoilt = TRUE].pc = w.pc
           /\ [w EXCEPT !.spoilt = TRUE].chunks = w.chunks
           /\ [w EXCEPT !.spoilt = TRUE].fed = w.fed /\ [w EXCEPT !.spoilt = TRUE].pending = w.pending
           /\ [w EXCEPT !.spoilt = TRUE].data = w.data /\ [w EXCEPT !.spoilt = TRUE].offsets = w.offsets
  BY DEF EwfWriters

\* A writer takes what does not show in the sectors it has.
LEMMA OpenAs ==
    ASSUME NEW jb, NEW w, NEW v \in EwfWriters, NEW closed, NEW b, OpenBy(jb, w, closed, b),
           v.chunks = w.chunks, v.fed = w.fed, v.pending = w.pending, v.data = w.data, v.offsets = w.offsets
    PROVE  OpenBy(jb, v, closed, b)
  BY DEF OpenBy, FedRight, PendingRight, DataRight

LEMMA PaddedIs ==
    ASSUME NEW offsets \in Seq(Nat), NEW length \in Nat
    PROVE  PaddedTable(offsets, length) \in Seq(Nat)
  <1>1. WordLimit \in Nat \ {0}
    BY EwfAssumption
  <1>2. length % WordLimit \in Nat
    BY <1>1, Remainder
  <1>3. PICK entries \in Seq(Nat) : entries = Append(offsets, length % WordLimit)
    BY <1>2, Appendix
  <1>4. PICK n \in Nat : n = (4 - (Len(entries) % 4)) % 4
    <2>1. Len(entries) \in Nat
      OBVIOUS
    <2>2. PICK l \in Nat : l = Len(entries)
      BY <2>1
    <2>3. (4 - (l % 4)) % 4 \in Nat
      OBVIOUS
    <2> QED
      BY <2>2, <2>3
  <1>5. [i \in 1..n |-> 0] \in Seq(Nat)
    OBVIOUS
  <1>6. entries \o [i \in 1..n |-> 0] \in Seq(Nat)
    BY <1>5, Joined
  <1> QED
    BY <1>3, <1>4, <1>6 DEF PaddedTable

LEMMA CloseIs ==
    ASSUME NEW w \in EwfWriters, NEW closing \in BOOLEAN
    PROVE  /\ closeSegment(w, closing) \in EwfSegments(job)
           /\ closeSegment(w, closing).data = w.data /\ closeSegment(w, closing).total = 1
           /\ closeSegment(w, closing).table = PaddedTable(w.offsets, Len(w.data))
           /\ closeSegment(w, closing).sized = ~w.spoilt
           /\ closeSegment(w, closing).errors = (IF closing THEN job.damaged ELSE {})
           /\ closeSegment(w, closing).digest = (IF closing THEN w.fed ELSE NoDigest)
  <1>1. w.spoilt \in BOOLEAN /\ w.data \in Seq(StoredByte) /\ w.offsets \in Seq(Nat) /\ w.fed \in Seq(Nat)
    BY DEF EwfWriters
  <1>2. PaddedTable(w.offsets, Len(w.data)) \in Seq(Nat)
    <2>1. Len(w.data) \in Nat
      BY <1>1
    <2> QED
      BY <1>1, <2>1, PaddedIs
  <1>3. (IF closing THEN job.damaged ELSE {}) \in {{}, job.damaged}
    OBVIOUS
  <1>4. (IF closing THEN w.fed ELSE NoDigest) \in Seq(Int)
    <2>1. w.fed \in Seq(Int)
      BY <1>1, SeqWider
    <2>2. NoDigest \in Seq(Int)
      BY DEF NoDigest
    <2> QED
      BY <2>1, <2>2
  <1>5. (~w.spoilt) \in BOOLEAN
    BY <1>1
  <1> QED
    BY <1>1, <1>2, <1>3, <1>4, <1>5 DEF closeSegment, EwfSegments

\* The writer behind its chunk: nothing is held back, its last chunk may be short.
FlushedBy(jb, w, closed, b) ==
    /\ w \in EwfWriters /\ FedRight(jb, w) /\ w.pending = <<>>
    /\ Laid(jb, closed, b, ChunksEnd(b[Len(closed) + 1]))
    /\ DataRight(jb, w, b[Len(closed) + 1], Len(w.fed))
    /\ Len(w.fed) <= ChunksEnd(w.chunks)
    /\ w.chunks > 0 => ChunksEnd(w.chunks - 1) < Len(w.fed)
    /\ b[Len(closed) + 1] = w.chunks => Len(w.fed) = ChunksEnd(w.chunks)

LEMMA FedKeeps ==
    ASSUME job \in EwfJobs, NEW w, NEW closed, NEW b, OpenBy(job, w, closed, b), Len(w.fed) < job.size,
           NEW s, s = SectorGiven(job, Len(w.fed) + 1)
    PROVE  /\ OpenBy(job, Fed(w, s), closed, b) /\ Fed(w, s).pc = w.pc /\ Fed(w, s).spoilt = w.spoilt
           /\ Len(Fed(w, s).pending) = Len(w.pending) + 1 /\ Len(Fed(w, s).fed) = Len(w.fed) + 1
           /\ Len(w.pending) \in Nat /\ Len(w.fed) \in Nat
  <1>1. /\ w \in EwfWriters /\ FedRight(job, w) /\ PendingRight(job, w)
        /\ Laid(job, closed, b, ChunksEnd(b[Len(closed) + 1]))
        /\ DataRight(job, w, b[Len(closed) + 1], ChunksEnd(w.chunks))
    BY DEF OpenBy
  <1>2. w.chunks \in Nat /\ w.fed \in Seq(Nat) /\ w.pending \in Seq(Nat)
    BY <1>1 DEF EwfWriters
  <1>3. PICK n \in Nat : n = Len(w.fed)
    BY <1>2
  <1>4. PICK m \in Nat : m = Len(w.pending)
    BY <1>2
  <1>5. PICK c \in Nat : c = ChunksEnd(w.chunks)
    BY <1>2, ChunkEnds
  <1>6. n = c + m /\ w.pending = SectorsGiven(job, c, m)
    BY <1>1, <1>3, <1>4, <1>5 DEF PendingRight
  <1>7. w.fed = SectorsGiven(job, 0, n) /\ n < job.size
    BY <1>1, <1>3 DEF FedRight
  <1>8. s = SectorGiven(job, 0 + (n + 1)) /\ s = SectorGiven(job, c + (m + 1))
    <2>1. n + 1 = 0 + (n + 1) /\ n + 1 = c + (m + 1)
      BY <1>6
    <2> QED
      BY <1>3, <2>1
  <1>9. Append(w.fed, s) = SectorsGiven(job, 0, n + 1)
    <2>1. Append(SectorsGiven(job, 0, n), SectorGiven(job, 0 + (n + 1))) = SectorsGiven(job, 0, n + 1)
      BY GivenMore
    <2> QED
      BY <1>7, <1>8, <2>1
  <1>10. Append(w.pending, s) = SectorsGiven(job, c, m + 1)
    <2>1. Append(SectorsGiven(job, c, m), SectorGiven(job, c + (m + 1))) = SectorsGiven(job, c, m + 1)
      BY GivenMore
    <2> QED
      BY <1>6, <1>8, <2>1
  <1>11. s \in Nat
    BY <1>3, <1>8 DEF SectorGiven
  <1>12. PICK v : v = Fed(w, s)
    OBVIOUS
  <1>13. /\ v \in EwfWriters /\ v.pc = w.pc /\ v.chunks = w.chunks /\ v.spoilt = w.spoilt
         /\ v.data = w.data /\ v.offsets = w.offsets
         /\ v.pending = Append(w.pending, s) /\ v.fed = Append(w.fed, s)
    BY <1>1, <1>11, <1>12, FedFields
  <1>14. Len(v.fed) = n + 1 /\ Len(v.pending) = m + 1
    BY <1>2, <1>3, <1>4, <1>11, <1>13, Appendix
  <1>15. FedRight(job, v)
    <2>1. n + 1 <= job.size
      BY <1>7, JobFacts
    <2> QED
      BY <1>9, <1>13, <1>14, <2>1 DEF FedRight
  <1>16. PendingRight(job, v)
    <2>1. n + 1 = c + (m + 1)
      BY <1>6
    <2> QED
      BY <1>5, <1>10, <1>13, <1>14, <2>1 DEF PendingRight
  <1>17. DataRight(job, v, b[Len(closed) + 1], ChunksEnd(v.chunks))
    BY <1>1, <1>13 DEF DataRight
  <1>18. OpenBy(job, v, closed, b)
    BY <1>1, <1>13, <1>15, <1>16, <1>17 DEF OpenBy
  <1> QED
    BY <1>3, <1>4, <1>12, <1>13, <1>14, <1>18

LEMMA FlushKeeps ==
    ASSUME job \in EwfJobs, NEW w, NEW closed, NEW b, OpenBy(job, w, closed, b), Len(w.pending) <= EwfChunk
    PROVE  /\ FlushedBy(job, flushChunk(w), closed, b) /\ flushChunk(w).pc = w.pc
           /\ flushChunk(w).spoilt = w.spoilt /\ flushChunk(w).fed = w.fed
           /\ Len(w.pending) = EwfChunk => Len(w.fed) = ChunksEnd(flushChunk(w).chunks)
  <1>1. /\ w \in EwfWriters /\ FedRight(job, w) /\ PendingRight(job, w)
        /\ Laid(job, closed, b, ChunksEnd(b[Len(closed) + 1]))
        /\ DataRight(job, w, b[Len(closed) + 1], ChunksEnd(w.chunks))
    BY DEF OpenBy
  <1>2. /\ w.chunks \in Nat /\ w.fed \in Seq(Nat) /\ w.pending \in Seq(Nat) /\ w.data \in Seq(StoredByte)
        /\ w.offsets \in Seq(Nat)
    BY <1>1 DEF EwfWriters
  <1>3. PICK n \in Nat : n = Len(w.fed)
    BY <1>2
  <1>4. PICK m \in Nat : m = Len(w.pending)
    BY <1>2
  <1>5. PICK c \in Nat : c = w.chunks
    BY <1>2
  <1>6. PICK at \in Nat : at = ChunksEnd(c)
    BY ChunkEnds
  <1>7. n = at + m /\ w.pending = SectorsGiven(job, at, m) /\ EwfChunk \in Nat \ {0} /\ m <= EwfChunk
    BY <1>1, <1>3, <1>4, <1>5, <1>6, EwfAssumption DEF PendingRight
  <1>8. PICK before \in Nat : before = b[Len(closed) + 1] /\ c = before + Len(w.offsets)
    BY <1>1, <1>5 DEF DataRight
  <1>9. CASE w.pending = <<>>
    <2>1. flushChunk(w) = w
      BY <1>9 DEF flushChunk
    <2>2. m = 0
      BY <1>4, <1>9
    <2>3. n = at
      BY <1>7, <2>2
    <2>4. c > 0 => ChunksEnd(c - 1) < n
      <3>1. c > 0 => c - 1 \in Nat /\ at = ChunksEnd(c - 1) + EwfChunk
        BY <1>6, ChunkEnds
      <3>2. c > 0 => ChunksEnd(c - 1) \in Nat
        BY <3>1, ChunkEnds
      <3> QED
        BY <1>7, <2>3, <3>1, <3>2
    <2>5. DataRight(job, w, b[Len(closed) + 1], Len(w.fed))
      BY <1>1, <1>3, <1>5, <1>6, <2>3
    <2>6. FlushedBy(job, w, closed, b)
      BY <1>1, <1>3, <1>5, <1>6, <1>9, <2>3, <2>4, <2>5 DEF FlushedBy
    <2>7. m # EwfChunk
      BY <1>7, <2>2
    <2> QED
      BY <1>4, <2>1, <2>6, <2>7
  <1>10. CASE w.pending # <<>>
    <2>1. m > 0
      BY <1>2, <1>4, <1>10, NoLength
    <2>2. c + 1 \in Nat /\ c + 1 > 0 /\ (c + 1) - 1 = c /\ ChunksEnd(c + 1) = at + EwfChunk
      BY <1>6, ChunkEnds
    <2>3. at < n /\ n <= ChunksEnd(c + 1) /\ n - at = m
      BY <1>7, <2>1, <2>2
    <2>4. w.pending = PlainOf(job, c + 1, n)
      <3>1. ChunksEnd((c + 1) - 1) = at
        BY <1>6, <2>2
      <3>2. PlainOf(job, c + 1, n) = SectorsGiven(job, ChunksEnd((c + 1) - 1), n - ChunksEnd((c + 1) - 1))
        BY <2>2, <2>3, <3>1, PlainIs
      <3> QED
        BY <1>7, <2>3, <3>1, <3>2
    <2>5. PICK stored : stored = InChunk(c + 1, w.pending)
      OBVIOUS
    <2>6. before + Len(w.offsets) + 1 = c + 1 /\ before + Len(w.offsets) = c
      BY <1>8
    <2>7. ChunkData(job, w.data, w.offsets, before, at)
      BY <1>1, <1>5, <1>6, <1>8 DEF DataRight
    <2>8. /\ w.data \o stored \in Seq(StoredByte)
          /\ ChunkData(job, w.data \o stored, Append(w.offsets, Len(w.data)), before, n)
      <3>1. n <= job.size
        BY <1>1, <1>3 DEF FedRight
      <3>2. ChunksEnd(before + Len(w.offsets)) = at /\ ChunksEnd(before + Len(w.offsets) + 1) = ChunksEnd(c + 1)
        BY <1>6, <2>6
      <3>3. stored = InChunk(before + Len(w.offsets) + 1, PlainOf(job, before + Len(w.offsets) + 1, n))
        BY <2>4, <2>5, <2>6
      <3> QED
        BY <1>2, <2>3, <2>7, <3>1, <3>2, <3>3, DataGrows
    <2>9. PICK v : v = flushChunk(w)
      OBVIOUS
    <2>10. /\ v \in EwfWriters /\ v.pc = w.pc /\ v.chunks = c + 1 /\ v.spoilt = w.spoilt
           /\ v.fed = w.fed /\ v.pending = <<>>
           /\ v.data = w.data \o stored /\ v.offsets = Append(w.offsets, Len(w.data))
      BY <1>1, <1>5, <1>10, <2>5, <2>8, <2>9, FlushFields
    <2>11. Len(v.offsets) = Len(w.offsets) + 1
      <3>1. Len(w.data) \in Nat
        BY <1>2
      <3> QED
        BY <1>2, <2>10, <3>1, Appendix
    <2>12. DataRight(job, v, before, n)
      <3>1. v.chunks = before + Len(v.offsets)
        <4>1. PICK l \in Nat : l = Len(w.offsets)
          BY <1>2
        <4>2. c + 1 = before + (l + 1)
          BY <1>8, <4>1
        <4>3. Len(v.offsets) = l + 1 /\ v.chunks = c + 1
          BY <2>10, <2>11, <4>1
        <4> QED
          BY <4>2, <4>3
      <3> QED
        BY <2>8, <2>10, <3>1 DEF DataRight
    <2>13. FedRight(job, v)
      BY <1>1, <2>10 DEF FedRight
    <2>14. before # c + 1
      <3>1. Len(w.offsets) \in Nat
        BY <1>2
      <3> QED
        BY <1>8, <3>1
    <2>15. FlushedBy(job, v, closed, b)
      <3>1. Len(v.fed) = n
        BY <1>3, <2>10
      <3>2. v.chunks > 0 => ChunksEnd(v.chunks - 1) < Len(v.fed)
        BY <1>6, <2>2, <2>3, <2>10, <3>1
      <3>3. Len(v.fed) <= ChunksEnd(v.chunks)
        BY <2>3, <2>10, <3>1
      <3> QED
        BY <1>1, <1>8, <2>10, <2>12, <2>13, <2>14, <3>1, <3>2, <3>3 DEF FlushedBy
    <2>16. m = EwfChunk => n = ChunksEnd(v.chunks)
      BY <1>7, <2>2, <2>10
    <2> QED
      BY <1>3, <1>4, <2>9, <2>10, <2>15, <2>16
  <1> QED
    BY <1>9, <1>10

LEMMA FlushedIsOpen ==
    ASSUME NEW jb, NEW w, NEW closed, NEW b, FlushedBy(jb, w, closed, b), Len(w.fed) = ChunksEnd(w.chunks)
    PROVE  OpenBy(jb, w, closed, b)
  <1>1. w.chunks \in Nat
    BY DEF FlushedBy, EwfWriters
  <1>2. PICK c \in Nat : c = ChunksEnd(w.chunks)
    BY <1>1, ChunkEnds
  <1>3. SectorsGiven(jb, c, 0) = <<>>
    BY GivenIs, NoLength
  <1>4. Len(w.pending) = 0 /\ w.pending = <<>>
    BY EmptySeq DEF FlushedBy
  <1>5. PendingRight(jb, w)
    BY <1>2, <1>3, <1>4 DEF PendingRight
  <1> QED
    BY <1>5 DEF FlushedBy, OpenBy

LEMMA SegmentCloses ==
    ASSUME job \in EwfJobs, NEW w, NEW closed, NEW b, FlushedBy(job, w, closed, b), NEW closing \in BOOLEAN
    PROVE  Laid(job, Append(closed, closeSegment(w, closing)), Append(b, w.chunks), Len(w.fed))
  <1>1. /\ w \in EwfWriters /\ Laid(job, closed, b, ChunksEnd(b[Len(closed) + 1]))
        /\ DataRight(job, w, b[Len(closed) + 1], Len(w.fed))
        /\ Len(w.fed) <= ChunksEnd(w.chunks)
        /\ w.chunks > 0 => ChunksEnd(w.chunks - 1) < Len(w.fed)
        /\ b[Len(closed) + 1] = w.chunks => Len(w.fed) = ChunksEnd(w.chunks)
    BY DEF FlushedBy
  <1>2. w.chunks \in Nat /\ w.fed \in Seq(Nat) /\ w.offsets \in Seq(Nat)
    BY <1>1 DEF EwfWriters
  <1>3. PICK seg \in EwfSegments(job) : seg = closeSegment(w, closing) /\ seg.data = w.data
                                          /\ seg.table = PaddedTable(w.offsets, Len(w.data))
    BY <1>1, CloseIs
  <1>4. PICK more : more = Append(closed, seg)
    OBVIOUS
  <1>5. PICK e : e = Append(b, w.chunks)
    OBVIOUS
  <1>6. PICK n \in Nat : n = Len(closed)
    BY <1>1 DEF Laid
  <1>7. /\ closed \in Seq(EwfSegments(job)) /\ b \in Seq(Nat) /\ Len(b) = n + 1 /\ b[1] = 0
        /\ \A k \in 1..n : SegmentHolds(job, closed[k], b[k], b[k + 1], SectorsIn(closed, b, k, ChunksEnd(b[n + 1])))
    BY <1>1, <1>6 DEF Laid
  <1>8. /\ more \in Seq(EwfSegments(job)) /\ Len(more) = n + 1 /\ more[n + 1] = seg
        /\ \A i \in 1..n : more[i] = closed[i]
    BY <1>4, <1>6, <1>7, Appendix
  <1>9. /\ e \in Seq(Nat) /\ Len(e) = n + 2 /\ e[n + 2] = w.chunks /\ \A i \in 1..(n + 1) : e[i] = b[i]
    <2>1. /\ e \in Seq(Nat) /\ Len(e) = Len(b) + 1 /\ e[Len(b) + 1] = w.chunks /\ \A i \in 1..Len(b) : e[i] = b[i]
      BY <1>2, <1>5, <1>7, Appendix
    <2>2. Len(b) = n + 1 /\ Len(b) + 1 = n + 2
      BY <1>7
    <2> QED
      BY <2>1, <2>2
  <1>10. ASSUME NEW k \in 1..n
         PROVE  SegmentHolds(job, more[k], e[k], e[k + 1], SectorsIn(more, e, k, Len(w.fed)))
    <2>1. k \in 1..(n + 1) /\ k + 1 \in 1..(n + 1) /\ k # n + 1
      OBVIOUS
    <2>2. SectorsIn(more, e, k, Len(w.fed)) = ChunksEnd(b[k + 1])
      BY <1>8, <1>9, <2>1 DEF SectorsIn
    <2>3. SectorsIn(closed, b, k, ChunksEnd(b[n + 1])) = ChunksEnd(b[k + 1])
      BY <1>6 DEF SectorsIn
    <2>4. SegmentHolds(job, closed[k], b[k], b[k + 1], ChunksEnd(b[k + 1]))
      BY <1>7, <2>3
    <2> QED
      BY <1>8, <1>9, <2>1, <2>2, <2>4
  <1>11. SegmentHolds(job, more[n + 1], e[n + 1], e[(n + 1) + 1], SectorsIn(more, e, n + 1, Len(w.fed)))
    <2>1. SectorsIn(more, e, n + 1, Len(w.fed)) = Len(w.fed)
      BY <1>8 DEF SectorsIn
    <2>2. e[n + 1] = b[n + 1] /\ e[(n + 1) + 1] = w.chunks
      <3>1. (n + 1) + 1 = n + 2 /\ n + 1 \in 1..(n + 1)
        OBVIOUS
      <3> QED
        BY <1>9, <3>1
    <2>3. PICK before \in Nat : before = b[n + 1] /\ w.chunks = before + Len(w.offsets)
                                 /\ ChunkData(job, w.data, w.offsets, before, Len(w.fed))
      BY <1>1, <1>6 DEF DataRight
    <2>4. PICK filled \in Nat : filled = Len(w.fed)
      BY <1>2
    <2>5. PICK c \in Nat : c = w.chunks
      BY <1>2
    <2>6. Len(w.offsets) \in Nat
      BY <1>2
    <2>7. before <= c /\ Len(w.offsets) = c - before
      BY <2>3, <2>5, <2>6
    <2>8. before < c => c > 0
      OBVIOUS
    <2>9. SegmentHolds(job, seg, before, c, filled)
      BY <1>1, <1>2, <1>3, <1>6, <2>3, <2>4, <2>5, <2>7, <2>8 DEF SegmentHolds
    <2> QED
      BY <1>8, <2>1, <2>2, <2>3, <2>4, <2>5, <2>9
  <1>12. e[1] = 0
    BY <1>7, <1>9
  <1>13. \A k \in 1..Len(more) : k \in 1..n \/ k = n + 1
    BY <1>8
  <1>14. Laid(job, more, e, Len(w.fed))
    <2>1. Len(e) = Len(more) + 1
      BY <1>8, <1>9
    <2> QED
      BY <1>8, <1>9, <1>10, <1>11, <1>12, <1>13, <2>1 DEF Laid
  <1> QED
    BY <1>3, <1>4, <1>5, <1>14

LEMMA SegmentRotates ==
    ASSUME job \in EwfJobs, NEW w, NEW closed, NEW b, FlushedBy(job, w, closed, b), Len(w.fed) = ChunksEnd(w.chunks)
    PROVE  OpenBy(job, startSegment(w), Append(closed, closeSegment(w, FALSE)), Append(b, w.chunks))
  <1>1. PICK more : more = Append(closed, closeSegment(w, FALSE))
    OBVIOUS
  <1>2. PICK e : e = Append(b, w.chunks)
    OBVIOUS
  <1>3. Laid(job, more, e, Len(w.fed))
    BY <1>1, <1>2, SegmentCloses
  <1>4. w \in EwfWriters /\ FedRight(job, w) /\ w.pending = <<>>
    BY DEF FlushedBy
  <1>5. w.chunks \in Nat
    BY <1>4 DEF EwfWriters
  <1>6. e[Len(more) + 1] = w.chunks
    <2>1. closed \in Seq(EwfSegments(job)) /\ b \in Seq(Nat) /\ Len(b) = Len(closed) + 1
      BY DEF FlushedBy, Laid
    <2>2. Len(e) = Len(b) + 1 /\ e[Len(b) + 1] = w.chunks
      BY <1>2, <1>5, <2>1, Appendix
    <2>3. Len(e) = Len(more) + 1
      BY <1>3 DEF Laid
    <2> QED
      BY <2>2, <2>3
  <1>7. PICK v : v = startSegment(w)
    OBVIOUS
  <1>8. /\ v \in EwfWriters /\ v.pc = w.pc /\ v.chunks = w.chunks /\ v.fed = w.fed
        /\ v.pending = w.pending /\ v.data = <<>> /\ v.offsets = <<>>
    BY <1>4, <1>7, StartFields
  <1>9. PICK c \in Nat : c = w.chunks
    BY <1>5
  <1>10. PICK at \in Nat : at = ChunksEnd(c)
    BY ChunkEnds
  <1>11. SectorsGiven(job, at, 0) = <<>>
    BY GivenIs, NoLength
  <1>12. PendingRight(job, v)
    <2>1. Len(<<>>) = 0
      BY EmptySeq
    <2> QED
      BY <1>4, <1>8, <1>9, <1>10, <1>11, <2>1 DEF PendingRight
  <1>13. ChunkData(job, <<>>, <<>>, c, at)
    <2>1. Len(<<>>) = 0
      BY EmptySeq
    <2>2. CASE job.packed
      <3>1. PackedData(job, <<>>, <<>>, c, at)
        BY <2>1 DEF PackedData
      <3> QED
        BY <2>2, <3>1 DEF ChunkData
    <2>3. CASE ~job.packed
      <3>1. SectorsTo(c + 0, at) - ChunksEnd(c) = 0
        BY <1>10 DEF SectorsTo
      <3>2. RawData(job, <<>>, c, 0, at)
        BY <1>10, <1>11, <3>1 DEF RawData
      <3> QED
        BY <2>1, <2>3, <3>2 DEF ChunkData
    <2> QED
      BY <2>2, <2>3
  <1>14. DataRight(job, v, c, at)
    <2>1. Len(v.offsets) = 0
      BY <1>8, EmptySeq
    <2>2. v.chunks = c + Len(v.offsets)
      BY <1>8, <1>9, <2>1
    <2> QED
      BY <1>8, <1>13, <2>2 DEF DataRight
  <1>15. FedRight(job, v)
    BY <1>4, <1>8 DEF FedRight
  <1>16. OpenBy(job, v, more, e)
    BY <1>3, <1>6, <1>8, <1>9, <1>10, <1>12, <1>14, <1>15 DEF OpenBy
  <1> QED
    BY <1>1, <1>2, <1>7, <1>16

OpenSeal(closed) ==
    \A k \in 1..Len(closed) : closed[k].total = 1 /\ closed[k].digest = NoDigest /\ closed[k].errors = {}
Sound(w, closed) == ~w.spoilt /\ \A k \in 1..Len(closed) : closed[k].sized

Writing(jb, w, closed) ==
    /\ \E b : OpenBy(jb, w, closed, b)
    /\ Len(w.pending) < EwfChunk /\ OpenSeal(closed)

EwfOuts(jb) == [writer : EwfWriters, closed : Seq(EwfSegments(jb))]

LEMMA WritingTypes ==
    ASSUME NEW jb, NEW w, NEW closed, Writing(jb, w, closed)
    PROVE  w \in EwfWriters /\ closed \in Seq(EwfSegments(jb)) /\ Len(w.fed) \in Nat /\ Len(w.fed) <= jb.size
  BY DEF Writing, OpenBy, Laid, FedRight, EwfWriters

LEMMA MoreSealed ==
    ASSUME NEW w \in EwfWriters, NEW closed \in Seq(EwfSegments(job)), OpenSeal(closed)
    PROVE  /\ OpenSeal(Append(closed, closeSegment(w, FALSE)))
           /\ Len(Append(closed, closeSegment(w, FALSE))) = Len(closed) + 1 /\ Len(closed) \in Nat
           /\ Sound(w, closed) => Sound(startSegment(w), Append(closed, closeSegment(w, FALSE)))
  <1>1. PICK seg \in EwfSegments(job) : /\ seg = closeSegment(w, FALSE) /\ seg.total = 1 /\ seg.digest = NoDigest
                                        /\ seg.errors = {} /\ seg.sized = ~w.spoilt
    BY CloseIs
  <1>2. PICK n \in Nat : n = Len(closed)
    OBVIOUS
  <1>3. PICK more : more = Append(closed, seg)
    OBVIOUS
  <1>4. Len(more) = n + 1 /\ more[n + 1] = seg /\ \A i \in 1..n : more[i] = closed[i]
    BY <1>2, <1>3, Appendix
  <1>5. \A k \in 1..(n + 1) : k \in 1..n \/ k = n + 1
    OBVIOUS
  <1>6. OpenSeal(more)
    BY <1>1, <1>2, <1>4, <1>5 DEF OpenSeal
  <1>7. Sound(w, closed) => Sound(startSegment(w), more)
    BY <1>1, <1>2, <1>4, <1>5, StartFields DEF Sound
  <1> QED
    BY <1>1, <1>2, <1>3, <1>4, <1>6, <1>7

LEMMA SectorKeeps ==
    ASSUME job \in EwfJobs, NEW w, NEW closed, Writing(job, w, closed), Len(w.fed) < job.size,
           NEW s, s = SectorGiven(job, Len(w.fed) + 1), NEW r, r = WriteSector([writer |-> w, closed |-> closed], s)
    PROVE  /\ r \in EwfOuts(job) /\ Writing(job, r.writer, r.closed) /\ r.writer.pc = w.pc
           /\ Len(r.writer.fed) = Len(w.fed) + 1 /\ Len(r.closed) \in Nat /\ Len(closed) <= Len(r.closed)
           /\ Sound(w, closed) => Sound(r.writer, r.closed)
  <1>1. PICK b : OpenBy(job, w, closed, b)
    BY DEF Writing
  <1>2. PICK v : v = Fed(w, s)
    OBVIOUS
  <1>3. /\ OpenBy(job, v, closed, b) /\ v.pc = w.pc /\ v.spoilt = w.spoilt
        /\ Len(v.pending) = Len(w.pending) + 1 /\ Len(v.fed) = Len(w.fed) + 1
        /\ Len(w.pending) \in Nat /\ Len(w.fed) \in Nat
    BY <1>1, <1>2, FedKeeps
  <1>4. closed \in Seq(EwfSegments(job)) /\ Len(closed) \in Nat /\ OpenSeal(closed) /\ v \in EwfWriters
    BY <1>1, <1>3 DEF OpenBy, Laid, Writing
  <1>5. Len(v.pending) <= EwfChunk /\ Len(v.pending) \in Nat /\ EwfChunk \in Nat \ {0}
    BY <1>3, EwfAssumption DEF Writing
  <1>6. Sound(w, closed) => Sound(v, closed)
    BY <1>3 DEF Sound
  <1>7. r = CASE Len(v.pending) < EwfChunk -> [writer |-> v, closed |-> closed]
              [] Len(v.pending) = EwfChunk /\ ~Rotates(v) -> [writer |-> flushChunk(v), closed |-> closed]
              [] OTHER -> [writer |-> startSegment(flushChunk(v)),
                           closed |-> Append(closed, closeSegment(flushChunk(v), FALSE))]
    BY <1>2 DEF WriteSector
  <1>8. CASE Len(v.pending) < EwfChunk
    <2>1. r = [writer |-> v, closed |-> closed]
      <3>1. ~(Len(v.pending) = EwfChunk)
        BY <1>5, <1>8
      <3> QED
        BY <1>7, <1>8, <3>1
    <2>2. Writing(job, v, closed)
      BY <1>3, <1>4, <1>8 DEF Writing
    <2>3. r \in EwfOuts(job) /\ r.writer = v /\ r.closed = closed
      BY <1>4, <2>1 DEF EwfOuts
    <2> QED
      BY <1>3, <1>4, <1>6, <2>2, <2>3
  <1>9. CASE Len(v.pending) = EwfChunk
    <2>1. PICK u : u = flushChunk(v)
      OBVIOUS
    <2>2. /\ FlushedBy(job, u, closed, b) /\ u.pc = w.pc /\ u.spoilt = w.spoilt /\ u.fed = v.fed
          /\ Len(u.fed) = ChunksEnd(u.chunks)
      BY <1>3, <1>5, <1>9, <2>1, FlushKeeps
    <2>3. u \in EwfWriters /\ u.pending = <<>>
      BY <2>2 DEF FlushedBy
    <2>4. Len(<<>>) = 0 /\ 0 < EwfChunk
      BY <1>5, EmptySeq
    <2>5. Sound(w, closed) => Sound(u, closed)
      BY <2>2 DEF Sound
    <2>6. CASE ~Rotates(v)
      <3>1. r = [writer |-> u, closed |-> closed]
        <4>1. ~(Len(v.pending) < EwfChunk)
          BY <1>5, <1>9
        <4> QED
          BY <1>7, <1>9, <2>1, <2>6, <4>1
      <3>2. Writing(job, u, closed)
        <4>1. OpenBy(job, u, closed, b)
          BY <2>2, FlushedIsOpen
        <4> QED
          BY <1>4, <2>3, <2>4, <4>1 DEF Writing
      <3>3. r \in EwfOuts(job) /\ r.writer = u /\ r.closed = closed
        BY <1>4, <2>3, <3>1 DEF EwfOuts
      <3> QED
        BY <1>3, <1>4, <2>2, <2>5, <3>2, <3>3
    <2>7. CASE Rotates(v)
      <3>1. PICK t : t = startSegment(u)
        OBVIOUS
      <3>2. PICK more : more = Append(closed, closeSegment(u, FALSE))
        OBVIOUS
      <3>3. r = [writer |-> t, closed |-> more]
        <4>1. ~(Len(v.pending) < EwfChunk)
          BY <1>5, <1>9
        <4> QED
          BY <1>7, <2>1, <2>7, <3>1, <3>2, <4>1
      <3>4. /\ t \in EwfWriters /\ t.pc = w.pc /\ t.fed = v.fed /\ t.pending = <<>>
        BY <2>2, <2>3, <3>1, StartFields
      <3>5. OpenBy(job, t, more, Append(b, u.chunks))
        BY <2>2, <3>1, <3>2, SegmentRotates
      <3>6. OpenSeal(more) /\ Len(more) = Len(closed) + 1 /\ (Sound(u, closed) => Sound(t, more))
        BY <1>4, <2>3, <3>1, <3>2, MoreSealed
      <3>7. Writing(job, t, more)
        BY <2>4, <3>4, <3>5, <3>6 DEF Writing
      <3>8. more \in Seq(EwfSegments(job))
        BY <3>5 DEF OpenBy, Laid
      <3>9. r \in EwfOuts(job) /\ r.writer = t /\ r.closed = more
        BY <3>3, <3>4, <3>8 DEF EwfOuts
      <3>10. Len(more) \in Nat /\ Len(closed) <= Len(more)
        BY <1>4, <3>6
      <3> QED
        BY <1>3, <2>5, <3>4, <3>6, <3>7, <3>9, <3>10
    <2> QED
      BY <2>6, <2>7
  <1> QED
    BY <1>5, <1>8, <1>9

\* The sectors of a block, one behind the other
BlockOf(w, closed, read, count) ==
    LET after[n \in 0..count] ==
            IF n = 0 THEN [writer |-> w, closed |-> closed]
            ELSE WriteSector(after[n - 1], Acquired(read + n))
    IN  after

LEMMA BlockFacts ==
    ASSUME job \in EwfJobs, NEW w, NEW closed, Writing(job, w, closed), NEW count \in Nat,
           NEW read \in Nat, read = Len(w.fed), read + count <= job.size
    PROVE  LET out == BlockOf(w, closed, read, count)[count]
           IN  /\ out \in EwfOuts(job) /\ Writing(job, out.writer, out.closed) /\ out.writer.pc = w.pc
               /\ Len(out.closed) \in Nat /\ Len(closed) <= Len(out.closed)
               /\ Sound(w, closed) => Sound(out.writer, out.closed)
  <1> DEFINE T == {x \in EwfOuts(job) : Writing(job, x.writer, x.closed)}
             first == [writer |-> w, closed |-> closed]
             step == [p \in (1..count) \X T |->
                        IF Len(p[2].writer.fed) = read + p[1] - 1 THEN WriteSector(p[2], Acquired(read + p[1])) ELSE p[2]]
             after == BlockOf(w, closed, read, count)
             Good(x, k) == /\ x \in T /\ Len(x.writer.fed) = read + k /\ x.writer.pc = w.pc
                           /\ Len(x.closed) \in Nat /\ Len(closed) <= Len(x.closed)
                           /\ Sound(w, closed) => Sound(x.writer, x.closed)
  <1>0. job.size \in Nat
    BY JobFacts
  <1>1. Good(first, 0)
    <2>1. w \in EwfWriters /\ closed \in Seq(EwfSegments(job))
      BY WritingTypes
    <2>2. first \in EwfOuts(job) /\ first.writer = w /\ first.closed = closed
      BY <2>1 DEF EwfOuts
    <2>3. Len(closed) \in Nat
      BY <2>1
    <2> HIDE DEF first
    <2> QED
      BY <2>2, <2>3
  <1>2. ASSUME NEW k \in 1..count, NEW x \in T, Len(x.writer.fed) = read + k - 1
        PROVE  LET r == WriteSector(x, Acquired(read + k))
               IN  /\ r \in T /\ Len(r.writer.fed) = read + k /\ r.writer.pc = x.writer.pc
                   /\ Len(r.closed) \in Nat /\ Len(x.closed) <= Len(r.closed)
                   /\ Sound(x.writer, x.closed) => Sound(r.writer, r.closed)
    <2>1. PICK v, c : v = x.writer /\ c = x.closed
      OBVIOUS
    <2>2. x = [writer |-> v, closed |-> c]
      BY <2>1 DEF EwfOuts
    <2>3. Writing(job, v, c) /\ Len(v.fed) = read + k - 1
      BY <1>2, <2>1
    <2>4. PICK s : s = Acquired(read + k)
      OBVIOUS
    <2>5. PICK m \in Nat : m = read + k - 1 /\ m + 1 = read + k /\ m < job.size
      <3>1. read + k - 1 \in Nat /\ (read + k - 1) + 1 = read + k /\ read + k - 1 < job.size
        BY <1>0
      <3> QED
        BY <3>1
    <2>6. s = SectorGiven(job, Len(v.fed) + 1) /\ Len(v.fed) < job.size
      BY <2>3, <2>4, <2>5 DEF Acquired, SectorGiven
    <2>7. PICK r : r = WriteSector([writer |-> v, closed |-> c], s)
      OBVIOUS
    <2>8. /\ r \in EwfOuts(job) /\ Writing(job, r.writer, r.closed) /\ r.writer.pc = v.pc
          /\ Len(r.writer.fed) = Len(v.fed) + 1 /\ Len(r.closed) \in Nat /\ Len(c) <= Len(r.closed)
          /\ Sound(v, c) => Sound(r.writer, r.closed)
      BY <2>3, <2>6, <2>7, SectorKeeps
    <2>9. r \in T /\ Len(r.writer.fed) = read + k
      BY <2>3, <2>5, <2>8
    <2>10. WriteSector(x, Acquired(read + k)) = r
      BY <2>2, <2>4, <2>7
    <2> HIDE DEF T
    <2> QED
      BY <2>1, <2>8, <2>9, <2>10
  <1>3. StepOn(count, T, first, step)
    <2>1. \A k \in 1..count, x \in T :
             (IF Len(x.writer.fed) = read + k - 1 THEN WriteSector(x, Acquired(read + k)) ELSE x) \in T
      BY <1>2
    <2> HIDE DEF T, first
    <2>2. step \in [(1..count) \X T -> T]
      BY <2>1
    <2> HIDE DEF step
    <2> QED
      BY <1>1, <2>2 DEF StepOn
  <1>4. \A k \in 1..count, x \in T :
           Len(x.writer.fed) = read + k - 1 => step[<<k, x>>] = WriteSector(x, Acquired(read + k))
    BY Zenon
  <1> HIDE DEF T, first, step
  <1>5. PICK f : Recursive(f, count, T, first, step)
    BY <1>3, Recursion
  <1>6. \A k \in 0..count : f[k] \in T /\ Len(f[k].writer.fed) = read + k
    <2> DEFINE S == {k \in 0..count : f[k] \in T /\ Len(f[k].writer.fed) = read + k}
    <2>1. 0 \in S
      <3>1. f[0] = first /\ 0 \in 0..count
        BY <1>5 DEF Recursive
      <3> QED
        BY <1>1, <3>1
    <2>2. ASSUME NEW k \in 1..count, k - 1 \in S PROVE k \in S
      <3>1. k \in 0..count /\ read + (k - 1) = read + k - 1
        OBVIOUS
      <3>2. f[k - 1] \in T /\ Len(f[k - 1].writer.fed) = read + k - 1
        BY <2>2, <3>1
      <3>3. f[k] = WriteSector(f[k - 1], Acquired(read + k))
        BY <1>4, <1>5, <3>2 DEF Recursive
      <3> QED
        BY <1>2, <3>1, <3>2, <3>3
    <2> HIDE DEF S
    <2>3. 0..count \subseteq S
      BY <2>1, <2>2, AllUpTo
    <2> QED
      BY <2>3 DEF S
  <1>7. f = [n \in 0..count |-> IF n = 0 THEN first ELSE WriteSector(f[n - 1], Acquired(read + n))]
    <2>1. ASSUME NEW k \in 0..count, k # 0 PROVE f[k] = WriteSector(f[k - 1], Acquired(read + k))
      <3>1. k \in 1..count /\ k - 1 \in 0..count /\ read + (k - 1) = read + k - 1
        BY <2>1
      <3>2. f[k - 1] \in T /\ Len(f[k - 1].writer.fed) = read + k - 1
        BY <1>6, <3>1
      <3> QED
        BY <1>4, <1>5, <3>1, <3>2 DEF Recursive
    <2> QED
      BY <1>5, <2>1 DEF Recursive
  <1>8. after = [n \in 0..count |-> IF n = 0 THEN first ELSE WriteSector(after[n - 1], Acquired(read + n))]
    BY <1>7 DEF BlockOf, first
  <1> HIDE DEF after
  <1>9. after[0] = first /\ \A k \in 1..count : after[k] = WriteSector(after[k - 1], Acquired(read + k))
    <2>1. 0 \in 0..count /\ \A k \in 1..count : k \in 0..count /\ k # 0
      OBVIOUS
    <2> QED
      BY <1>8, <2>1
  <1>10. \A k \in 0..count : Good(after[k], k)
    <2> DEFINE S == {k \in 0..count : Good(after[k], k)}
    <2>1. 0 \in S
      <3>1. 0 \in 0..count
        OBVIOUS
      <3> QED
        BY <1>1, <1>9, <3>1
    <2>2. ASSUME NEW k \in 1..count, k - 1 \in S PROVE k \in S
      <3>1. k \in 0..count /\ read + (k - 1) = read + k - 1
        OBVIOUS
      <3>2. PICK x : x = after[k - 1]
        OBVIOUS
      <3>3. PICK r : r = after[k] /\ r = WriteSector(x, Acquired(read + k))
        BY <1>9, <3>2
      <3>4. /\ x \in T /\ Len(x.writer.fed) = read + k - 1 /\ x.writer.pc = w.pc
            /\ Len(x.closed) \in Nat /\ Len(closed) <= Len(x.closed)
            /\ Sound(w, closed) => Sound(x.writer, x.closed)
        BY <2>2, <3>1, <3>2
      <3>5. /\ r \in T /\ Len(r.writer.fed) = read + k /\ r.writer.pc = x.writer.pc
            /\ Len(r.closed) \in Nat /\ Len(x.closed) <= Len(r.closed)
            /\ Sound(x.writer, x.closed) => Sound(r.writer, r.closed)
        BY <1>2, <3>3, <3>4
      <3>6. Len(closed) <= Len(r.closed)
        <4>1. Len(closed) \in Nat
          BY WritingTypes
        <4> QED
          BY <3>4, <3>5, <4>1
      <3>7. Good(r, k)
        BY <3>4, <3>5, <3>6
      <3> QED
        BY <3>1, <3>3, <3>7
    <2> HIDE DEF S
    <2>3. 0..count \subseteq S
      BY <2>1, <2>2, AllUpTo
    <2> QED
      BY <2>3 DEF S
  <1>11. Good(after[count], count)
    BY <1>10
  <1> QED
    BY <1>11 DEF after, T

EndedBy(jb, w, closed, b) ==
    w \in EwfWriters /\ FedRight(jb, w) /\ closed # <<>> /\ Laid(jb, closed, b, Len(w.fed))

\* Only the last segment has a digest, and only of the whole disk; the first
\* one has the total, or the one it began with.
Marked(w, closed) ==
    /\ closed[1].total \in {1, Len(closed)}
    /\ \A k \in 1..(Len(closed) - 1) : closed[k].digest = NoDigest /\ closed[k].errors = {}
LastMarked(jb, w, seg) ==
    /\ w.pc = "finished" => seg.digest = w.fed /\ seg.errors = jb.damaged /\ Len(w.fed) = jb.size
    /\ w.pc = "aborted" => seg.digest = NoDigest /\ seg.errors = {}
Whole(closed) == closed[1].total = Len(closed) /\ \A k \in 1..Len(closed) : closed[k].sized

OpenHolds(jb, w, closed, gone) ==
    w.pc \in {"writing", "failed"} /\ Writing(jb, w, closed) /\ (gone = FALSE => Sound(w, closed))
EndHolds(jb, w, closed, gone) ==
    /\ w.pc \in {"finished", "aborted"} /\ \E b : EndedBy(jb, w, closed, b)
    /\ Marked(w, closed) /\ LastMarked(jb, w, closed[Len(closed)])
    /\ gone = FALSE => Whole(closed)

EwfInv ==
    /\ job \in EwfJobs /\ lost \in BOOLEAN
    /\ OpenHolds(job, writer, segments, lost) \/ EndHolds(job, writer, segments, lost)

\* The total goes into the first segment, which stays as it is besides.
LEMMA TotalFields ==
    ASSUME NEW jb, NEW closed \in Seq(EwfSegments(jb)), closed # <<>>, NEW total \in Nat,
           NEW more, more = [closed EXCEPT ![1].total = total]
    PROVE  /\ more \in Seq(EwfSegments(jb)) /\ Len(more) = Len(closed) /\ more[1].total = total /\ Len(closed) \in Nat \ {0}
           /\ \A k \in 1..Len(closed) : /\ more[k].data = closed[k].data /\ more[k].table = closed[k].table
                                        /\ more[k].digest = closed[k].digest /\ more[k].errors = closed[k].errors
                                        /\ more[k].sized = closed[k].sized
  <1>1. PICK n \in Nat \ {0} : n = Len(closed)
    BY EmptySeq
  <1>2. closed \in [1..n -> EwfSegments(jb)] /\ 1 \in 1..n
    BY <1>1
  <1>3. PICK one \in EwfSegments(jb) : one = closed[1]
    BY <1>2
  <1>4. PICK new : new = [one EXCEPT !.total = total]
    OBVIOUS
  <1>5. /\ new \in EwfSegments(jb) /\ new.total = total /\ new.data = one.data /\ new.table = one.table
        /\ new.digest = one.digest /\ new.errors = one.errors /\ new.sized = one.sized
    BY <1>4 DEF EwfSegments
  <1>6. more = [closed EXCEPT ![1] = new]
    BY <1>3, <1>4
  <1>7. /\ more \in [1..n -> EwfSegments(jb)] /\ more[1] = new /\ \A k \in 1..n : k # 1 => more[k] = closed[k]
    BY <1>2, <1>5, <1>6
  <1>8. more \in Seq(EwfSegments(jb)) /\ Len(more) = n
    BY <1>7
  <1>9. ASSUME NEW k \in 1..n
        PROVE  /\ more[k].data = closed[k].data /\ more[k].table = closed[k].table
               /\ more[k].digest = closed[k].digest /\ more[k].errors = closed[k].errors
               /\ more[k].sized = closed[k].sized
    <2>1. CASE k = 1
      BY <1>3, <1>5, <1>7, <2>1
    <2>2. CASE k # 1
      BY <1>7, <2>2
    <2> QED
      BY <2>1, <2>2
  <1> QED
    BY <1>1, <1>5, <1>7, <1>8, <1>9

LEMMA TotalKeeps ==
    ASSUME NEW jb, NEW closed, NEW b, NEW filled, Laid(jb, closed, b, filled), closed # <<>>, NEW total \in Nat,
           NEW more, more = [closed EXCEPT ![1].total = total]
    PROVE  Laid(jb, more, b, filled)
  <1>1. closed \in Seq(EwfSegments(jb))
    BY DEF Laid
  <1>2. /\ more \in Seq(EwfSegments(jb)) /\ Len(more) = Len(closed)
        /\ \A k \in 1..Len(closed) : more[k].data = closed[k].data /\ more[k].table = closed[k].table
    BY <1>1, TotalFields
  <1>3. ASSUME NEW k \in 1..Len(closed)
        PROVE  SegmentHolds(jb, more[k], b[k], b[k + 1], SectorsIn(more, b, k, filled))
    <2>1. SectorsIn(more, b, k, filled) = SectorsIn(closed, b, k, filled)
      BY <1>2 DEF SectorsIn
    <2>2. SegmentHolds(jb, closed[k], b[k], b[k + 1], SectorsIn(more, b, k, filled))
      BY <2>1 DEF Laid
    <2> QED
      BY <1>2, <2>2 DEF SegmentHolds
  <1> QED
    BY <1>2, <1>3 DEF Laid

LEMMA EwfInitHolds == EwfInit => EwfInv
  <1> SUFFICES ASSUME EwfInit PROVE EwfInv
    OBVIOUS
  <1>1. /\ job \in EwfJobs /\ segments = <<>> /\ lost = FALSE
        /\ writer = [pc |-> "writing", chunks |-> 0, pending |-> <<>>, fed |-> <<>>, data |-> <<>>,
                     offsets |-> <<>>, spoilt |-> FALSE]
    BY DEF EwfInit
  <1>2. PICK none \in Seq(Nat) : none = <<>> /\ Len(none) = 0 /\ none \in Seq(StoredByte)
    BY EmptySeq
  <1>3. PICK w : w = [pc |-> "writing", chunks |-> 0, pending |-> none, fed |-> none, data |-> none,
                      offsets |-> none, spoilt |-> FALSE]
    OBVIOUS
  <1>4. /\ w \in EwfWriters /\ w.pc = "writing" /\ w.chunks = 0 /\ w.pending = none /\ w.fed = none
        /\ w.data = none /\ w.offsets = none /\ w.spoilt = FALSE
    BY <1>2, <1>3 DEF EwfWriters
  <1>5. writer = w
    BY <1>1, <1>2, <1>3
  <1>6. SectorsGiven(job, 0, 0) = none /\ ChunksEnd(0) = 0
    BY <1>2, GivenIs, ChunkEnds, NoLength
  <1>7. job.size \in Nat /\ EwfChunk \in Nat \ {0} /\ job.packed \in BOOLEAN
    BY <1>1, JobFacts, EwfAssumption
  <1>8. FedRight(job, w) /\ PendingRight(job, w)
    BY <1>2, <1>4, <1>6, <1>7 DEF FedRight, PendingRight
  <1>9. ChunkData(job, none, none, 0, 0)
    <2>1. PackedData(job, none, none, 0, 0)
      BY <1>2 DEF PackedData
    <2>2. SectorsTo(0 + 0, 0) - ChunksEnd(0) = 0
      BY <1>6 DEF SectorsTo
    <2>3. RawData(job, none, 0, 0, 0)
      BY <1>6, <2>2 DEF RawData
    <2> QED
      BY <1>2, <2>1, <2>3 DEF ChunkData
  <1>a. PICK b : b = Append(none, 0)
    OBVIOUS
  <1>10. b \in Seq(Nat) /\ Len(b) = 1 /\ b[1] = 0
    <2>1. b \in Seq(Nat) /\ Len(b) = Len(none) + 1 /\ b[Len(none) + 1] = 0
      BY <1>a, Appendix
    <2>2. Len(none) + 1 = 1
      BY <1>2
    <2> QED
      BY <2>1, <2>2
  <1>11. none \in Seq(EwfSegments(job))
    BY <1>2, EmptySeq
  <1>12. Laid(job, none, b, 0)
    BY <1>2, <1>10, <1>11 DEF Laid
  <1>13. DataRight(job, w, 0, 0)
    BY <1>2, <1>4, <1>9 DEF DataRight
  <1>14. OpenBy(job, w, none, b)
    BY <1>2, <1>4, <1>6, <1>8, <1>10, <1>12, <1>13 DEF OpenBy
  <1>15. Writing(job, w, none) /\ Sound(w, none)
    BY <1>2, <1>4, <1>7, <1>14 DEF Writing, OpenSeal, Sound
  <1> QED
    BY <1>1, <1>2, <1>4, <1>5, <1>15 DEF EwfInv, OpenHolds

\* A writer takes what does not show in the sectors it has.
LEMMA WritingAs ==
    ASSUME NEW jb, NEW w, NEW v \in EwfWriters, NEW closed, Writing(jb, w, closed),
           v.chunks = w.chunks, v.fed = w.fed, v.pending = w.pending, v.data = w.data, v.offsets = w.offsets
    PROVE  Writing(jb, v, closed)
  <1>1. PICK b : OpenBy(jb, w, closed, b)
    BY DEF Writing
  <1>2. OpenBy(jb, v, closed, b)
    BY <1>1, OpenAs
  <1> QED
    BY <1>2 DEF Writing

LEMMA WriteBlockKeeps == EwfInv /\ WriteBlock => EwfInv'
  <1> SUFFICES ASSUME EwfInv, WriteBlock PROVE EwfInv'
    OBVIOUS
  <1>1. PICK w : w = writer
    OBVIOUS
  <1>2. PICK closed : closed = segments
    OBVIOUS
  <1>3. job \in EwfJobs /\ lost \in BOOLEAN /\ w.pc = "writing" /\ job' = job /\ Len(w.fed) < job.size
    BY <1>1 DEF EwfInv, WriteBlock
  <1>4. Writing(job, w, closed) /\ (lost = FALSE => Sound(w, closed))
    BY <1>1, <1>2, <1>3 DEF EwfInv, OpenHolds, EndHolds
  <1>5. PICK read \in Nat : read = Len(w.fed) /\ read < job.size /\ job.size \in Nat
    BY <1>3, <1>4, WritingTypes, JobFacts
  <1>6. PICK count \in Nat : count = Min({EwfBlock, job.size - read}) /\ read + count <= job.size
    <2>1. job.size - read \in Nat /\ EwfBlock \in Nat
      BY <1>5, EwfAssumption
    <2>2. Min({EwfBlock, job.size - read}) = IF EwfBlock <= job.size - read THEN EwfBlock ELSE job.size - read
      BY <2>1, LesserOf
    <2> QED
      BY <1>5, <2>1, <2>2
  <1>7. PICK out : /\ out = BlockOf(w, closed, read, count)[count]
                   /\ segments' = out.closed
                   /\ \/ writer' = out.writer /\ lost' = lost
                      \/ writer' = [out.writer EXCEPT !.pc = "failed"] /\ lost' = TRUE
    <2>1. \E out \in {BlockOf(writer, segments, Len(writer.fed), Min({EwfBlock, job.size - Len(writer.fed)}))
                         [Min({EwfBlock, job.size - Len(writer.fed)})]} :
            /\ segments' = out.closed
            /\ \/ writer' = out.writer /\ lost' = lost
               \/ writer' = [out.writer EXCEPT !.pc = "failed"] /\ lost' = TRUE
      BY DEF WriteBlock, BlockOf
    <2>2. BlockOf(writer, segments, Len(writer.fed), Min({EwfBlock, job.size - Len(writer.fed)}))
            [Min({EwfBlock, job.size - Len(writer.fed)})] = BlockOf(w, closed, read, count)[count]
      BY <1>1, <1>2, <1>5, <1>6
    <2> QED
      BY <2>1, <2>2
  <1>8. /\ out \in EwfOuts(job) /\ Writing(job, out.writer, out.closed) /\ out.writer.pc = w.pc
        /\ Sound(w, closed) => Sound(out.writer, out.closed)
    BY <1>3, <1>4, <1>5, <1>6, <1>7, BlockFacts
  <1>9. PICK v \in EwfWriters : v = out.writer
    BY <1>8 DEF EwfOuts
  <1>10. PICK more : more = out.closed
    OBVIOUS
  <1>11. CASE writer' = v /\ lost' = lost
    <2>1. OpenHolds(job, v, more, lost)
      BY <1>3, <1>4, <1>8, <1>9, <1>10 DEF OpenHolds
    <2> QED
      BY <1>3, <1>7, <1>10, <1>11, <2>1 DEF EwfInv
  <1>12. CASE writer' = [v EXCEPT !.pc = "failed"] /\ lost' = TRUE
    <2>1. PICK u : u = [v EXCEPT !.pc = "failed"]
      OBVIOUS
    <2>2. /\ u \in EwfWriters /\ u.pc = "failed" /\ u.chunks = v.chunks /\ u.fed = v.fed
          /\ u.pending = v.pending /\ u.data = v.data /\ u.offsets = v.offsets
      BY <2>1, PcFields
    <2>3. Writing(job, u, more)
      BY <1>8, <1>9, <1>10, <2>2, WritingAs
    <2>4. OpenHolds(job, u, more, TRUE)
      BY <2>2, <2>3 DEF OpenHolds
    <2> QED
      BY <1>3, <1>7, <1>10, <1>12, <2>1, <2>4 DEF EwfInv
  <1> QED
    BY <1>7, <1>9, <1>11, <1>12

LEMMA WriteLostKeeps == EwfInv /\ WriteLost => EwfInv'
  <1> SUFFICES ASSUME EwfInv, WriteLost PROVE EwfInv'
    OBVIOUS
  <1>1. PICK w : w = writer
    OBVIOUS
  <1>2. PICK closed : closed = segments
    OBVIOUS
  <1>3. /\ job \in EwfJobs /\ w.pc = "writing" /\ job' = job /\ segments' = closed
        /\ lost' = TRUE /\ writer' = [w EXCEPT !.spoilt = TRUE]
    BY <1>1, <1>2 DEF EwfInv, WriteLost
  <1>4. Writing(job, w, closed)
    BY <1>1, <1>2, <1>3 DEF EwfInv, OpenHolds, EndHolds
  <1>5. w \in EwfWriters
    BY <1>4, WritingTypes
  <1>6. PICK u : u = [w EXCEPT !.spoilt = TRUE]
    OBVIOUS
  <1>7. /\ u \in EwfWriters /\ u.pc = w.pc /\ u.chunks = w.chunks /\ u.fed = w.fed
        /\ u.pending = w.pending /\ u.data = w.data /\ u.offsets = w.offsets
    BY <1>5, <1>6, SpoiltFields
  <1>8. Writing(job, u, closed)
    BY <1>4, <1>7, WritingAs
  <1>9. OpenHolds(job, u, closed, TRUE)
    BY <1>3, <1>7, <1>8 DEF OpenHolds
  <1> QED
    BY <1>3, <1>6, <1>9 DEF EwfInv

LEMMA CloseImageKeeps == EwfInv /\ CloseImage => EwfInv'
  <1> SUFFICES ASSUME EwfInv, CloseImage PROVE EwfInv'
    OBVIOUS
  <1>1. PICK w : w = writer
    OBVIOUS
  <1>2. PICK old : old = segments
    OBVIOUS
  <1>3. job \in EwfJobs /\ lost \in BOOLEAN /\ w.pc = "writing" /\ job' = job
    BY <1>1 DEF EwfInv, CloseImage
  <1>4. Writing(job, w, old) /\ (lost = FALSE => Sound(w, old))
    BY <1>1, <1>2, <1>3 DEF EwfInv, OpenHolds, EndHolds
  <1>5. PICK u : u = flushChunk(w)
    OBVIOUS
  <1>6. PICK b : OpenBy(job, w, old, b)
    BY <1>4 DEF Writing
  <1>7. FlushedBy(job, u, old, b) /\ u.spoilt = w.spoilt /\ u.fed = w.fed
    <2>1. Len(w.pending) <= EwfChunk
      <3>1. w.pending \in Seq(Nat)
        BY <1>4, WritingTypes DEF EwfWriters
      <3> QED
        BY <1>4, <3>1, EwfAssumption DEF Writing
    <2> QED
      BY <1>3, <1>5, <1>6, <2>1, FlushKeeps
  <1>8. u \in EwfWriters /\ FedRight(job, u)
    BY <1>7 DEF FlushedBy
  <1>9. PICK closing \in BOOLEAN : closing <=> Len(u.fed) = job.size
    OBVIOUS
  <1>10. PICK seg \in EwfSegments(job) :
            /\ seg = closeSegment(u, closing) /\ seg.sized = ~u.spoilt /\ seg.total = 1
            /\ seg.errors = (IF closing THEN job.damaged ELSE {})
            /\ seg.digest = (IF closing THEN u.fed ELSE NoDigest)
    BY <1>8, CloseIs
  <1>11. PICK closed : closed = Append(old, seg)
    OBVIOUS
  <1>p. PICK way \in {"writing", "failed", "finished", "aborted"} : way = IF closing THEN "finished" ELSE "aborted"
    OBVIOUS
  <1>12. PICK v : v = [u EXCEPT !.pc = way]
    OBVIOUS
  <1>13. /\ writer' = v
         /\ \/ segments' = [closed EXCEPT ![1].total = Len(closed)] /\ lost' = lost
            \/ segments' = closed /\ lost' = TRUE
    <2>1. (Len(writer.fed) = job.size) = closing
      BY <1>1, <1>7, <1>9
    <2>2. PICK all :
              /\ all = Append(segments, closeSegment(flushChunk(writer), Len(writer.fed) = job.size))
              /\ writer' = [flushChunk(writer) EXCEPT !.pc = IF Len(writer.fed) = job.size THEN "finished" ELSE "aborted"]
              /\ \/ segments' = [all EXCEPT ![1].total = Len(all)] /\ lost' = lost
                 \/ segments' = all /\ lost' = TRUE
      BY DEF CloseImage
    <2>3. Append(segments, closeSegment(flushChunk(writer), Len(writer.fed) = job.size)) = closed
      BY <1>1, <1>2, <1>5, <1>10, <1>11, <2>1, Zenon
    <2>5. all = closed
      BY <2>2, <2>3
    <2>4. [flushChunk(writer) EXCEPT !.pc = IF Len(writer.fed) = job.size THEN "finished" ELSE "aborted"] = v
      BY <1>1, <1>5, <1>p, <1>12, <2>1, Zenon
    <2> QED
      <3>1. writer' = v
        BY <2>2, <2>4, Zenon
      <3>2. \/ segments' = [closed EXCEPT ![1].total = Len(closed)] /\ lost' = lost
            \/ segments' = closed /\ lost' = TRUE
        BY <2>2, <2>5
      <3> QED
        BY <3>1, <3>2
  <1>14. v \in EwfWriters /\ v.fed = u.fed /\ v.pc = (IF closing THEN "finished" ELSE "aborted")
    BY <1>8, <1>p, <1>12, PcFields
  <1>15. PICK e : Laid(job, closed, e, Len(v.fed))
    BY <1>3, <1>7, <1>10, <1>11, <1>14, SegmentCloses
  <1>16. FedRight(job, v)
    BY <1>8, <1>14 DEF FedRight
  <1>17. old \in Seq(EwfSegments(job)) /\ OpenSeal(old)
    BY <1>4, WritingTypes DEF Writing
  <1>18. PICK n \in Nat : n = Len(old)
    BY <1>17
  <1>19. /\ closed \in Seq(EwfSegments(job)) /\ Len(closed) = n + 1 /\ closed[n + 1] = seg /\ closed # <<>>
         /\ \A i \in 1..n : closed[i] = old[i]
    BY <1>11, <1>17, <1>18, Appendix
  <1>20. closed[1].total = 1
    <2>1. CASE n = 0
      BY <1>10, <1>19, <2>1
    <2>2. CASE n > 0
      <3>1. 1 \in 1..n
        BY <2>2
      <3> QED
        BY <1>17, <1>18, <1>19, <3>1 DEF OpenSeal
    <2> QED
      BY <2>1, <2>2
  <1>21. (n + 1) - 1 = n /\ \A k \in 1..n : closed[k].digest = NoDigest /\ closed[k].errors = {}
    BY <1>17, <1>18, <1>19 DEF OpenSeal
  <1>22. LastMarked(job, v, seg)
    BY <1>9, <1>10, <1>14 DEF LastMarked
  <1>23. lost = FALSE => \A k \in 1..(n + 1) : closed[k].sized
    <2>1. \A k \in 1..(n + 1) : k \in 1..n \/ k = n + 1
      OBVIOUS
    <2> QED
      BY <1>4, <1>7, <1>10, <1>18, <1>19, <2>1 DEF Sound
  <1>24. CASE segments' = closed /\ lost' = TRUE
    <2>1. Marked(v, closed)
      BY <1>19, <1>20, <1>21 DEF Marked
    <2>2. EndedBy(job, v, closed, e)
      BY <1>14, <1>15, <1>16, <1>19 DEF EndedBy
    <2>3. EndHolds(job, v, closed, TRUE)
      BY <1>14, <1>19, <1>22, <2>1, <2>2 DEF EndHolds
    <2> QED
      BY <1>3, <1>13, <1>24, <2>3 DEF EwfInv
  <1>25. CASE segments' = [closed EXCEPT ![1].total = Len(closed)] /\ lost' = lost
    <2>1. PICK more : more = [closed EXCEPT ![1].total = Len(closed)]
      OBVIOUS
    <2>2. PICK total \in Nat : total = Len(closed) /\ total = n + 1
      BY <1>19
    <2>3. /\ Len(more) = total /\ more[1].total = total
          /\ \A k \in 1..total : /\ more[k].digest = closed[k].digest /\ more[k].errors = closed[k].errors
                                 /\ more[k].sized = closed[k].sized
      BY <1>19, <2>1, <2>2, TotalFields
    <2>4. Laid(job, more, e, Len(v.fed))
      BY <1>15, <1>19, <2>1, <2>2, TotalKeeps
    <2>5. Marked(v, more)
      <3>1. \A k \in 1..n : k \in 1..total
        BY <2>2
      <3> QED
        BY <1>21, <2>2, <2>3, <3>1 DEF Marked
    <2>6. more # <<>>
      BY <2>2, <2>3, EmptySeq
    <2>7. EndedBy(job, v, more, e)
      BY <1>14, <1>16, <2>4, <2>6 DEF EndedBy
    <2>8. LastMarked(job, v, more[Len(more)])
      <3>1. total \in 1..total
        BY <2>2
      <3>2. more[total].digest = seg.digest /\ more[total].errors = seg.errors
        BY <1>19, <2>2, <2>3, <3>1
      <3> QED
        BY <1>22, <2>3, <3>2 DEF LastMarked
    <2>9. lost = FALSE => Whole(more)
      BY <1>23, <2>2, <2>3 DEF Whole
    <2>10. EndHolds(job, v, more, lost)
      BY <1>14, <2>5, <2>7, <2>8, <2>9 DEF EndHolds
    <2> QED
      BY <1>3, <1>13, <1>25, <2>1, <2>10 DEF EwfInv
  <1> QED
    BY <1>13, <1>24, <1>25

\* What the writer holds and what its files hold, at every moment: the chunks of
\* the disk in order, each segment the ones behind the segments before it, and
\* the marks of EwfWriter::finish only where it got to make them.
THEOREM EwfInvariant == EwfSpec => []EwfInv
  <1>1. ASSUME EwfInv, [EwfNext]_ewfVars PROVE EwfInv'
    <2>1. CASE WriteBlock
      BY <1>1, <2>1, WriteBlockKeeps
    <2>2. CASE WriteLost
      BY <1>1, <2>2, WriteLostKeeps
    <2>3. CASE CloseImage
      BY <1>1, <2>3, CloseImageKeeps
    <2>4. CASE UNCHANGED ewfVars
      BY <1>1, <2>4 DEF EwfInv, ewfVars
    <2> QED
      BY <1>1, <2>1, <2>2, <2>3, <2>4 DEF EwfNext
  <1> QED
    BY <1>1, EwfInitHolds, PTL DEF EwfSpec

LEMMA GreatestIs ==
    ASSUME NEW S, S \subseteq Int, NEW m \in S, \A y \in S : y <= m
    PROVE  Max(S) = m
  <1>1. \A y \in S : m >= y
    OBVIOUS
  <1>2. \A x \in S : (\A y \in S : x >= y) => x = m
    OBVIOUS
  <1> QED
    BY <1>1, <1>2 DEF Max

LEMMA LeastIn ==
    ASSUME NEW S, S \subseteq Nat, S # {}
    PROVE  Min(S) \in S
  <1>1. PICK n \in S : \A m \in S : n <= m
    BY LeastNatural
  <1> QED
    BY <1>1 DEF Min

\* The padding and the total go, and the offsets are left.
LEMMA TableBack ==
    ASSUME NEW offsets \in Seq(Nat), NEW length \in Nat, offsets # <<>> => length % WordLimit # 0
    PROVE  ChunkTable(PaddedTable(offsets, length)) = offsets
  <1>1. PICK x \in Nat : x = length % WordLimit
    <2>1. WordLimit \in Nat \ {0}
      BY EwfAssumption
    <2>2. length % WordLimit \in 0..(WordLimit - 1)
      BY <2>1, Remainder
    <2>3. length % WordLimit \in Nat
      BY <2>1, <2>2
    <2> QED
      BY <2>3
  <1>2. PICK n \in Nat : n = Len(offsets)
    OBVIOUS
  <1>3. PICK entries : entries = Append(offsets, x)
    OBVIOUS
  <1>4. entries \in Seq(Nat) /\ Len(entries) = n + 1 /\ entries[n + 1] = x /\ \A i \in 1..n : entries[i] = offsets[i]
    BY <1>2, <1>3, Appendix
  <1>5. PICK m \in Nat : m = (4 - (Len(entries) % 4)) % 4
    <2>1. PICK l \in Nat : l = Len(entries)
      BY <1>4
    <2>2. (4 - (l % 4)) % 4 \in Nat
      OBVIOUS
    <2> QED
      BY <2>1, <2>2
  <1>6. PICK zeros \in Seq(Nat) : zeros = [i \in 1..m |-> 0] /\ Len(zeros) = m /\ \A i \in 1..m : zeros[i] = 0
    <2>1. [i \in 1..m |-> 0] \in Seq(Nat) /\ Len([i \in 1..m |-> 0]) = m
      OBVIOUS
    <2> QED
      BY <2>1
  <1>7. PICK table : table = PaddedTable(offsets, length) /\ table = entries \o zeros
    BY <1>1, <1>3, <1>5, <1>6 DEF PaddedTable
  <1>8. /\ table \in Seq(Nat) /\ Len(table) = (n + 1) + m
        /\ \A i \in 1..(n + 1) : table[i] = entries[i]
        /\ \A i \in 1..m : table[(n + 1) + i] = 0
    <2>1. table \in Seq(Nat) /\ JoinOf(table, entries, zeros)
      BY <1>4, <1>7, IsJoin, Joined
    <2>2. \A i \in DOMAIN zeros : table[Len(entries) + i] = zeros[i]
      BY <2>1 DEF JoinOf, StoredAt
    <2>3. DOMAIN zeros = 1..m
      BY <1>6
    <2>4. \A i \in 1..m : table[(n + 1) + i] = 0
      BY <1>4, <1>6, <2>2, <2>3
    <2> QED
      BY <1>4, <1>6, <2>1, <2>4 DEF JoinOf
  <1> DEFINE S == {1} \cup {i \in DOMAIN table : table[i] # 0}
  <1>9. DOMAIN table = 1..((n + 1) + m)
    BY <1>8
  <1>10. Max(S) = n + 1
    <2>1. S \subseteq Int
      BY <1>9
    <2>2. ASSUME NEW i \in S PROVE i <= n + 1
      <3>1. CASE i = 1
        BY <3>1
      <3>2. CASE i \in 1..((n + 1) + m) /\ table[i] # 0
        <4>1. ASSUME i > n + 1 PROVE FALSE
          <5>1. PICK j \in 1..m : i = (n + 1) + j
            <6>1. i - (n + 1) \in 1..m /\ i = (n + 1) + (i - (n + 1))
              BY <3>2, <4>1
            <6> QED
              BY <6>1
          <5> QED
            BY <1>8, <3>2, <5>1
        <4> QED
          BY <3>2, <4>1
      <3> QED
        BY <1>9, <3>1, <3>2
    <2>3. n + 1 \in S
      <3>1. CASE n = 0
        BY <3>1
      <3>2. CASE n # 0
        <4>1. offsets # <<>>
          BY <1>2, <3>2, EmptySeq
        <4>2. x # 0
          BY <1>1, <4>1
        <4>3. n + 1 \in 1..(n + 1) /\ n + 1 \in 1..((n + 1) + m)
          OBVIOUS
        <4> QED
          BY <1>4, <1>8, <1>9, <4>2, <4>3
      <3> QED
        BY <3>1, <3>2
    <2> HIDE DEF S
    <2> QED
      BY <2>1, <2>2, <2>3, GreatestIs
  <1>11. ChunkTable(table) = SubSeq(table, 1, n)
    <2>1. ChunkTable(table) = SubSeq(table, 1, Max(S) - 1)
      BY DEF ChunkTable
    <2> HIDE DEF S
    <2>2. Max(S) - 1 = n
      BY <1>10
    <2> QED
      BY <2>1, <2>2
  <1>12. SubSeq(table, 1, n) = offsets
    <2>1. PICK front : front = SubSeq(table, 1, n)
      OBVIOUS
    <2>2. front \in Seq(Nat) /\ Len(front) = n /\ \A i \in 1..n : front[i] = table[i]
      <3>1. n <= Len(table)
        BY <1>8
      <3> QED
        BY <1>8, <2>1, <3>1
    <2>3. \A i \in 1..n : front[i] = offsets[i]
      <3>1. \A i \in 1..n : i \in 1..(n + 1)
        OBVIOUS
      <3> QED
        BY <1>4, <1>8, <2>2, <3>1
    <2>4. front = offsets
      BY <1>2, <2>2, <2>3, SameSeq
    <2> QED
      BY <2>1, <2>4
  <1> QED
    BY <1>7, <1>11, <1>12

TableReads(jb, seg) == jb.packed /\ seg.data # <<>> => Len(seg.data) % WordLimit # 0

\* What the reader finds in a segment of deflated chunks
LEMMA PackedFacts ==
    ASSUME NEW jb \in EwfJobs, jb.packed, NEW seg, seg.data \in Seq(StoredByte), NEW before, NEW after, NEW filled,
           SegmentHolds(jb, seg, before, after, filled), filled <= jb.size, TableReads(jb, seg)
    PROVE  /\ ChunkTable(seg.table) \in Seq(Nat) /\ Len(ChunkTable(seg.table)) = after - before
           /\ PackedData(jb, seg.data, ChunkTable(seg.table), before, filled)
           /\ StopsFit(jb, seg.data, ChunkTable(seg.table), before) /\ (before < after => SizesGiven(jb, after))
  <1>1. PICK offsets \in Seq(Nat) : /\ Len(offsets) = after - before
                                    /\ seg.table = PaddedTable(offsets, Len(seg.data))
                                    /\ ChunkData(jb, seg.data, offsets, before, filled)
    BY DEF SegmentHolds
  <1>2. /\ before \in Nat /\ after \in Nat /\ filled \in Nat /\ before <= after
        /\ before < after => ChunksEnd(after - 1) < filled
    BY DEF SegmentHolds
  <1>3. PackedData(jb, seg.data, offsets, before, filled)
    BY <1>1 DEF ChunkData
  <1>4. Len(seg.data) \in Nat
    OBVIOUS
  <1>5. CASE before = after
    <2>1. offsets = <<>>
      <3>1. Len(offsets) = 0
        BY <1>1, <1>2, <1>5
      <3> QED
        BY <3>1, NoLength
    <2>2. ChunkTable(seg.table) = offsets
      BY <1>1, <1>4, <2>1, TableBack
    <2>3. StopsFit(jb, seg.data, offsets, before)
      <3>1. Len(offsets) = 0
        BY <1>1, <1>2, <1>5
      <3> QED
        BY <3>1 DEF StopsFit
    <2> QED
      BY <1>1, <1>2, <1>3, <1>5, <2>2, <2>3
  <1>6. CASE before < after
    <2>1. PICK c \in Nat : c = after - 1 /\ c + 1 = after
      <3>1. after - 1 \in Nat /\ (after - 1) + 1 = after
        BY <1>2, <1>6
      <3> QED
        BY <3>1
    <2>2. ChunksEnd(c) < jb.size
      <3>1. ChunksEnd(c) \in Nat /\ jb.size \in Nat /\ ChunksEnd(c) < filled
        BY <1>2, <1>6, <2>1, ChunkEnds, JobFacts
      <3> QED
        BY <1>2, <3>1
    <2>3. SizesGiven(jb, after)
      BY <2>1, <2>2, SizesOf
    <2>4. before + Len(offsets) = after
      BY <1>1, <1>2
    <2>5. StopsFit(jb, seg.data, offsets, before)
      BY <1>2, <1>3, <1>4, <2>3, <2>4, StopsIn
    <2>6. seg.data # <<>>
      <3>1. 1 \in 1..Len(offsets)
        BY <1>1, <1>2, <1>6
      <3>2. StopOf(seg.data, offsets, 1) <= Len(seg.data) /\ offsets[1] < StopOf(seg.data, offsets, 1) /\ offsets[1] \in Nat
            /\ StopOf(seg.data, offsets, 1) \in Nat
        BY <2>5, <3>1 DEF StopsFit
      <3>3. Len(seg.data) # 0
        BY <1>4, <3>2
      <3> QED
        BY <3>3, EmptySeq
    <2>7. ChunkTable(seg.table) = offsets
      <3>1. Len(seg.data) % WordLimit # 0
        BY <2>6 DEF TableReads
      <3> QED
        BY <1>1, <1>4, <3>1, TableBack
    <2> QED
      BY <1>1, <1>3, <2>3, <2>5, <2>7
  <1> QED
    BY <1>2, <1>5, <1>6

\* Where what a segment stores ends, in sectors of the image
ImageEnd(after, filled) == IF job.packed THEN ChunksEnd(after) ELSE filled

LEMMA BytesOf ==
    ASSUME job \in EwfJobs, NEW seg, seg.data \in Seq(StoredByte), NEW before, NEW after, NEW filled,
           SegmentHolds(job, seg, before, after, filled), filled <= job.size, TableReads(job, seg)
    PROVE  /\ ImageBytes(seg) \in Int /\ ChunksEnd(before) \in Nat /\ ImageEnd(after, filled) \in Nat
           /\ ChunksEnd(before) + ImageBytes(seg) = ImageEnd(after, filled)
           /\ ImageEnd(after, filled) >= filled
           /\ ~job.packed => seg.data = SectorsGiven(job, ChunksEnd(before), filled - ChunksEnd(before))
                             /\ filled - ChunksEnd(before) \in Nat
  <1>1. /\ before \in Nat /\ after \in Nat /\ filled \in Nat /\ before <= after
        /\ filled <= ChunksEnd(after) /\ (before = after => filled = ChunksEnd(after))
        /\ before < after => ChunksEnd(after - 1) < filled
    BY DEF SegmentHolds
  <1>2. PICK n \in Nat : n = after - before /\ before + n = after
    <2>1. after - before \in Nat /\ before + (after - before) = after
      BY <1>1
    <2> QED
      BY <2>1
  <1>3. PICK from \in Nat : from = ChunksEnd(before)
    BY <1>1, ChunkEnds
  <1>4. PICK to \in Nat : to = ChunksEnd(after)
    BY <1>1, ChunkEnds
  <1>5. to = from + ChunksEnd(n) /\ ChunksEnd(n) \in Nat
    <2>1. ChunksEnd(before + n) = ChunksEnd(before) + ChunksEnd(n)
      BY <1>1, ChunkEnds
    <2>2. ChunksEnd(n) \in Nat
      BY ChunkEnds
    <2> QED
      BY <1>2, <1>3, <1>4, <2>1, <2>2
  <1>6. CASE job.packed
    <2>1. Len(ChunkTable(seg.table)) = n
      BY <1>2, <1>6, PackedFacts
    <2>2. ImageBytes(seg) = ChunksEnd(n)
      BY <1>6, <2>1 DEF ImageBytes, ChunksEnd
    <2>3. ImageEnd(after, filled) = to
      BY <1>4, <1>6 DEF ImageEnd
    <2> QED
      BY <1>1, <1>3, <1>4, <1>5, <1>6, <2>2, <2>3
  <1>7. CASE ~job.packed
    <2>1. PICK offsets \in Seq(Nat) : Len(offsets) = n /\ ChunkData(job, seg.data, offsets, before, filled)
      BY <1>2 DEF SegmentHolds
    <2>2. seg.data = SectorsGiven(job, from, SectorsTo(after, filled) - from)
      BY <1>2, <1>3, <1>7, <2>1 DEF ChunkData, RawData
    <2>3. SectorsTo(after, filled) = filled
      BY <1>1, <1>4 DEF SectorsTo
    <2>4. from <= filled
      <3>1. CASE before = after
        BY <1>1, <1>3, <1>4, <3>1
      <3>2. CASE before < after
        <4>1. PICK c \in Nat : c = after - 1 /\ before <= c
          <5>1. after - 1 \in Nat /\ before <= after - 1
            BY <1>1, <3>2
          <5> QED
            BY <5>1
        <4>2. from <= ChunksEnd(c) /\ ChunksEnd(c) \in Nat
          BY <1>1, <1>3, <4>1, ChunkEnds
        <4> QED
          BY <1>1, <3>2, <4>1, <4>2
      <3> QED
        BY <1>1, <3>1, <3>2
    <2>5. PICK m \in Nat : m = filled - from
      BY <1>1, <2>4
    <2>6. seg.data = SectorsGiven(job, from, m)
      BY <2>2, <2>3, <2>5
    <2>7. Len(seg.data) = m
      BY <2>6, GivenIs
    <2>8. ImageBytes(seg) = m
      BY <1>7, <2>7 DEF ImageBytes
    <2>9. ImageEnd(after, filled) = filled
      BY <1>7 DEF ImageEnd
    <2> QED
      BY <1>1, <1>3, <1>7, <2>5, <2>6, <2>8, <2>9
  <1> QED
    BY <1>6, <1>7, JobFacts

\* The part of an image that the reader can give: whole chunks, and a short
\* one that ends with the disk
Givable(filled, pos) == \/ ~job.packed /\ pos < filled
                        \/ \E c \in Nat : pos < ChunksEnd(c) /\ ChunksEnd(c) <= filled
                        \/ pos < filled /\ filled = job.size

LEMMA PartOf ==
    ASSUME NEW S, NEW s \in Seq(S), NEW start \in Nat, NEW size \in Nat, start + size <= Len(s)
    PROVE  /\ SubSeq(s, start + 1, start + size) \in Seq(S) /\ Len(SubSeq(s, start + 1, start + size)) = size
           /\ \A i \in 1..size : SubSeq(s, start + 1, start + size)[i] = s[start + i]
  <1>1. Len(s) \in Nat
    OBVIOUS
  <1>2. \A i \in (start + 1)..(start + size) : s[i] \in S
    BY <1>1
  <1>3. /\ SubSeq(s, start + 1, start + size) \in Seq(S)
        /\ Len(SubSeq(s, start + 1, start + size)) = IF start + 1 <= start + size THEN (start + size) - (start + 1) + 1 ELSE 0
        /\ \A i \in 1..((start + size) - (start + 1) + 1) : SubSeq(s, start + 1, start + size)[i] = s[(start + 1) + i - 1]
    BY <1>1, <1>2, SubSeqProperties
  <1>4. /\ (start + size) - (start + 1) + 1 = size /\ (size = 0 \/ start + 1 <= start + size)
        /\ \A i \in 1..size : (start + 1) + i - 1 = start + i
    OBVIOUS
  <1> QED
    BY <1>3, <1>4

\* The bytes of one chunk and no more
OfChunk(bytes, plain, size) ==
    /\ Len(bytes) = size /\ bytes # <<>>
    /\ \A i \in 1..size : bytes[i] = [plain |-> plain, part |-> i, of |-> size]

LEMMA Inflated ==
    ASSUME NEW bytes, NEW size \in Nat \ {0}, NEW plain, NEW expected, OfChunk(bytes, plain, size)
    PROVE  (inflates(bytes, expected) <=> Len(plain) = expected) /\ bytes[1].plain = plain
  <1>0. /\ Len(bytes) = size /\ bytes # <<>>
        /\ \A i \in 1..size : bytes[i] = [plain |-> plain, part |-> i, of |-> size]
    BY DEF OfChunk
  <1>1. 1 \in 1..size
    OBVIOUS
  <1>2. PICK one : one = bytes[1] /\ one = [plain |-> plain, part |-> 1, of |-> size]
    BY <1>0, <1>1
  <1>3. one.of = size /\ one.plain = plain
    BY <1>2
  <1>4. \A i \in 1..size : bytes[i] = [one EXCEPT !.part = i]
    BY <1>0, <1>2
  <1>5. size <= Len(bytes) /\ Len(bytes) = size
    BY <1>0
  <1> QED
    BY <1>0, <1>2, <1>3, <1>4, <1>5 DEF inflates

LEMMA UnpackedIs ==
    ASSUME job \in EwfJobs, job.packed, NEW seg, seg.data \in Seq(StoredByte), NEW before, NEW after, NEW filled,
           SegmentHolds(job, seg, before, after, filled), filled <= job.size, TableReads(job, seg),
           NEW pos \in Nat, ChunksEnd(before) <= pos, pos < ChunksEnd(after), pos < job.size
    PROVE  /\ Unpacked(seg, ChunksEnd(before), pos) \in {NoSector, SectorGiven(job, pos + 1)}
           /\ Givable(filled, pos) => Unpacked(seg, ChunksEnd(before), pos) = SectorGiven(job, pos + 1)
  <1>1. /\ before \in Nat /\ after \in Nat /\ filled \in Nat /\ before <= after
        /\ filled <= ChunksEnd(after)
        /\ before < after => ChunksEnd(after - 1) < filled
    BY DEF SegmentHolds
  <1>2. PICK all \in Nat : all = job.size /\ filled <= all
    BY JobFacts
  <1>3. PICK EC \in Nat \ {0} : EC = EwfChunk
    BY EwfAssumption
  <1>4. PICK base \in Nat : base = ChunksEnd(before)
    BY <1>1, ChunkEnds
  <1>5. PICK x \in Nat : x = pos - base
    BY <1>4
  <1>6. PICK q \in Nat, r \in 0..(EC - 1) : q = x \div EC /\ r = x % EC /\ x = q * EC + r
                                              /\ \A m \in Nat : x < m * EC => q < m
    BY Blocks
  <1>7. PICK n \in Nat : n = after - before /\ after = before + n
    <2>1. after - before \in Nat /\ after = before + (after - before)
      BY <1>1
    <2> QED
      BY <2>1
  <1>8. q < n
    <2>0. ChunksEnd(before + n) = ChunksEnd(before) + ChunksEnd(n)
      BY <1>1, ChunkEnds
    <2>1. PICK w \in Nat : w = ChunksEnd(n)
      BY ChunkEnds
    <2>2. x < ChunksEnd(n)
      BY <1>4, <1>5, <1>7, <2>0, <2>1
    <2>3. x < n * EC
      BY <1>3, <2>2 DEF ChunksEnd
    <2> QED
      BY <1>6, <2>3
  <1>9. PICK k \in 1..n : k = q + 1
    BY <1>8
  <1>10. PICK c \in Nat : c = before + k /\ c > 0 /\ c - 1 = before + q /\ before < after /\ c <= after
    <2>1. before + k \in Nat /\ before + k > 0 /\ (before + k) - 1 = before + q /\ before < after /\ before + k <= after
      BY <1>1, <1>7, <1>9
    <2> QED
      BY <2>1
  <1>11. PICK at \in Nat : at = ChunksEnd(c - 1) /\ pos = at + r /\ ChunksEnd(c) = at + EC /\ at = base + q * EC
    <2>1. ChunksEnd(before + q) = base + ChunksEnd(q) /\ ChunksEnd(before + q) \in Nat
      <3>1. ChunksEnd(before + q) = ChunksEnd(before) + ChunksEnd(q)
        BY <1>1, ChunkEnds
      <3>2. ChunksEnd(q) \in Nat
        BY ChunkEnds
      <3> QED
        BY <1>4, <3>1, <3>2
    <2>2. ChunksEnd(q) = q * EC
      BY <1>3 DEF ChunksEnd
    <2>3. PICK w \in Nat : w = ChunksEnd(q)
      BY ChunkEnds
    <2>4. pos = (base + w) + r
      BY <1>5, <1>6, <2>2, <2>3
    <2>5. ChunksEnd(c) = ChunksEnd(c - 1) + EC
      BY <1>3, <1>10, ChunkEnds
    <2> QED
      BY <1>10, <2>1, <2>2, <2>3, <2>4, <2>5
  <1>12. at < filled
    <2>1. c - 1 <= after - 1 /\ c - 1 \in Nat /\ after - 1 \in Nat
      BY <1>1, <1>10
    <2>2. ChunksEnd(c - 1) <= ChunksEnd(after - 1) /\ ChunksEnd(after - 1) \in Nat
      BY <2>1, ChunkEnds
    <2> QED
      BY <1>1, <1>10, <1>11, <2>2
  <1>13. PICK full \in Nat : /\ full = (IF at + EC <= filled THEN EC ELSE filled - at)
                             /\ PlainOf(job, c, filled) = SectorsGiven(job, at, full) /\ full <= EC
    <2>1. (IF at + EC <= filled THEN EC ELSE filled - at) \in Nat /\ (IF at + EC <= filled THEN EC ELSE filled - at) <= EC
      BY <1>1, <1>12
    <2>2. PlainOf(job, c, filled) = SectorsGiven(job, at, IF at + EC <= filled THEN EC ELSE filled - at)
      BY <1>3, <1>11 DEF PlainOf
    <2> QED
      BY <2>1, <2>2
  <1>14. PICK plain : /\ plain = PlainOf(job, c, filled) /\ Len(plain) = full
                      /\ \A i \in 1..full : plain[i] = SectorGiven(job, at + i)
    BY <1>13, GivenIs
  <1>15. PICK table : /\ table = ChunkTable(seg.table) /\ table \in Seq(Nat) /\ Len(table) = n
                      /\ PackedData(job, seg.data, table, before, filled) /\ StopsFit(job, seg.data, table, before)
                      /\ SizesGiven(job, after)
    BY <1>7, <1>10, PackedFacts
  <1>16. PICK end \in Nat : end = (IF k < n THEN table[k + 1] ELSE Len(seg.data)) /\ end = StopOf(seg.data, table, k)
                            /\ end <= Len(seg.data) /\ Len(seg.data) \in Nat
    <2>1. (IF k < n THEN table[k + 1] ELSE Len(seg.data)) = StopOf(seg.data, table, k)
      BY <1>9, <1>15 DEF StopOf
    <2>2. StopOf(seg.data, table, k) \in Nat /\ StopOf(seg.data, table, k) <= Len(seg.data)
      BY <1>9, <1>15 DEF StopsFit
    <2> QED
      BY <2>1, <2>2
  <1>17. PICK size \in Nat \ {0} : size = job.sizes[c]
    <2>1. c \in 1..after
      BY <1>1, <1>10
    <2> QED
      BY <1>15, <2>1 DEF SizesGiven
  <1>18. PICK start \in Nat : start = table[k] /\ end = start + size
    BY <1>9, <1>10, <1>15, <1>16, <1>17 DEF StopsFit
  <1>19. \A i \in 1..size : seg.data[start + i] = [plain |-> plain, part |-> i, of |-> size]
    <2>1. StoredAt(seg.data, start, ChunkStored(plain, size))
      BY <1>9, <1>10, <1>14, <1>15, <1>17, <1>18 DEF PackedData
    <2> QED
      BY <2>1 DEF StoredAt, ChunkStored
  <1>20. PICK bytes : bytes = SubSeq(seg.data, start + 1, end) /\ OfChunk(bytes, plain, size)
    <2>1. PICK bytes : bytes = SubSeq(seg.data, start + 1, end)
      OBVIOUS
    <2>2. Len(bytes) = size /\ bytes \in Seq(StoredByte) /\ \A i \in 1..size : bytes[i] = seg.data[start + i]
      <3>1. start + size <= Len(seg.data)
        BY <1>16, <1>18
      <3>2. /\ SubSeq(seg.data, start + 1, start + size) \in Seq(StoredByte)
            /\ Len(SubSeq(seg.data, start + 1, start + size)) = size
            /\ \A i \in 1..size : SubSeq(seg.data, start + 1, start + size)[i] = seg.data[start + i]
        BY <3>1, PartOf
      <3>3. bytes = SubSeq(seg.data, start + 1, start + size)
        BY <1>18, <2>1
      <3> QED
        BY <3>2, <3>3
    <2>3. bytes # <<>>
      BY <1>17, <2>2, EmptySeq
    <2>4. \A i \in 1..size : bytes[i] = [plain |-> plain, part |-> i, of |-> size]
      BY <1>19, <2>2
    <2> QED
      BY <2>1, <2>2, <2>3, <2>4 DEF OfChunk
  <1>21. PICK expected \in Int : expected = (IF EC <= all - at THEN EC ELSE all - at)
    BY <1>2
  <1>22. Min({EwfChunk, job.size - base - (k - 1) * EwfChunk}) = expected
    <2>1. PICK w \in Nat : w = q * EC
      <3>1. q * EC \in Nat
        BY <1>3
      <3> QED
        BY <3>1
    <2>2. (k - 1) * EwfChunk = w
      <3>1. k - 1 = q
        BY <1>9
      <3> QED
        BY <1>3, <2>1, <3>1, Zenon
    <2>3. at = base + w
      BY <1>11, <2>1
    <2>4. job.size - base - w = all - at
      BY <1>2, <2>3
    <2>5. Min({EC, all - at}) = expected
      BY <1>2, <1>21, LesserOf
    <2>6. job.size - base - (k - 1) * EwfChunk = all - at
      BY <2>2, <2>4, Zenon
    <2>7. {EwfChunk, job.size - base - (k - 1) * EwfChunk} = {EC, all - at}
      <3>1. PICK y : y = job.size - base - (k - 1) * EwfChunk
        OBVIOUS
      <3>2. {EwfChunk, y} = {EC, all - at}
        BY <1>3, <2>6, <3>1
      <3> QED
        BY <3>1, <3>2
    <2> QED
      BY <2>5, <2>7, Zenon
  <1>23. inflates(bytes, expected) <=> full = expected
    <2>1. inflates(bytes, expected) <=> Len(plain) = expected
      BY <1>20, Inflated
    <2>2. Len(plain) = full
      BY <1>14
    <2> QED
      BY <2>1, <2>2, Zenon
  <1>24. bytes[1].plain = plain
    BY <1>20, Inflated
  <1>25. Unpacked(seg, base, pos) = IF full = expected THEN plain[r + 1] ELSE NoSector
    <2>1. (pos - base) \div EwfChunk + 1 = k /\ (pos - base) % EwfChunk = r
      BY <1>3, <1>5, <1>6, <1>9
    <2>2. ~(k > n) /\ ~(end < start) /\ ~(end > Len(seg.data))
      BY <1>9, <1>16, <1>17, <1>18, SMTT(30)
    <2>3. Unpacked(seg, base, pos) =
            IF k > n \/ end < start \/ end > Len(seg.data) \/ ~inflates(bytes, expected) THEN NoSector
            ELSE bytes[1].plain[r + 1]
      BY <1>15, <1>16, <1>18, <1>20, <1>22, <2>1 DEF Unpacked
    <2> QED
      BY <1>23, <1>24, <2>2, <2>3
  <1>26. full = expected => plain[r + 1] = SectorGiven(job, pos + 1)
    <2>1. SUFFICES ASSUME full = expected PROVE plain[r + 1] = SectorGiven(job, pos + 1)
      OBVIOUS
    <2>2. r < expected
      BY <1>2, <1>11, <1>21, SMTT(30)
    <2>3. r + 1 \in 1..full /\ at + (r + 1) = pos + 1
      BY <1>11, <2>1, <2>2
    <2> QED
      BY <1>14, <2>3
  <1>27. Givable(filled, pos) => full = expected
    <2>1. ASSUME NEW d \in Nat, pos < ChunksEnd(d), ChunksEnd(d) <= filled PROVE full = expected
      <3>1. ~(d <= c - 1)
        <4>1. SUFFICES ASSUME d <= c - 1 PROVE FALSE
          OBVIOUS
        <4>2. c - 1 \in Nat
          BY <1>10
        <4>3. ChunksEnd(d) <= ChunksEnd(c - 1) /\ ChunksEnd(d) \in Nat
          <5>1. PICK e \in Nat : e = c - 1
            BY <4>2
          <5>2. d <= e
            BY <4>1, <5>1
          <5>3. ChunksEnd(d) <= ChunksEnd(e) /\ ChunksEnd(d) \in Nat
            BY <5>2, ChunkEnds
          <5> QED
            BY <5>1, <5>3
        <4> QED
          BY <1>11, <2>1, <4>3
      <3>2. c <= d
        BY <1>10, <3>1
      <3>3. at + EC <= ChunksEnd(d) /\ ChunksEnd(d) \in Nat
        BY <1>11, <3>2, ChunkEnds
      <3>4. at + EC <= filled /\ EC <= all - at
        BY <1>1, <1>2, <2>1, <3>3
      <3> QED
        BY <1>13, <1>21, <3>4
    <2>2. ASSUME filled = all PROVE full = expected
      BY <1>12, <1>13, <1>21, <2>2
    <2> QED
      BY <1>2, <2>1, <2>2 DEF Givable
  <1> QED
    BY <1>4, <1>25, <1>26, <1>27

\* No segment ends behind the last one.
LEMMA LaidFits ==
    ASSUME NEW jb, NEW closed, NEW b, NEW filled, Laid(jb, closed, b, filled)
    PROVE  \A k \in 1..Len(closed) : /\ SectorsIn(closed, b, k, filled) \in Nat /\ SectorsIn(closed, b, k, filled) <= filled
                                     /\ b[k] \in Nat /\ b[k + 1] \in Nat
                                     /\ k + 1 <= Len(closed) => SectorsIn(closed, b, k, filled) = ChunksEnd(b[k + 1])
  <1>1. PICK n \in Nat : n = Len(closed)
    BY DEF Laid
  <1>2. b \in Seq(Nat) /\ Len(b) = n + 1 /\ \A k \in 1..(n + 1) : b[k] \in Nat
    BY <1>1 DEF Laid
  <1>3. \A k \in 1..n : SegmentHolds(jb, closed[k], b[k], b[k + 1], SectorsIn(closed, b, k, filled))
    BY <1>1 DEF Laid
  <1>4. \A k \in 1..n : b[k] <= b[k + 1]
    BY <1>3 DEF SegmentHolds
  <1>5. CASE n = 0
    BY <1>1, <1>5
  <1>6. CASE n > 0
    <2>1. n \in 1..n /\ SectorsIn(closed, b, n, filled) = filled
      BY <1>1, <1>6 DEF SectorsIn
    <2>2. SegmentHolds(jb, closed[n], b[n], b[n + 1], filled)
      BY <1>3, <2>1
    <2>3. PICK x \in Nat : x = b[n]
      <3>1. n \in 1..(n + 1)
        BY <1>6
      <3> QED
        BY <1>2, <3>1
    <2>4. filled \in Nat /\ ChunksEnd(x) <= filled
      <3>1. PICK y \in Nat : y = b[n + 1]
        BY <1>2
      <3>2. /\ filled \in Nat /\ x <= y /\ (x = y => filled = ChunksEnd(y))
            /\ x < y => ChunksEnd(y - 1) < filled
        BY <2>2, <2>3, <3>1 DEF SegmentHolds
      <3>3. ChunksEnd(x) \in Nat
        BY ChunkEnds
      <3>4. CASE x = y
        BY <3>2, <3>3, <3>4
      <3>5. CASE x < y
        <4>1. PICK z \in Nat : z = y - 1 /\ x <= z
          <5>1. y - 1 \in Nat /\ x <= y - 1
            BY <3>5
          <5> QED
            BY <5>1
        <4>2. ChunksEnd(x) <= ChunksEnd(z) /\ ChunksEnd(z) \in Nat
          BY <4>1, ChunkEnds
        <4> QED
          BY <3>2, <3>3, <3>5, <4>1, <4>2
      <3> QED
        BY <3>2, <3>4, <3>5
    <2> DEFINE S == {m \in 0..n : m < n => b[n - m] <= x}
    <2>5. 0 \in S
      BY <2>3
    <2>6. ASSUME NEW m \in 1..n, m - 1 \in S PROVE m \in S
      <3> SUFFICES ASSUME m < n PROVE b[n - m] <= x
        OBVIOUS
      <3>1. PICK k \in 1..n : k = n - m /\ k + 1 = n - (m - 1) /\ m - 1 < n /\ k + 1 \in 1..(n + 1)
        <4>1. n - m \in 1..n /\ (n - m) + 1 = n - (m - 1) /\ m - 1 < n /\ (n - m) + 1 \in 1..(n + 1)
          OBVIOUS
        <4> QED
          BY <4>1
      <3>2. b[k + 1] <= x
        BY <2>6, <3>1
      <3>3. b[k] <= b[k + 1] /\ b[k] \in Nat /\ b[k + 1] \in Nat
        BY <1>2, <1>4, <3>1
      <3> QED
        BY <3>1, <3>2, <3>3
    <2> HIDE DEF S
    <2>7. 0..n \subseteq S
      BY <2>5, <2>6, AllUpTo
    <2>8. ASSUME NEW k \in 1..n
          PROVE  /\ SectorsIn(closed, b, k, filled) \in Nat /\ SectorsIn(closed, b, k, filled) <= filled
                 /\ b[k] \in Nat /\ b[k + 1] \in Nat
                 /\ k + 1 <= n => SectorsIn(closed, b, k, filled) = ChunksEnd(b[k + 1])
      <3>1. k \in 1..(n + 1) /\ k + 1 \in 1..(n + 1)
        OBVIOUS
      <3>2. b[k] \in Nat /\ b[k + 1] \in Nat
        BY <1>2, <3>1
      <3>3. CASE k = n
        <4>1. ~(k + 1 <= n)
          BY <3>3
        <4> QED
          BY <2>1, <2>4, <3>2, <3>3, <4>1
      <3>4. CASE k # n
        <4>1. PICK m \in 0..n : m = n - (k + 1) /\ m < n /\ n - m = k + 1
          <5>1. n - (k + 1) \in 0..n /\ n - (k + 1) < n /\ n - (n - (k + 1)) = k + 1
            BY <3>4
          <5> QED
            BY <5>1
        <4>2. b[k + 1] <= x
          BY <2>7, <4>1 DEF S
        <4>3. ChunksEnd(b[k + 1]) <= ChunksEnd(x) /\ ChunksEnd(b[k + 1]) \in Nat /\ ChunksEnd(x) \in Nat
          BY <3>2, <4>2, ChunkEnds
        <4>4. SectorsIn(closed, b, k, filled) = ChunksEnd(b[k + 1])
          BY <1>1, <3>4 DEF SectorsIn
        <4> QED
          BY <2>4, <3>2, <4>3, <4>4
      <3> QED
        BY <3>3, <3>4
    <2> QED
      BY <1>1, <2>8
  <1> QED
    BY <1>5, <1>6

\* What the reader has to go by
ReadAt(b, filled) ==
    /\ job \in EwfJobs /\ filled \in Nat /\ filled <= job.size /\ Laid(job, segments, b, filled)
    /\ \A k \in 1..Len(segments) : TableReads(job, segments[k])

LEMMA SegmentFacts ==
    ASSUME NEW b, NEW filled, ReadAt(b, filled), NEW k \in 1..Len(segments),
           NEW end, end = SectorsIn(segments, b, k, filled)
    PROVE  /\ segments[k].data \in Seq(StoredByte) /\ b[k] \in Nat /\ b[k + 1] \in Nat
           /\ SegmentHolds(job, segments[k], b[k], b[k + 1], end)
           /\ end \in Nat /\ end <= filled /\ end <= job.size /\ TableReads(job, segments[k])
           /\ ImageBytes(segments[k]) \in Int /\ ChunksEnd(b[k]) \in Nat
           /\ ImageEnd(b[k + 1], end) \in Nat /\ ImageEnd(b[k + 1], end) >= end
           /\ ChunksEnd(b[k]) + ImageBytes(segments[k]) = ImageEnd(b[k + 1], end)
           /\ k + 1 <= Len(segments) => ImageEnd(b[k + 1], end) = ChunksEnd(b[k + 1])
  <1>1. segments \in Seq(EwfSegments(job)) /\ Laid(job, segments, b, filled) /\ filled \in Nat /\ filled <= job.size
    BY DEF ReadAt, Laid
  <1>2. segments[k] \in EwfSegments(job)
    BY <1>1
  <1>3. segments[k].data \in Seq(StoredByte)
    BY <1>2 DEF EwfSegments
  <1>4. SegmentHolds(job, segments[k], b[k], b[k + 1], end)
    BY <1>1 DEF Laid
  <1>5. end \in Nat /\ end <= filled /\ b[k] \in Nat /\ b[k + 1] \in Nat /\ (k + 1 <= Len(segments) => end = ChunksEnd(b[k + 1]))
    BY <1>1, LaidFits
  <1>6. end <= job.size
    BY <1>1, <1>5, JobFacts DEF ReadAt
  <1>7. TableReads(job, segments[k])
    BY DEF ReadAt
  <1>8. /\ ImageBytes(segments[k]) \in Int /\ ChunksEnd(b[k]) \in Nat
        /\ ImageEnd(b[k + 1], end) \in Nat /\ ImageEnd(b[k + 1], end) >= end
        /\ ChunksEnd(b[k]) + ImageBytes(segments[k]) = ImageEnd(b[k + 1], end)
    BY <1>3, <1>4, <1>6, <1>7, BytesOf DEF ReadAt
  <1>9. k + 1 <= Len(segments) => ImageEnd(b[k + 1], end) = ChunksEnd(b[k + 1])
    BY <1>5 DEF ImageEnd
  <1> QED
    BY <1>3, <1>4, <1>5, <1>6, <1>7, <1>8, <1>9

\* The reader adds up where the segments begin.
LEMMA BaseIs ==
    ASSUME NEW b, NEW filled, ReadAt(b, filled)
    PROVE  \A k \in 1..Len(segments) : imageBaseOffset(k) = ChunksEnd(b[k])
  <1>1. PICK n \in Nat : n = Len(segments) /\ b[1] = 0
    BY DEF ReadAt, Laid
  <1>2. PICK size : size = [j \in 1..n |-> ImageBytes(segments[j])]
    OBVIOUS
  <1>3. PICK start : start = [j \in 1..n |-> ChunksEnd(b[j])]
    OBVIOUS
  <1>4. n > 0 => start[1] = 0
    <2>1. ChunksEnd(0) = 0
      BY ChunkEnds
    <2>2. n > 0 => 1 \in 1..n
      OBVIOUS
    <2>3. n > 0 => start[1] = ChunksEnd(b[1])
      BY <1>3, <2>2
    <2> QED
      BY <1>1, <2>1, <2>3
  <1>5. \A j \in 1..n : start[j] \in Nat /\ size[j] \in Int /\ (j + 1 <= n => start[j] + size[j] = start[j + 1])
    <2>1. ASSUME NEW j \in 1..n PROVE start[j] \in Nat /\ size[j] \in Int /\ (j + 1 <= n => start[j] + size[j] = start[j + 1])
      <3>1. PICK end : end = SectorsIn(segments, b, j, filled)
        OBVIOUS
      <3>2. /\ ImageBytes(segments[j]) \in Int /\ ChunksEnd(b[j]) \in Nat
            /\ ChunksEnd(b[j]) + ImageBytes(segments[j]) = ImageEnd(b[j + 1], end)
            /\ j + 1 <= n => ImageEnd(b[j + 1], end) = ChunksEnd(b[j + 1])
        BY <1>1, <3>1, SegmentFacts
      <3>3. j + 1 <= n => start[j + 1] = ChunksEnd(b[j + 1])
        BY <1>3
      <3> QED
        BY <1>2, <1>3, <3>2, <3>3
    <2> QED
      BY <2>1
  <1> DEFINE f == [j \in 0..n |-> IF j = 0 THEN 0 ELSE start[j] + size[j]]
  <1>6. \A j \in 1..n : f[j - 1] = start[j]
    <2>1. ASSUME NEW j \in 1..n PROVE f[j - 1] = start[j]
      <3>1. CASE j = 1
        BY <1>4, <3>1
      <3>2. CASE j # 1
        <4>1. PICK i \in 1..n : i = j - 1 /\ i + 1 = j /\ i + 1 <= n /\ i \in 0..n /\ i # 0
          <5>1. j - 1 \in 1..n /\ (j - 1) + 1 = j /\ (j - 1) + 1 <= n /\ j - 1 \in 0..n /\ j - 1 # 0
            BY <3>2
          <5> QED
            BY <5>1
        <4>2. f[i] = start[i] + size[i]
          BY <4>1
        <4> QED
          BY <1>5, <4>1, <4>2
      <3> QED
        BY <3>1, <3>2
    <2> QED
      BY <2>1
  <1>7. f = [j \in 0..n |-> IF j = 0 THEN 0 ELSE f[j - 1] + ImageBytes(segments[j])]
    <2>1. \A j \in 0..n : j # 0 => j \in 1..n
      OBVIOUS
    <2> HIDE DEF f
    <2>2. \A j \in 0..n : j # 0 => start[j] + size[j] = f[j - 1] + ImageBytes(segments[j])
      BY <1>2, <1>6, <2>1
    <2> QED
      BY <2>2 DEF f
  <1> DEFINE Sums(g) == g = [j \in 0..Len(segments) |-> IF j = 0 THEN 0 ELSE g[j - 1] + ImageBytes(segments[j])]
             base == CHOOSE g : Sums(g)
  <1>8. Sums(base)
    <2>1. Sums(f)
      BY <1>1, <1>7
    <2> HIDE DEF Sums, f
    <2> QED
      BY <2>1
  <1>9. base[0] = 0 /\ \A j \in 1..n : base[j] = base[j - 1] + ImageBytes(segments[j])
    <2> HIDE DEF base
    <2>1. base = [j \in 0..n |-> IF j = 0 THEN 0 ELSE base[j - 1] + ImageBytes(segments[j])]
      BY <1>1, <1>8
    <2>2. 0 \in 0..n /\ \A j \in 1..n : j \in 0..n /\ j # 0
      OBVIOUS
    <2> QED
      BY <2>1, <2>2
  <1>10. \A k : imageBaseOffset(k) = base[k - 1]
    BY DEF imageBaseOffset
  <1> HIDE DEF base
  <1> DEFINE S == {j \in 0..n : j < n => base[j] = start[j + 1]}
  <1>11. 0 \in S
    BY <1>4, <1>9
  <1>12. ASSUME NEW j \in 1..n, j - 1 \in S PROVE j \in S
    <2> SUFFICES ASSUME j < n PROVE base[j] = start[j + 1]
      OBVIOUS
    <2>1. j - 1 < n /\ (j - 1) + 1 = j /\ j + 1 <= n
      OBVIOUS
    <2>2. base[j - 1] = start[j]
      BY <1>12, <2>1
    <2>3. base[j] = start[j] + size[j]
      BY <1>2, <1>9, <2>2
    <2> QED
      BY <1>5, <2>1, <2>3
  <1> HIDE DEF S, f
  <1>13. 0..n \subseteq S
    BY <1>11, <1>12, AllUpTo
  <1>14. ASSUME NEW k \in 1..n PROVE imageBaseOffset(k) = ChunksEnd(b[k])
    <2>1. k - 1 \in 0..n /\ k - 1 < n /\ (k - 1) + 1 = k
      OBVIOUS
    <2>2. base[k - 1] = start[k]
      BY <1>13, <2>1 DEF S
    <2> QED
      BY <1>3, <1>10, <2>2
  <1> QED
    BY <1>1, <1>14

\* The sector at pos, read from segment k
FromSegment(k, pos) ==
    IF job.packed THEN Unpacked(segments[k], imageBaseOffset(k), pos)
    ELSE segments[k].data[pos - imageBaseOffset(k) + 1]
InSegment(k, pos) == imageBaseOffset(k) <= pos /\ pos < imageBaseOffset(k) + ImageBytes(segments[k])

LEMMA SectorRead ==
    ASSUME NEW b, NEW filled, ReadAt(b, filled), NEW k \in 1..Len(segments), NEW pos \in Nat, pos < job.size, InSegment(k, pos)
    PROVE  /\ FromSegment(k, pos) \in {NoSector, SectorGiven(job, pos + 1)}
           /\ Givable(filled, pos) => FromSegment(k, pos) = SectorGiven(job, pos + 1)
  <1>1. PICK end : end = SectorsIn(segments, b, k, filled)
    OBVIOUS
  <1>2. PICK seg : seg = segments[k]
    OBVIOUS
  <1>3. PICK base : base = ChunksEnd(b[k])
    OBVIOUS
  <1>4. /\ seg.data \in Seq(StoredByte) /\ b[k] \in Nat /\ b[k + 1] \in Nat
        /\ SegmentHolds(job, seg, b[k], b[k + 1], end)
        /\ end \in Nat /\ end <= filled /\ end <= job.size /\ TableReads(job, seg)
        /\ ImageBytes(seg) \in Int /\ base \in Nat
        /\ base + ImageBytes(seg) = ImageEnd(b[k + 1], end)
    BY <1>1, <1>2, <1>3, SegmentFacts
  <1>5. imageBaseOffset(k) = base
    BY <1>3, BaseIs
  <1>6. base <= pos /\ pos < ImageEnd(b[k + 1], end)
    BY <1>2, <1>4, <1>5 DEF InSegment
  <1>7. job \in EwfJobs /\ Len(segments) \in Nat
    BY DEF ReadAt, Laid
  <1>8. CASE job.packed
    <2>1. pos < ChunksEnd(b[k + 1])
      BY <1>6, <1>8 DEF ImageEnd
    <2>2. /\ Unpacked(seg, base, pos) \in {NoSector, SectorGiven(job, pos + 1)}
          /\ Givable(end, pos) => Unpacked(seg, base, pos) = SectorGiven(job, pos + 1)
      BY <1>3, <1>4, <1>6, <1>7, <1>8, <2>1, UnpackedIs
    <2>3. Givable(filled, pos) => Givable(end, pos)
      <3>1. CASE k = Len(segments)
        <4>1. end = filled
          BY <1>1, <3>1 DEF SectorsIn
        <4> QED
          BY <4>1
      <3>2. CASE k # Len(segments)
        <4>1. end = ChunksEnd(b[k + 1])
          BY <1>1, <3>2 DEF SectorsIn
        <4>2. ChunksEnd(b[k + 1]) <= end
          BY <1>4, <4>1
        <4> QED
          BY <1>4, <2>1, <4>2 DEF Givable
      <3> QED
        BY <3>1, <3>2
    <2>4. FromSegment(k, pos) = Unpacked(seg, base, pos)
      BY <1>2, <1>5, <1>8 DEF FromSegment
    <2> QED
      BY <2>2, <2>3, <2>4
  <1>9. CASE ~job.packed
    <2>1. pos < end
      BY <1>6, <1>9 DEF ImageEnd
    <2>2. PICK m \in Nat : m = end - base
      BY <1>4, <1>6, <2>1
    <2>3. seg.data = SectorsGiven(job, base, m)
      BY <1>3, <1>4, <1>7, <1>9, <2>2, BytesOf
    <2>4. PICK i \in 1..m : i = pos - base + 1 /\ base + i = pos + 1
      <3>1. pos - base + 1 \in 1..m /\ base + (pos - base + 1) = pos + 1
        BY <1>4, <1>6, <2>1, <2>2
      <3> QED
        BY <3>1
    <2>5. seg.data[i] = SectorGiven(job, pos + 1)
      BY <1>4, <2>3, <2>4, GivenIs
    <2>6. FromSegment(k, pos) = seg.data[i]
      BY <1>2, <1>5, <1>9, <2>4 DEF FromSegment
    <2> QED
      BY <2>5, <2>6
  <1> QED
    BY <1>7, <1>8, <1>9, JobFacts

LEMMA SomeSegment ==
    ASSUME NEW b, NEW filled, ReadAt(b, filled), NEW pos \in Nat, pos < filled, segments # <<>>
    PROVE  \E k \in 1..Len(segments) : InSegment(k, pos)
  <1>1. PICK n \in Nat \ {0} : n = Len(segments)
    BY EmptySeq DEF ReadAt, Laid
  <1> DEFINE End(k) == imageBaseOffset(k) + ImageBytes(segments[k])
             S == {k \in 1..n : pos < End(k)}
  <1>2. \A k \in 1..n : /\ imageBaseOffset(k) \in Nat /\ End(k) \in Int
                        /\ k + 1 <= n => End(k) = imageBaseOffset(k + 1)
    <2>1. ASSUME NEW k \in 1..n
          PROVE  /\ imageBaseOffset(k) \in Nat /\ End(k) \in Int
                 /\ k + 1 <= n => End(k) = imageBaseOffset(k + 1)
      <3>1. PICK end : end = SectorsIn(segments, b, k, filled)
        OBVIOUS
      <3>2. /\ ImageBytes(segments[k]) \in Int /\ ChunksEnd(b[k]) \in Nat
            /\ ChunksEnd(b[k]) + ImageBytes(segments[k]) = ImageEnd(b[k + 1], end)
            /\ k + 1 <= n => ImageEnd(b[k + 1], end) = ChunksEnd(b[k + 1])
        BY <1>1, <3>1, SegmentFacts
      <3>3. imageBaseOffset(k) = ChunksEnd(b[k]) /\ (k + 1 <= n => imageBaseOffset(k + 1) = ChunksEnd(b[k + 1]))
        BY <1>1, BaseIs
      <3> QED
        BY <3>2, <3>3
    <2> QED
      BY <2>1
  <1>3. n \in S
    <2>1. n \in 1..Len(segments) /\ SectorsIn(segments, b, n, filled) = filled
      BY <1>1 DEF SectorsIn
    <2>2. /\ ChunksEnd(b[n]) + ImageBytes(segments[n]) = ImageEnd(b[n + 1], filled)
          /\ ImageEnd(b[n + 1], filled) >= filled /\ ImageEnd(b[n + 1], filled) \in Nat
      BY <2>1, SegmentFacts
    <2>3. imageBaseOffset(n) = ChunksEnd(b[n])
      BY <2>1, BaseIs
    <2>4. filled \in Nat
      BY DEF ReadAt
    <2>5. pos < End(n)
      BY <2>2, <2>3, <2>4
    <2> QED
      BY <1>1, <2>5
  <1>4. imageBaseOffset(1) = 0
    <2>1. 1 \in 1..Len(segments)
      BY <1>1
    <2>2. imageBaseOffset(1) = ChunksEnd(b[1]) /\ b[1] = 0
      BY <2>1, BaseIs DEF ReadAt, Laid
    <2> QED
      BY <2>2, ChunkEnds
  <1>5. PICK k \in S : \A m \in S : k <= m
    <2>1. S \subseteq Nat /\ S # {}
      BY <1>3
    <2> HIDE DEF S
    <2> QED
      BY <2>1, LeastNatural
  <1>6. k \in 1..n /\ pos < End(k)
    BY <1>5
  <1>7. imageBaseOffset(k) <= pos
    <2>1. CASE k = 1
      BY <1>4, <2>1
    <2>2. CASE k # 1
      <3>1. PICK j \in 1..n : j + 1 = k /\ ~(k <= j) /\ j + 1 <= n
        <4>1. k - 1 \in 1..n /\ (k - 1) + 1 = k /\ ~(k <= k - 1) /\ (k - 1) + 1 <= n
          BY <1>6, <2>2
        <4> QED
          BY <4>1
      <3>2. ~(pos < End(j))
        BY <1>5, <3>1
      <3>3. End(j) = imageBaseOffset(k) /\ End(j) \in Int
        BY <1>2, <3>1
      <3> HIDE DEF End
      <3> QED
        BY <3>2, <3>3
    <2> QED
      BY <2>1, <2>2
  <1> QED
    BY <1>1, <1>6, <1>7 DEF InSegment

LEMMA EwfReads ==
    ASSUME NEW b, NEW filled, ReadAt(b, filled), segments # <<>>, segments[1].total \in 1..Len(segments),
           NEW pos \in 0..(job.size - 1)
    PROVE  /\ readEwf(pos) \in {NoSector, SectorGiven(job, pos + 1)}
           /\ segments[1].total = Len(segments) /\ Givable(filled, pos) => readEwf(pos) = SectorGiven(job, pos + 1)
  <1>1. job.size \in Nat /\ filled \in Nat /\ Len(segments) \in Nat
    BY JobFacts DEF ReadAt, Laid
  <1>2. pos \in Nat /\ pos < job.size
    BY <1>1
  <1>3. PICK total \in 1..Len(segments) : total = segments[1].total
    OBVIOUS
  <1> DEFINE found == {k \in 1..total : InSegment(k, pos)}
  <1>4. readEwf(pos) = IF found = {} THEN NoSector ELSE FromSegment(Min(found), pos)
    BY <1>3 DEF readEwf, InSegment, FromSegment
  <1>5. CASE found = {}
    <2>1. ~(segments[1].total = Len(segments) /\ Givable(filled, pos))
      <3>1. SUFFICES ASSUME total = Len(segments), Givable(filled, pos) PROVE FALSE
        BY <1>3
      <3>2. pos < filled
        <4>1. ASSUME NEW c \in Nat, pos < ChunksEnd(c), ChunksEnd(c) <= filled PROVE pos < filled
          <5>1. PICK x \in Nat : x = ChunksEnd(c)
            BY ChunkEnds
          <5> QED
            BY <1>1, <1>2, <4>1, <5>1
        <4> QED
          BY <3>1, <4>1 DEF Givable
      <3>3. \E k \in 1..Len(segments) : InSegment(k, pos)
        BY <1>2, <3>2, SomeSegment
      <3> QED
        BY <1>5, <3>1, <3>3
    <2>2. readEwf(pos) = NoSector
      BY <1>4, <1>5
    <2> QED
      BY <2>1, <2>2
  <1>6. CASE found # {}
    <2>1. found \subseteq Nat
      OBVIOUS
    <2> HIDE DEF found
    <2>2. PICK k \in found : k = Min(found)
      BY <1>6, <2>1, LeastIn
    <2>3. k \in 1..Len(segments) /\ InSegment(k, pos)
      BY <1>1, <2>2 DEF found
    <2>4. /\ FromSegment(k, pos) \in {NoSector, SectorGiven(job, pos + 1)}
          /\ Givable(filled, pos) => FromSegment(k, pos) = SectorGiven(job, pos + 1)
      BY <1>2, <2>3, SectorRead
    <2>5. readEwf(pos) = FromSegment(k, pos)
      BY <1>4, <1>6, <2>2
    <2> QED
      BY <2>4, <2>5
  <1> QED
    BY <1>5, <1>6

\* What a file holds is of the disk, and a run that ended left all it was fed.
LEMMA EwfLaid ==
    ASSUME EwfInv
    PROVE  /\ Len(segments) \in Nat /\ writer \in EwfWriters /\ job \in EwfJobs /\ job.size \in Nat
           /\ Len(writer.fed) \in Nat /\ FedRight(job, writer)
           /\ \E b, filled : /\ Laid(job, segments, b, filled) /\ filled \in Nat /\ filled <= job.size
                             /\ writer.pc \in {"finished", "aborted"} => filled = Len(writer.fed)
  <1>1. job \in EwfJobs /\ job.size \in Nat
    BY JobFacts DEF EwfInv
  <1>2. CASE OpenHolds(job, writer, segments, lost)
    <2>1. PICK b : OpenBy(job, writer, segments, b)
      BY <1>2 DEF OpenHolds, Writing
    <2>2. PICK n \in Nat : n = Len(segments)
      BY <2>1 DEF OpenBy, Laid
    <2>3. /\ writer \in EwfWriters /\ FedRight(job, writer) /\ PendingRight(job, writer)
          /\ Laid(job, segments, b, ChunksEnd(b[n + 1])) /\ DataRight(job, writer, b[n + 1], ChunksEnd(writer.chunks))
      BY <2>1, <2>2 DEF OpenBy
    <2>4. PICK c \in Nat : c = b[n + 1] /\ writer.chunks = c + Len(writer.offsets)
      BY <2>3 DEF DataRight
    <2>5. PICK k \in Nat : k = Len(writer.offsets)
      BY <2>3 DEF EwfWriters
    <2>6. Len(writer.fed) \in Nat /\ Len(writer.pending) \in Nat
      BY <2>3 DEF EwfWriters
    <2>7. Len(writer.fed) = ChunksEnd(c + k) + Len(writer.pending) /\ Len(writer.fed) <= job.size
      BY <2>3, <2>4, <2>5 DEF PendingRight, FedRight
    <2>8. ChunksEnd(c + k) = ChunksEnd(c) + ChunksEnd(k) /\ ChunksEnd(c) \in Nat
      BY ChunkEnds
    <2>9. ChunksEnd(k) \in Nat
      BY ChunkEnds
    <2>10. ChunksEnd(c) <= job.size
      BY <1>1, <2>6, <2>7, <2>8, <2>9
    <2>11. writer.pc \notin {"finished", "aborted"}
      BY <1>2 DEF OpenHolds
    <2>12. Laid(job, segments, b, ChunksEnd(c))
      BY <2>3, <2>4
    <2> QED
      BY <1>1, <2>2, <2>3, <2>6, <2>8, <2>10, <2>11, <2>12
  <1>3. CASE EndHolds(job, writer, segments, lost)
    <2>1. PICK b : EndedBy(job, writer, segments, b)
      BY <1>3 DEF EndHolds
    <2>2. writer \in EwfWriters /\ FedRight(job, writer) /\ Laid(job, segments, b, Len(writer.fed))
      BY <2>1 DEF EndedBy
    <2>3. Len(writer.fed) \in Nat /\ Len(writer.fed) <= job.size /\ Len(segments) \in Nat
      BY <2>2 DEF EwfWriters, FedRight, Laid
    <2> QED
      BY <1>1, <2>2, <2>3
  <1> QED
    BY <1>2, <1>3 DEF EwfInv

\* The total the first segment gives is of segments that are there.
LEMMA TotalFits ==
    ASSUME EwfInv, segments # <<>>
    PROVE  /\ segments[1].total \in 1..Len(segments)
           /\ Len(segments) \in Nat /\ Len(segments) \in 1..Len(segments)
  <1>1. PICK n \in Nat : n = Len(segments)
    BY EwfLaid
  <1>2. n > 0
    <2>1. segments \in Seq(EwfSegments(job))
      BY EwfLaid DEF Laid
    <2> QED
      BY <1>1, <2>1
  <1>3. segments[1].total \in {1, n}
    <2>1. CASE OpenHolds(job, writer, segments, lost)
      <3>1. OpenSeal(segments)
        BY <2>1 DEF OpenHolds, Writing
      <3>2. 1 \in 1..Len(segments)
        BY <1>1, <1>2
      <3> QED
        BY <3>1, <3>2 DEF OpenSeal
    <2>2. CASE EndHolds(job, writer, segments, lost)
      BY <1>1, <2>2 DEF EndHolds, Marked
    <2> QED
      BY <2>1, <2>2 DEF EwfInv
  <1> QED
    BY <1>1, <1>2, <1>3

LEMMA EwfReadsAt ==
    ASSUME EwfInv, TotalsReadable
    PROVE  \E b, filled : ReadAt(b, filled) /\ (writer.pc \in {"finished", "aborted"} => filled = Len(writer.fed))
  <1>1. PICK b, filled : /\ Laid(job, segments, b, filled) /\ filled \in Nat /\ filled <= job.size
                         /\ writer.pc \in {"finished", "aborted"} => filled = Len(writer.fed)
    BY EwfLaid
  <1>2. segments \in Seq(EwfSegments(job))
    BY <1>1 DEF Laid
  <1>3. DOMAIN segments = 1..Len(segments)
    BY <1>2
  <1>4. \A k \in 1..Len(segments) : TableReads(job, segments[k])
    BY <1>3 DEF TotalsReadable, TableReads
  <1>5. job \in EwfJobs
    BY EwfLaid
  <1> QED
    BY <1>1, <1>4, <1>5 DEF ReadAt

\* A digest is the last segment's, of a run that had the whole disk.
LEMMA DigestIs ==
    ASSUME EwfInv, segments # <<>>
    PROVE  /\ StoredDigest # NoDigest =>
                /\ segments[1].total = Len(segments) /\ writer.pc = "finished"
                /\ StoredDigest = writer.fed /\ acquiryErrors = job.damaged
                /\ writer.fed = SectorsGiven(job, 0, job.size) /\ Len(writer.fed) = job.size
           /\ writer.pc = "finished" /\ segments[1].total = Len(segments) =>
                /\ StoredDigest = writer.fed /\ StoredDigest # NoDigest
                /\ writer.fed = SectorsGiven(job, 0, job.size) /\ Len(writer.fed) = job.size
  <1>1. PICK n \in Nat : n = Len(segments) /\ n \in 1..n
    BY TotalFits
  <1>2. PICK total \in 1..n : total = segments[1].total
    BY <1>1, TotalFits
  <1> DEFINE with == {k \in 1..total : segments[k].digest # NoDigest}
  <1>3. StoredDigest = IF with = {} THEN NoDigest ELSE segments[Max(with)].digest
    BY <1>2 DEF StoredDigest
  <1>4. CASE OpenHolds(job, writer, segments, lost)
    <2>1. OpenSeal(segments) /\ writer.pc # "finished"
      BY <1>4 DEF OpenHolds, Writing
    <2>2. with = {}
      BY <1>1, <2>1 DEF OpenSeal
    <2> QED
      BY <1>3, <2>1, <2>2
  <1>5. CASE EndHolds(job, writer, segments, lost)
    <2>1. /\ \A k \in 1..(n - 1) : segments[k].digest = NoDigest /\ segments[k].errors = {}
          /\ writer.pc \in {"finished", "aborted"} /\ LastMarked(job, writer, segments[n])
      BY <1>1, <1>5 DEF EndHolds, Marked
    <2>2. \A k \in 1..total : k \in 1..(n - 1) \/ (k = n /\ total = n)
      OBVIOUS
    <2>3. with \subseteq {n}
      BY <2>1, <2>2
    <2>4. with # {} => with = {n} /\ total = n /\ segments[n].digest # NoDigest
      BY <2>2, <2>3
    <2>5. Max({n}) = n
      <3>1. {n} \subseteq Int /\ n \in {n} /\ \A y \in {n} : y <= n
        OBVIOUS
      <3> QED
        BY <3>1, GreatestIs
    <2>6. writer.pc = "finished" => /\ segments[n].digest = writer.fed /\ segments[n].errors = job.damaged
                                    /\ Len(writer.fed) = job.size
      BY <2>1 DEF LastMarked
    <2>7. writer.pc = "aborted" => segments[n].digest = NoDigest
      BY <2>1 DEF LastMarked
    <2>8. writer.fed = SectorsGiven(job, 0, Len(writer.fed)) /\ writer.fed \in Seq(Nat)
      BY EwfLaid DEF FedRight, EwfWriters
    <2>9. writer.fed # NoDigest
      <3>1. SUFFICES ASSUME writer.fed = NoDigest PROVE FALSE
        OBVIOUS
      <3>2. Len(writer.fed) = 1 /\ writer.fed[1] = -1
        BY <3>1 DEF NoDigest
      <3>3. \A i \in 1..Len(writer.fed) : writer.fed[i] \in Nat
        BY <2>8
      <3>4. writer.fed[1] \in Nat
        BY <3>2, <3>3
      <3>5. -1 \notin Nat
        OBVIOUS
      <3> QED
        BY <3>2, <3>4, <3>5
    <2>10. ASSUME with # {}
           PROVE  /\ total = n /\ writer.pc = "finished" /\ StoredDigest = writer.fed /\ acquiryErrors = job.damaged
                  /\ writer.fed = SectorsGiven(job, 0, job.size) /\ Len(writer.fed) = job.size
      <3>1. writer.pc = "finished"
        BY <2>1, <2>4, <2>7, <2>10
      <3>2. StoredDigest = writer.fed
        BY <1>3, <2>4, <2>5, <2>6, <2>10, <3>1
      <3>3. acquiryErrors = UNION {segments[k].errors : k \in 1..n}
        BY <1>2, <2>4, <2>10 DEF acquiryErrors
      <3>4. \A k \in 1..n : segments[k].errors = IF k = n THEN job.damaged ELSE {}
        BY <2>1, <2>2, <2>4, <2>6, <2>10, <3>1
      <3>5. acquiryErrors = job.damaged
        BY <1>1, <3>3, <3>4
      <3> QED
        BY <2>4, <2>6, <2>8, <2>10, <3>1, <3>2, <3>5
    <2>11. ASSUME writer.pc = "finished", total = n PROVE with # {}
      BY <1>1, <2>6, <2>9, <2>11
    <2> HIDE DEF with
    <2> QED
      BY <1>1, <1>2, <1>3, <2>9, <2>10, <2>11
  <1> QED
    BY <1>4, <1>5 DEF EwfInv

\* The files that open give each sector as it was acquired or not at all.
LEMMA OpenedReads ==
    ASSUME EwfInv, parseAllSegments, TotalsReadable, NEW pos \in 0..(job.size - 1)
    PROVE  readEwf(pos) \in {NoSector, Acquired(pos + 1)}
  <1>1. segments # <<>>
    BY DEF parseAllSegments
  <1>2. segments[1].total \in 1..Len(segments)
    BY <1>1, TotalFits
  <1>3. PICK b, filled : ReadAt(b, filled)
    BY EwfReadsAt
  <1>4. Acquired(pos + 1) = SectorGiven(job, pos + 1)
    BY DEF Acquired, SectorGiven
  <1> QED
    BY <1>1, <1>2, <1>3, <1>4, EwfReads

\* They verify only if they are all of the disk.
LEMMA VerifiedReads ==
    ASSUME EwfInv, parseAllSegments, verifyDigest
    PROVE  /\ writer.pc = "finished" /\ acquiryErrors = job.damaged
           /\ \A pos \in 0..(job.size - 1) : readEwf(pos) = Acquired(pos + 1)
  <1>1. segments # <<>>
    BY DEF parseAllSegments
  <1>2. StoredDigest # NoDigest /\ [i \in 1..job.size |-> readEwf(i - 1)] = StoredDigest
    BY DEF verifyDigest
  <1>3. /\ writer.pc = "finished" /\ acquiryErrors = job.damaged
        /\ StoredDigest = SectorsGiven(job, 0, job.size)
    BY <1>1, <1>2, DigestIs
  <1>4. PICK n \in Nat : n = job.size
    BY EwfLaid
  <1>5. ASSUME NEW pos \in 0..(n - 1) PROVE readEwf(pos) = Acquired(pos + 1)
    <2>1. PICK i \in 1..n : i = pos + 1 /\ i - 1 = pos /\ 0 + i = i
      <3>1. pos + 1 \in 1..n /\ (pos + 1) - 1 = pos /\ 0 + (pos + 1) = pos + 1
        OBVIOUS
      <3> QED
        BY <3>1
    <2>2. readEwf(i - 1) = SectorsGiven(job, 0, n)[i]
      BY <1>2, <1>3, <1>4
    <2>3. SectorsGiven(job, 0, n)[i] = SectorGiven(job, 0 + i)
      BY GivenIs
    <2>4. Acquired(pos + 1) = SectorGiven(job, pos + 1)
      BY DEF Acquired, SectorGiven
    <2> QED
      BY <2>1, <2>2, <2>3, <2>4
  <1> QED
    BY <1>3, <1>4, <1>5

\* The chunks a run had whole can be given.
LEMMA ChunksGivable ==
    ASSUME NEW filled \in Nat, NEW pos \in 0..((filled \div EwfChunk) * EwfChunk - 1)
    PROVE  Givable(filled, pos) /\ pos < filled
  <1>1. EwfChunk \in Nat \ {0}
    BY EwfAssumption
  <1>2. PICK c \in Nat : c = filled \div EwfChunk
    BY <1>1, Blocks
  <1>3. PICK r \in Nat : filled = c * EwfChunk + r
    <2>1. filled % EwfChunk \in 0..(EwfChunk - 1) /\ filled = (filled \div EwfChunk) * EwfChunk + (filled % EwfChunk)
      BY <1>1, Blocks
    <2>2. filled % EwfChunk \in Nat
      BY <1>1, <2>1
    <2> QED
      BY <1>2, <2>1, <2>2
  <1>4. PICK end \in Nat : end = c * EwfChunk /\ end = ChunksEnd(c)
    <2>1. ChunksEnd(c) \in Nat /\ ChunksEnd(c) = c * EwfChunk
      BY ChunkEnds DEF ChunksEnd
    <2> QED
      BY <2>1
  <1>5. pos \in 0..(end - 1) /\ filled = end + r
    BY <1>2, <1>3, <1>4
  <1>6. pos < end /\ end <= filled
    BY <1>5
  <1> QED
    BY <1>4, <1>5, <1>6 DEF Givable

\* A run that lost nothing leaves an image that opens and gives what it had.
LEMMA EndedReads ==
    ASSUME EwfInv, writer.pc \in {"finished", "aborted"}, ~lost, TotalsReadable
    PROVE  /\ parseAllSegments
           /\ \A pos \in 0..((Len(writer.fed) \div EwfChunk) * EwfChunk - 1) : readEwf(pos) = Acquired(pos + 1)
           /\ writer.pc = "finished" => verifyDigest
  <1>1. lost = FALSE
    BY Zenon DEF EwfInv
  <1>2. EndHolds(job, writer, segments, lost)
    BY DEF EwfInv, OpenHolds
  <1>3. Whole(segments) /\ segments # <<>>
    BY <1>1, <1>2 DEF EndHolds, EndedBy
  <1>4. PICK n \in Nat : n = Len(segments) /\ n \in 1..n
    BY <1>3, TotalFits
  <1>5. segments[1].total = n /\ \A k \in 1..n : segments[k].sized
    BY <1>3, <1>4 DEF Whole
  <1>6. parseAllSegments
    BY <1>3, <1>4, <1>5 DEF parseAllSegments
  <1>7. PICK b, filled : ReadAt(b, filled) /\ filled = Len(writer.fed)
    BY EwfReadsAt
  <1>8. filled \in Nat /\ filled <= job.size /\ job.size \in Nat
    BY <1>7, EwfLaid DEF ReadAt
  <1>9. ASSUME NEW pos \in Nat, pos < filled, Givable(filled, pos) PROVE readEwf(pos) = SectorGiven(job, pos + 1)
    <2>1. pos \in 0..(job.size - 1)
      BY <1>8, <1>9
    <2>2. segments[1].total \in 1..Len(segments)
      BY <1>4, <1>5
    <2> QED
      BY <1>3, <1>4, <1>5, <1>7, <1>9, <2>1, <2>2, EwfReads
  <1>10. ASSUME NEW pos \in 0..((filled \div EwfChunk) * EwfChunk - 1) PROVE readEwf(pos) = Acquired(pos + 1)
    <2>1. Givable(filled, pos) /\ pos < filled
      BY <1>8, ChunksGivable
    <2>2. Acquired(pos + 1) = SectorGiven(job, pos + 1)
      BY DEF Acquired, SectorGiven
    <2> QED
      BY <1>9, <2>1, <2>2
  <1>11. ASSUME writer.pc = "finished" PROVE verifyDigest
    <2>1. /\ StoredDigest = SectorsGiven(job, 0, job.size) /\ StoredDigest # NoDigest
          /\ filled = job.size
      BY <1>3, <1>4, <1>5, <1>7, <1>11, DigestIs
    <2>2. ASSUME NEW i \in 1..job.size PROVE readEwf(i - 1) = SectorGiven(job, 0 + i)
      <3>1. PICK pos \in Nat : pos = i - 1 /\ pos < filled /\ pos + 1 = 0 + i
        <4>1. i - 1 \in Nat /\ i - 1 < filled /\ (i - 1) + 1 = 0 + i
          BY <1>8, <2>1
        <4> QED
          BY <4>1
      <3>2. Givable(filled, pos)
        BY <2>1, <3>1 DEF Givable
      <3> QED
        BY <1>9, <3>1, <3>2
    <2>3. [i \in 1..job.size |-> readEwf(i - 1)] = SectorsGiven(job, 0, job.size)
      BY <2>2 DEF SectorsGiven
    <2> QED
      BY <2>1, <2>3 DEF verifyDigest
  <1> QED
    BY <1>6, <1>7, <1>10, <1>11

\* EwfReader over what EwfWriter leaves: whatever is lost and wherever the run
\* stops, a sector reads as it was acquired or not at all, what verifies is the
\* whole disk, and a run that lost nothing reads back.
THEOREM EwfImagesReadBack == EwfSpec => []EwfReadsBack
  <1>1. EwfInv => EwfReadsBack
    BY OpenedReads, VerifiedReads, EndedReads DEF EwfReadsBack
  <1> QED
    BY <1>1, EwfInvariant, PTL
=============================================================================
