---------------------------- MODULE CirBufProofs ----------------------------
(***************************************************************************)
(* The ring buffer is correct for every capacity: Inv of CirBuf is         *)
(* inductive.  The only arithmetic fact needed is that a position is never *)
(* more than one lap ahead, so % MaxSize is one conditional subtraction.    *)
(***************************************************************************)
EXTENDS CirBuf, TLAPS

\* From an index, up to one lap on is at most one subtraction away.
LEMMA AheadOnce ==
  \A pos \in Index : \A n \in 0 .. MaxSize :
     /\ Ahead(pos, n) = IF pos + n < MaxSize THEN pos + n ELSE pos + n - MaxSize
     /\ Ahead(pos, n) \in Index
<1>1. \A i \in 0 .. 2 * MaxSize - 1 :
         i % MaxSize = IF i < MaxSize THEN i ELSE i - MaxSize
  BY SizeAssumption
<1>2. \A pos \in Index : \A n \in 0 .. MaxSize : pos + n \in 0 .. 2 * MaxSize - 1
  BY SizeAssumption DEF Index
<1> QED
  BY <1>1, <1>2, SizeAssumption DEF Index, Ahead

\* Two walks around the ring compose, and do not meet before a full lap.
LEMMA AheadCompose ==
  \A pos \in Index : \A m, n \in 0 .. MaxSize :
     /\ m + n <= MaxSize => Ahead(Ahead(pos, m), n) = Ahead(pos, m + n)
     /\ m < n /\ n < MaxSize + m => Ahead(pos, m) # Ahead(pos, n)
<1> SUFFICES ASSUME NEW pos \in Index, NEW m \in 0 .. MaxSize, NEW n \in 0 .. MaxSize
             PROVE  /\ m + n <= MaxSize => Ahead(Ahead(pos, m), n) = Ahead(pos, m + n)
                    /\ m < n /\ n < MaxSize + m => Ahead(pos, m) # Ahead(pos, n)
  OBVIOUS
<1> USE SizeAssumption
<1>1. /\ Ahead(pos, m) = IF pos + m < MaxSize THEN pos + m ELSE pos + m - MaxSize
      /\ Ahead(pos, n) = IF pos + n < MaxSize THEN pos + n ELSE pos + n - MaxSize
      /\ Ahead(pos, m) \in Index
  BY AheadOnce
<1>2. Ahead(Ahead(pos, m), n) = IF Ahead(pos, m) + n < MaxSize THEN Ahead(pos, m) + n
                                ELSE Ahead(pos, m) + n - MaxSize
  BY <1>1, AheadOnce
<1>3. ASSUME m + n <= MaxSize
      PROVE  Ahead(pos, m + n) = IF pos + (m + n) < MaxSize THEN pos + (m + n)
                                 ELSE pos + (m + n) - MaxSize
  BY <1>3, AheadOnce
<1> QED
  BY <1>1, <1>2, <1>3 DEF Index

LEMMA InitInv == Init => Inv
<1> SUFFICES ASSUME Init PROVE Inv
  OBVIOUS
<1>1. 0 \in Index /\ Ahead(0, 0) = 0
  BY AheadOnce, SizeAssumption DEF Index
<1> QED
  BY <1>1, SizeAssumption
  DEF Init, Inv, TypeOK, RingHoldsStream, AsyncWithinWindow, NoLostWakeup,
      WaiterIsBlocked, NeverTwoWaiters, Index, Empty, HeadPos

\* Dropping n bytes from the front keeps the rest where it is.
LEMMA DropKeepsRing ==
  ASSUME TypeOK, RingHoldsStream, NEW n \in 0 .. count,
         readPos' = Ahead(readPos, n), count' = count - n,
         UNCHANGED <<buf, writePos, totalSize>>
  PROVE  RingHoldsStream' /\ readPos' \in Index /\ count' \in 0 .. MaxSize
<1> USE SizeAssumption
<1>1. readPos \in Index /\ count \in 0 .. MaxSize /\ totalSize \in Nat
  BY DEF TypeOK
<1>2. readPos' \in Index /\ count' \in 0 .. MaxSize
  BY <1>1, AheadOnce
<1>3. ASSUME NEW k \in 0 .. count - n
      PROVE  Ahead(readPos', k) = Ahead(readPos, n + k)
  <2>1. k \in 0 .. MaxSize /\ n + k \in 0 .. MaxSize /\ n \in 0 .. MaxSize
    BY <1>1
  <2> QED
    BY <2>1, <1>1, AheadCompose
<1>4. writePos' = Ahead(readPos', count')
  BY <1>1, <1>3 DEF RingHoldsStream
<1>5. ASSUME NEW k \in 0 .. count' - 1
      PROVE  buf'[Ahead(readPos', k)] = totalSize' - count' + k
  <2>1. n + k \in 0 .. count - 1 /\ k \in 0 .. count - n
    BY <1>1
  <2> QED
    BY <1>1, <1>3, <2>1 DEF RingHoldsStream, HeadPos
<1> QED
  BY <1>2, <1>4, <1>5 DEF RingHoldsStream, HeadPos

\* Storing a byte, with or without evicting the oldest, extends the stream.
LEMMA WriteByteKeepsRing ==
  ASSUME Inv, WriteByte
  PROVE  /\ RingHoldsStream'
         /\ readPos' \in Index /\ writePos' \in Index /\ count' \in 0 .. MaxSize
<1> USE SizeAssumption
<1>1. /\ readPos \in Index /\ writePos \in Index /\ writePos = Ahead(readPos, count)
      /\ count \in 0 .. MaxSize /\ totalSize \in Nat /\ windowSize \in 0 .. MaxSize
      /\ count <= windowSize /\ buf \in [Index -> Nat \cup {Empty}]
      /\ \A k \in 0 .. count - 1 : buf[Ahead(readPos, k)] = totalSize - count + k
  BY DEF Inv, TypeOK, RingHoldsStream, AsyncWithinWindow, WriteByte, Blocking, HeadPos
<1>2. /\ writePos' = Ahead(writePos, 1) /\ writePos' \in Index
      /\ totalSize' = totalSize + 1
      /\ \A i \in Index : buf'[i] = IF i = writePos THEN totalSize ELSE buf[i]
  BY <1>1, AheadOnce DEF WriteByte
<1>3. CASE count < windowSize
  <2>1. count' = count + 1 /\ readPos' = readPos
    BY <1>3 DEF WriteByte, StoreOrEvict
  <2>2. writePos' = Ahead(readPos', count')
    BY <1>1, <1>2, <1>3, <2>1, AheadCompose
  <2>3. ASSUME NEW k \in 0 .. count' - 1
        PROVE  buf'[Ahead(readPos', k)] = totalSize' - count' + k
    <3>1. k \in 0 .. MaxSize /\ Ahead(readPos, k) \in Index
      BY <1>1, <1>3, <2>1, AheadOnce
    <3>2. CASE k = count
      BY <3>1, <3>2, <1>1, <1>2, <2>1
    <3>3. CASE k < count
      <4>1. Ahead(readPos, k) # writePos
        BY <3>1, <3>3, <1>1, <1>3, AheadCompose
      <4> QED
        BY <4>1, <3>1, <3>3, <1>1, <1>2, <2>1
    <3> QED
      BY <3>2, <3>3, <2>1, <1>1
  <2> QED
    BY <1>1, <1>2, <1>3, <2>1, <2>2, <2>3 DEF RingHoldsStream, HeadPos
<1>4. CASE ~(count < windowSize)
  <2>1. count' = count /\ readPos' = Ahead(readPos, 1) /\ count = windowSize
    BY <1>1, <1>4 DEF WriteByte, StoreOrEvict
  <2>2. readPos' \in Index
    BY <1>1, <2>1, AheadOnce
  <2>3. writePos' = Ahead(readPos', count')
    <3>1. CASE count = MaxSize
      BY <3>1, <1>1, <1>2, <2>1, <2>2, AheadOnce DEF Index
    <3>2. CASE count < MaxSize
      BY <3>2, <1>1, <1>2, <2>1, AheadCompose
    <3> QED
      BY <3>1, <3>2, <1>1
  <2>4. ASSUME NEW k \in 0 .. count' - 1
        PROVE  buf'[Ahead(readPos', k)] = totalSize' - count' + k
    <3>1. k \in 0 .. MaxSize /\ k + 1 \in 0 .. MaxSize
      BY <1>1, <2>1
    <3>2. Ahead(readPos', k) = Ahead(readPos, k + 1) /\ Ahead(readPos, k + 1) \in Index
      <4>1. Ahead(Ahead(readPos, 1), k) = Ahead(readPos, 1 + k)
        BY <3>1, <1>1, AheadCompose
      <4> QED
        BY <4>1, <3>1, <2>1, <1>1, AheadOnce
    <3>3. CASE k + 1 = count
      BY <3>1, <3>2, <3>3, <1>1, <1>2, <2>1
    <3>4. CASE k + 1 < count
      <4>1. Ahead(readPos, k + 1) # writePos
        BY <3>1, <3>4, <1>1, AheadCompose
      <4> QED
        BY <4>1, <3>1, <3>2, <3>4, <1>1, <1>2, <2>1
    <3> QED
      BY <3>3, <3>4, <2>1, <1>1
  <2> QED
    BY <1>1, <1>2, <2>1, <2>2, <2>3, <2>4 DEF RingHoldsStream, HeadPos
<1> QED
  BY <1>3, <1>4

\* Every step of the buffer and of its writer preserves the invariant.
LEMMA StepInv == Inv /\ [Next]_vars => Inv'
<1> SUFFICES ASSUME Inv, [Next]_vars PROVE Inv'
  OBVIOUS
<1> USE SizeAssumption DEF Inv, TypeOK, AsyncWithinWindow, NoLostWakeup, WaiterIsBlocked,
                           NeverTwoWaiters, Blocking
<1>1. ASSUME NEW n \in 1 .. MaxData, WriteCall(n) PROVE Inv'
  BY <1>1 DEF WriteCall, ring, mode, RingHoldsStream, HeadPos
<1>2. CASE WriteByte
  <2>1. /\ RingHoldsStream' /\ readPos' \in Index
        /\ writePos' \in Index /\ count' \in 0 .. MaxSize
    BY <1>2, WriteByteKeepsRing
  <2>2. count' <= windowSize /\ count' <= totalSize'
    BY <1>2 DEF WriteByte, StoreOrEvict, mode
  <2>3. buf' \in [Index -> Nat \cup {Empty}]
    BY <1>2 DEF WriteByte
  <2>4. UNCHANGED <<syncMode, windowSize, waiterChan, writer>> /\ ~waiterChan
    BY <1>2 DEF WriteByte, mode
  <2>5. left' \in Nat /\ written' \in Nat /\ totalSize' \in Nat
    BY <1>2 DEF WriteByte
  <2> QED
    BY <2>1, <2>2, <2>3, <2>4, <2>5
<1>3. CASE WriteReturn
  BY <1>3 DEF WriteReturn, ring, mode, RingHoldsStream, HeadPos
<1>4. CASE WriteBlock
  BY <1>4 DEF WriteBlock, ring, mode, RingHoldsStream, HeadPos
<1>5. CASE WriterResumes
  BY <1>5 DEF WriterResumes, ChannelClosed, ring, mode, RingHoldsStream, HeadPos
<1>6. ASSUME NEW n \in 0 .. MaxSize, Consume(n) PROVE Inv'
  <2>1. RingHoldsStream' /\ readPos' \in Index /\ count' \in 0 .. MaxSize
    BY <1>6, DropKeepsRing DEF Consume
  <2>2. /\ UNCHANGED <<buf, writePos, totalSize, syncMode, windowSize, writer, left, written>>
        /\ waiterChan' = FALSE /\ count' = count - n
    BY <1>6 DEF Consume, tryWakeWriter, mode, call
  <2>3. count' <= totalSize'
    BY <2>2, <2>1
  <2>4. AsyncWithinWindow'
    BY <2>2, <2>1
  <2> QED
    BY <2>1, <2>2, <2>3, <2>4
<1>7. ASSUME NEW sync \in BOOLEAN, NEW requested \in 0 .. MaxSize + 1,
             SetEffectiveWindow(sync, requested)
      PROVE  Inv'
  <2> DEFINE window == IF requested > MaxSize THEN MaxSize ELSE requested
  <2>1. window \in 0 .. MaxSize
    OBVIOUS
  <2>2. /\ windowSize' = window /\ syncMode' = sync
        /\ UNCHANGED <<buf, writePos, totalSize, writer, left, written>>
    BY <1>7 DEF SetEffectiveWindow, call
  <2>3. /\ RingHoldsStream' /\ readPos' \in Index /\ count' \in 0 .. MaxSize
        /\ count' <= count /\ (~sync => count' <= window) /\ (sync => count' = count)
    <3>1. CASE ~sync /\ count > window
      <4>1. /\ readPos' = Ahead(readPos, count - window)
            /\ count' = count - (count - window) /\ count - window \in 0 .. count
        BY <1>7, <3>1, <2>1 DEF SetEffectiveWindow
      <4>2. RingHoldsStream' /\ readPos' \in Index /\ count' \in 0 .. MaxSize
        BY <4>1, <2>2, DropKeepsRing
      <4> QED
        BY <4>1, <4>2, <3>1, <2>1
    <3>2. CASE ~(~sync /\ count > window)
      <4>1. readPos' = readPos /\ count' = count
        BY <1>7, <3>2 DEF SetEffectiveWindow
      <4> QED
        BY <4>1, <3>2, <2>1, <2>2 DEF RingHoldsStream, HeadPos
    <3> QED
      BY <3>1, <3>2
  <2>4. waiterChan' \in BOOLEAN
        /\ (waiterChan' => waiterChan /\ ~(syncMode /\ (window > windowSize \/ ~sync)))
    BY <1>7 DEF SetEffectiveWindow, tryWakeWriter
  <2>5. waiterChan' => sync /\ count' >= window
    BY <2>1, <2>3, <2>4
  <2> QED
    BY <2>1, <2>2, <2>3, <2>4, <2>5
<1>8. ASSUME NEW offset \in 0 .. MaxSize, NEW len \in 0 .. MaxData, PeekDataAt(offset, len)
      PROVE  Inv'
  BY <1>8 DEF PeekDataAt, ring, mode, call, RingHoldsStream, HeadPos
<1>9. CASE UNCHANGED vars
  BY <1>9 DEF vars, ring, mode, call, RingHoldsStream, HeadPos
<1> QED
  BY <1>1, <1>2, <1>3, <1>4, <1>5, <1>6, <1>7, <1>8, <1>9 DEF Next

THEOREM InvHolds == Spec => []Inv
<1> QED
  BY InitInv, StepInv, PTL DEF Spec

\* For every capacity and every schedule of writes, consumes and window
\* changes, the ring holds the last bytes of the stream in order.
THEOREM RingCorrect == Spec => []RingHoldsStream
<1>1. Inv => RingHoldsStream
  BY DEF Inv
<1> QED
  BY <1>1, InvHolds, PTL

\* The writer is never left waiting beside free space, and its panic on a
\* second waiter is unreachable.
THEOREM WriterWoken == Spec => [](NoLostWakeup /\ NeverTwoWaiters)
<1>1. Inv => NoLostWakeup /\ NeverTwoWaiters
  BY DEF Inv
<1> QED
  BY <1>1, InvHolds, PTL

-----------------------------------------------------------------------------
(* The ring implements the abstract buffer.                                *)

\* What PeekDataAt copies are consecutive bytes of the stream.
LEMMA PeekReadsStream ==
  ASSUME Inv, NEW offset \in 0 .. MaxSize, NEW len \in 0 .. MaxData, PeekDataAt(offset, len)
  PROVE  Abstract!Peek
<1> USE SizeAssumption
<1> DEFINE n == IF offset >= count THEN 0
                ELSE IF len < count - offset THEN len ELSE count - offset
           first == IF offset >= count THEN HeadPos ELSE HeadPos + offset
<1>1. count \in 0 .. MaxSize /\ totalSize \in Nat /\ count <= totalSize
  BY DEF Inv, TypeOK
<1>2. first \in HeadPos .. totalSize /\ n \in 0 .. (totalSize - first)
  BY <1>1 DEF HeadPos
<1>3. ASSUME NEW i \in 1 .. n
      PROVE  ByteAt(offset + i - 1) = first + i - 1
  <2>1. offset + i - 1 \in 0 .. count - 1 /\ first = HeadPos + offset
    BY <1>1
  <2> QED
    BY <2>1, <1>1 DEF Inv, RingHoldsStream, ByteAt, HeadPos
<1>4. out' = [i \in 1 .. n |-> ByteAt(offset + i - 1)]
      /\ UNCHANGED <<ring, mode, waiterChan>>
  BY DEF PeekDataAt
<1>5. out' = [i \in 1 .. n |-> first + i - 1]
  BY <1>3, <1>4
<1>6. UNCHANGED <<HeadPos, totalSize, syncMode, windowSize, waiterChan>>
  BY <1>4 DEF ring, mode, HeadPos
<1> HIDE DEF n, first
<1> QED
  BY <1>2, <1>5, <1>6 DEF Abstract!Peek

LEMMA StepImplements == Inv /\ Inv' /\ [Next]_vars => [Abstract!Next]_(Abstract!abstractVars)
<1> SUFFICES ASSUME Inv, Inv', [Next]_vars
             PROVE  Abstract!Next \/ UNCHANGED Abstract!abstractVars
  OBVIOUS
<1> USE SizeAssumption
<1>0. /\ count \in 0 .. MaxSize /\ totalSize \in Nat /\ count <= totalSize
      /\ syncMode \in BOOLEAN /\ windowSize \in 0 .. MaxSize /\ waiterChan \in BOOLEAN
      /\ NoLostWakeup' /\ (waiterChan => writer = "blocked")
  BY DEF Inv, TypeOK, WaiterIsBlocked
<1>1. ASSUME NEW n \in 1 .. MaxData, WriteCall(n)
      PROVE  UNCHANGED Abstract!abstractVars
  BY <1>1 DEF WriteCall, ring, mode, HeadPos, Abstract!abstractVars
<1>2. CASE WriteByte
  <2>1. ~Abstract!Full
    BY <1>2, <1>0 DEF WriteByte, Blocking, Abstract!Full, Abstract!Held, HeadPos
  <2>2. HeadPos' = IF Abstract!Held < windowSize THEN HeadPos ELSE HeadPos + 1
    BY <1>2, <1>0 DEF WriteByte, StoreOrEvict, HeadPos, Abstract!Held
  <2> QED
    BY <1>2, <2>1, <2>2 DEF WriteByte, mode, Abstract!Write, Abstract!Next
<1>3. CASE WriteReturn
  BY <1>3 DEF WriteReturn, ring, mode, HeadPos, Abstract!abstractVars
<1>4. CASE WriteBlock
  <2>1. Abstract!Full /\ ~waiterChan
    BY <1>4, <1>0 DEF WriteBlock, Blocking, Abstract!Full, Abstract!Held, HeadPos
  <2> QED
    BY <1>4, <2>1 DEF WriteBlock, ring, mode, HeadPos, Abstract!Refuse, Abstract!Next
<1>5. CASE WriterResumes
  BY <1>5 DEF WriterResumes, ring, mode, HeadPos, Abstract!abstractVars
<1>6. ASSUME NEW n \in 0 .. MaxSize, Consume(n)
      PROVE  Abstract!Consume
  <2>1. HeadPos' \in HeadPos .. totalSize
    BY <1>6, <1>0 DEF Consume, HeadPos
  <2>2. waiterChan' = FALSE
    BY <1>6 DEF Consume, tryWakeWriter
  <2> QED
    BY <1>6, <2>1, <2>2 DEF Consume, mode, Abstract!Consume, Abstract!Release
<1>7. ASSUME NEW sync \in BOOLEAN, NEW requested \in 0 .. MaxSize + 1,
             SetEffectiveWindow(sync, requested)
      PROVE  Abstract!SetEffectiveWindow
  <2>1. syncMode' \in BOOLEAN /\ windowSize' \in 0 .. MaxSize
    BY <1>7 DEF SetEffectiveWindow
  <2>2. HeadPos' = IF ~syncMode' /\ Abstract!Held > windowSize'
                     THEN totalSize - windowSize' ELSE HeadPos
    BY <1>7, <1>0, <2>1 DEF SetEffectiveWindow, HeadPos, Abstract!Held
  <2>3. waiterChan' => waiterChan
    BY <1>7, <1>0 DEF SetEffectiveWindow, tryWakeWriter
  <2>4. waiterChan' => syncMode' /\ count' >= windowSize'
    BY <1>0 DEF NoLostWakeup, Blocking
  <2>5. count' = totalSize' - HeadPos'
    <3>1. count' \in Int /\ totalSize' \in Int
      BY DEF Inv, TypeOK
    <3>2. \A t, c \in Int : c = t - (t - c)
      OBVIOUS
    <3> QED
      BY <3>1, <3>2 DEF HeadPos
  <2>6. waiterChan' => waiterChan /\ syncMode' /\ totalSize' - HeadPos' >= windowSize'
    BY <2>3, <2>4, <2>5
  <2>7. Abstract!Release
    BY <2>6 DEF Abstract!Release, Abstract!Full, Abstract!Held
  <2> QED
    BY <1>7, <2>1, <2>2, <2>7 DEF SetEffectiveWindow, Abstract!SetEffectiveWindow
<1>8. ASSUME NEW offset \in 0 .. MaxSize, NEW len \in 0 .. MaxData, PeekDataAt(offset, len)
      PROVE  Abstract!Peek
  BY <1>8, PeekReadsStream
<1>9. CASE UNCHANGED vars
  BY <1>9 DEF vars, ring, mode, HeadPos, Abstract!abstractVars
<1> QED
  BY <1>1, <1>2, <1>3, <1>4, <1>5, <1>6, <1>7, <1>8, <1>9 DEF Next, Abstract!Next

\* The circular buffer implements the abstract one: its users may reason
\* about a stretch of the stream and forget the ring.
THEOREM CirBufImplements == Spec => ImplementsOutputBuffer
<1>1. Init => Abstract!Init
  BY SizeAssumption DEF Init, Abstract!Init, HeadPos
<1> QED
  BY <1>1, InvHolds, StepImplements, PTL DEF Spec, Abstract!Spec, ImplementsOutputBuffer
=============================================================================
