------------------------------- MODULE CirBuf -------------------------------
(***************************************************************************)
(* The circular byte buffer between the goroutine that reads a job's PTY   *)
(* and the goroutine that sends its output (pkg/jobmanager/cirbuf.go).      *)
(* Every method runs under cb.lock, so it is one step here, but for         *)
(* WriteAvailable, whose loop is one step per byte with the lock held.      *)
(* A byte is represented by its position in the stream.                     *)
(***************************************************************************)
EXTENDS Integers, Sequences

CONSTANTS
  MaxSize,      \* len(cb.buf)
  MaxData,      \* largest slice a caller writes or peeks
  MaxTotal      \* bound: bytes written in a behaviour

ASSUME SizeAssumption ==
  /\ MaxSize \in Nat \ {0}
  /\ MaxData \in Nat \ {0}
  /\ MaxTotal \in Nat

VARIABLES
  buf, readPos, writePos, count, totalSize, syncMode, windowSize,
  waiterChan,   \* the one-slot channel holds a channel to close
  writer,       \* where the only writing goroutine is
  left,         \* bytes of its slice that WriteAvailable has not looked at
  written,      \* bytes the running WriteAvailable has stored
  out           \* what the last PeekDataAt copied

ring  == <<buf, readPos, writePos, count, totalSize>>
mode  == <<syncMode, windowSize>>
call  == <<writer, left, written>>
vars  == <<ring, mode, waiterChan, call, out>>

Index == 0 .. MaxSize - 1
Empty == -1                     \* a slot that was never written

\* The index n slots on from index pos, around the ring.
AheadPastTheEnd(pos, n) ==                                        \* mutation
  IF pos + n > MaxSize THEN pos + n - MaxSize ELSE pos + n
Ahead(pos, n) == (pos + n) % MaxSize

ByteFromZero(k) == buf[Ahead(0, k)]                               \* mutation
ByteAt(k) == buf[Ahead(readPos, k)]     \* the k-th byte held

Init ==
  /\ buf = [i \in Index |-> Empty]
  /\ readPos = 0 /\ writePos = 0 /\ count = 0 /\ totalSize = 0
  /\ syncMode \in BOOLEAN
  /\ windowSize = MaxSize
  /\ waiterChan = FALSE
  /\ writer = "idle" /\ left = 0 /\ written = 0
  /\ out = <<>>

LockFree == writer # "locked"
Blocking == syncMode /\ count >= windowSize

\* Close the waiting channel if there is one.
tryWakeNobody == UNCHANGED waiterChan                             \* mutation
tryWakeWriter == waiterChan' = FALSE

-----------------------------------------------------------------------------
(* WriteAvailable(data), and the caller's wait on the channel it returns.  *)

WriteCall(n) ==
  /\ writer = "idle"
  /\ totalSize + n <= MaxTotal
  /\ writer' = "locked" /\ left' = n /\ written' = 0
  /\ UNCHANGED <<ring, mode, waiterChan, out>>

StoreWithoutEvicting ==                                           \* mutation
  IF count < windowSize THEN count' = count + 1 /\ UNCHANGED readPos
                        ELSE UNCHANGED <<count, readPos>>

\* One byte more is held, or the oldest one makes place for it.
StoreOrEvict ==
  IF count < windowSize THEN count' = count + 1 /\ UNCHANGED readPos
                        ELSE readPos' = Ahead(readPos, 1) /\ UNCHANGED count

WriteByte ==
  /\ writer = "locked" /\ left > 0 /\ ~Blocking
  /\ buf' = [buf EXCEPT ![writePos] = totalSize]
  /\ writePos' = Ahead(writePos, 1)
  /\ StoreOrEvict
  /\ totalSize' = totalSize + 1
  /\ left' = left - 1 /\ written' = written + 1
  /\ UNCHANGED <<mode, waiterChan, writer, out>>

\* Everything stored, or the window filled up part way.
WriteReturn ==
  /\ writer = "locked"
  /\ left = 0 \/ (Blocking /\ written > 0)
  /\ writer' = "idle" /\ left' = 0 /\ written' = 0
  /\ UNCHANGED <<ring, mode, waiterChan, out>>

\* Nothing stored: leave a channel to be woken by; a second one panics.
WriteBlock ==
  /\ writer = "locked" /\ left > 0 /\ Blocking /\ written = 0
  /\ writer' = IF waiterChan THEN "panic" ELSE "blocked"
  /\ waiterChan' = TRUE
  /\ left' = 0
  /\ UNCHANGED <<ring, mode, written, out>>

ChannelClosedAnyway == TRUE                                       \* mutation
ChannelClosed == ~waiterChan

\* The writer's receive from the channel returns once the channel is closed.
WriterResumes ==
  /\ writer = "blocked" /\ ChannelClosed
  /\ writer' = "idle"
  /\ UNCHANGED <<ring, mode, waiterChan, left, written, out>>

-----------------------------------------------------------------------------

Consume(numBytes) ==
  /\ LockFree
  /\ numBytes <= count
  /\ readPos' = Ahead(readPos, numBytes)
  /\ count' = count - numBytes
  /\ tryWakeWriter
  /\ UNCHANGED <<buf, writePos, totalSize, mode, call, out>>

SetEffectiveWindow(sync, requested) ==
  LET window == IF requested > MaxSize THEN MaxSize ELSE requested IN
  /\ LockFree
  /\ windowSize' = window
  /\ syncMode' = sync
  /\ IF ~sync /\ count > window
       THEN readPos' = Ahead(readPos, count - window) /\ count' = window
       ELSE UNCHANGED <<readPos, count>>
  /\ IF syncMode /\ (window > windowSize \/ ~sync)
       THEN tryWakeWriter ELSE UNCHANGED waiterChan
  /\ UNCHANGED <<buf, writePos, totalSize, call, out>>

PeekDataAt(offset, len) ==
  LET n == IF offset >= count THEN 0
           ELSE IF len < count - offset THEN len ELSE count - offset
  IN /\ LockFree
     /\ out' = [i \in 1 .. n |-> ByteAt(offset + i - 1)]
     /\ UNCHANGED <<ring, mode, waiterChan, call>>

HeadPos == totalSize - count

Next ==
  \/ \E n \in 1 .. MaxData : WriteCall(n)
  \/ WriteByte \/ WriteReturn \/ WriteBlock \/ WriterResumes
  \/ \E n \in 0 .. MaxSize : Consume(n)
  \/ \E sync \in BOOLEAN, window \in 0 .. MaxSize + 1 : SetEffectiveWindow(sync, window)
  \/ \E offset \in 0 .. MaxSize, len \in 0 .. MaxData : PeekDataAt(offset, len)

\* The writer goroutine runs: a call that holds the lock finishes, and a
\* goroutine whose channel is closed is scheduled.
Fairness == WF_vars(WriteByte) /\ WF_vars(WriteReturn) /\ WF_vars(WriteBlock) /\ WF_vars(WriterResumes)

Spec == Init /\ [][Next]_vars
FairSpec == Spec /\ Fairness

-----------------------------------------------------------------------------
(* Properties                                                              *)

\* Type correctness: the fields of CirBuf and of the writing goroutine.
TypeOK ==
  /\ buf \in [Index -> Nat \cup {Empty}]
  /\ readPos \in Index /\ writePos \in Index
  /\ count \in 0 .. MaxSize /\ totalSize \in Nat /\ count <= totalSize
  /\ syncMode \in BOOLEAN /\ windowSize \in 0 .. MaxSize
  /\ waiterChan \in BOOLEAN
  /\ writer \in {"idle", "locked", "blocked", "panic"}
  /\ left \in Nat /\ written \in Nat

\* However writes, consumes, truncations and wrap-arounds are mixed, the count
\* slots from readPos hold the last count bytes of the stream, in order, and
\* the next byte goes right after them (WriteAvailable, Consume,
\* SetEffectiveWindow keep readPos, writePos and count consistent).
RingHoldsStream ==
  /\ writePos = Ahead(readPos, count)
  /\ \A k \in 0 .. count - 1 : buf[Ahead(readPos, k)] = HeadPos + k

\* A channel is only left in waiterChan while the writer really cannot write:
\* whichever of Consume and SetEffectiveWindow makes room also wakes it, so
\* no wakeup is lost and the PTY reader never sleeps beside free space.
NoLostWakeup == waiterChan => Blocking

\* WriteAvailable's panic on "multiple concurrent blocked writes" is
\* unreachable for the one goroutine that writes.
NeverTwoWaiters == writer # "panic"

\* The parts that make these inductive: in asynchronous mode no more than the
\* window is held, and only a blocked writer has left a channel.
AsyncWithinWindow == ~syncMode => count <= windowSize
WaiterIsBlocked == waiterChan => writer = "blocked"
Inv ==
  /\ TypeOK /\ RingHoldsStream /\ AsyncWithinWindow
  /\ NoLostWakeup /\ WaiterIsBlocked /\ NeverTwoWaiters

\* A writer that waits beside free space is running again soon after, or the
\* window closed again in the meantime.
BlockedWriterReleased == (writer = "blocked" /\ ~Blocking) ~> (writer # "blocked")

\* CirBuf implements OutputBuffer: the ring, its positions and the byte-wise
\* loop are invisible, and what PeekDataAt copies out of the ring are the
\* bytes of the stream at those positions.
Abstract == INSTANCE OutputBuffer WITH
  head <- HeadPos, total <- totalSize, waiting <- waiterChan
ImplementsOutputBuffer == Abstract!Spec
=============================================================================
