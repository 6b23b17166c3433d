---------------------------- MODULE StreamManager ----------------------------
(***************************************************************************)
(* The job manager's output stream (pkg/jobmanager/streammanager.go).       *)
(* A goroutine reads the job's PTY into the circular buffer, another one    *)
(* sends the buffer's bytes to the connected client under ack based flow    *)
(* control, and the handlers of the RPC server connect, disconnect, ack     *)
(* and resize the window.                                                   *)
(*                                                                          *)
(* The buffer is the abstract one of OutputBuffer: bytes head .. total-1.   *)
(* It has its own lock, so a handler that holds sm.lock can be interleaved  *)
(* with the PTY goroutine between two buffer calls.  A handler whose result *)
(* depends on that has one step per buffer call, with `lock' naming it.     *)
(***************************************************************************)
EXTENDS Integers

CONSTANTS
  CwndSize,       \* CwndSize: most unacked bytes in flight
  CirBufSize,     \* CirBufSize: capacity of the buffer
  MaxPacketSize,  \* MaxPacketSize: most bytes in a packet, and in a PTY read
  Rwnds,          \* receive windows a client announces
  MaxTotal,       \* bound: bytes the job prints
  MaxConnects     \* bound: connections made, each with a new stream id

ASSUME StreamAssumption ==
  /\ CwndSize \in Nat \ {0} /\ CirBufSize \in Nat \ {0} /\ MaxPacketSize \in Nat \ {0}
  /\ Rwnds \subseteq Nat
  /\ MaxTotal \in Nat /\ MaxConnects \in Nat

VARIABLES
  \* sm.buf
  head, total, syncMode, windowSize, waiting,
  \* the fields of StreamManager
  streamId, connected, rwndSize, sentNotAcked, terminalEventSent,
  maxAckedSeq, maxAckedRwnd, terminalEvent, eofPos, terminalEventAcked, closed,
  \* sm.lock: "free" or the handler that holds it between two of its steps,
  \* and that handler's local variables
  lock, local,
  \* readLoop: where it is, bytes of the read not stored yet, the read's error
  reader, left, readErr,
  \* senderLoop: where it is, and the packet it is about to send
  sender, pkt,
  \* what went out, per stream id: the position after the last byte sent,
  \* whether the terminal packet was sent, and the sequence ClientConnected returned
  sentEnd, terminalOut, startSeq

buffer  == <<head, total, syncMode, windowSize, waiting>>
session == <<streamId, connected, rwndSize, sentNotAcked, terminalEventSent, maxAckedSeq, maxAckedRwnd>>
ending  == <<terminalEvent, eofPos, terminalEventAcked, closed>>
locking == <<lock, local>>
reading == <<reader, left, readErr>>
sending == <<sender, pkt>>
client  == <<sentEnd, terminalOut, startSeq>>
vars    == <<buffer, session, ending, locking, reading, sending, client>>

Streams == 1 .. MaxConnects
NoStream == 0
NoPacket == [id |-> NoStream, seq |-> 0, len |-> 0, kind |-> "none"]
NoLocal  == [id |-> NoStream, seq |-> 0, rwnd |-> 0, pos |-> 0]

Lesser(a, b) == IF a < b THEN a ELSE b
Greater(a, b) == IF a < b THEN b ELSE a
Count == total - head
EffectiveWindow(rwnd) == Lesser(rwnd, CwndSize)

Init ==
  /\ head = 0 /\ total = 0 /\ syncMode = TRUE /\ windowSize = CirBufSize /\ waiting = FALSE
  /\ streamId = NoStream /\ connected = FALSE /\ rwndSize = CwndSize
  /\ sentNotAcked = 0 /\ terminalEventSent = FALSE /\ maxAckedSeq = 0 /\ maxAckedRwnd = 0
  /\ terminalEvent = "none" /\ eofPos = -1 /\ terminalEventAcked = FALSE /\ closed = FALSE
  /\ lock = "free" /\ local = NoLocal
  /\ reader = "detached" /\ left = 0 /\ readErr = "none"
  /\ sender = "prepare" /\ pkt = NoPacket
  /\ sentEnd = [s \in Streams |-> 0] /\ terminalOut = {} /\ startSeq = [s \in Streams |-> 0]

-----------------------------------------------------------------------------
(* The buffer's methods and the condition variable.                        *)

\* cb.SetEffectiveWindow: asynchronous mode cuts the buffer down to the window,
\* and a writer is woken when the window grows or writing stops blocking.
SetEffectiveWindow(sync, requested) ==
  LET window == Lesser(requested, CirBufSize) IN
  /\ syncMode' = sync /\ windowSize' = window
  /\ head' = IF ~sync /\ Count > window THEN total - window ELSE head
  /\ waiting' = (waiting /\ ~(syncMode /\ (window > windowSize \/ ~sync)))
  /\ UNCHANGED total

\* cb.Consume wakes the writer.
ConsumeWithoutWake(pos) ==                                          \* mutation
  head' = pos /\ UNCHANGED <<total, syncMode, windowSize, waiting>>
ConsumeTo(pos) ==
  /\ head' = pos /\ waiting' = FALSE
  /\ UNCHANGED <<total, syncMode, windowSize>>

\* drainCond.Signal wakes senderLoop if it waits.
SignalNobody == UNCHANGED sending                                   \* mutation
Signal ==
  /\ sender' = IF sender = "wait" THEN "prepare" ELSE sender
  /\ UNCHANGED pkt

-----------------------------------------------------------------------------
(* readLoop                                                                *)

AttachReader ==
  /\ lock = "free" /\ reader = "detached"
  /\ reader' = "check"
  /\ UNCHANGED <<buffer, session, ending, locking, left, readErr, sending, client>>

ReadLoopCheck ==
  /\ lock = "free" /\ reader = "check"
  /\ reader' = IF closed THEN "done" ELSE "read"
  /\ UNCHANGED <<buffer, session, ending, locking, left, readErr, sending, client>>

\* The PTY delivers n bytes, an end of file or an error, or both.
ReadPty(n, err) ==
  /\ reader = "read"
  /\ n > 0 \/ err # "none"
  /\ total + n <= MaxTotal
  /\ left' = n /\ readErr' = err
  /\ reader' = IF n > 0 THEN "write" ELSE "terminal"
  /\ UNCHANGED <<buffer, session, ending, locking, sending, client>>

AcceptedAlways(n) == n                                              \* mutation
\* How many of n bytes WriteAvailable stores: synchronous mode stops at the window.
Accepted(n) == IF ~syncMode THEN n
               ELSE IF Count >= windowSize THEN 0 ELSE Lesser(n, windowSize - Count)

\* cb.WriteAvailable: the asynchronous mode evicts what exceeds the window.
HeadDroppedToWindow(n) == total + n - windowSize                    \* mutation
HeadAfterWrite(n) == Greater(head, total + n - windowSize)

ReadLoopWrites ==
  /\ reader = "write" /\ Accepted(left) > 0
  /\ total' = total + Accepted(left)
  /\ head' = HeadAfterWrite(Accepted(left))
  /\ left' = left - Accepted(left)
  /\ reader' = "signal"
  /\ UNCHANGED <<syncMode, windowSize, waiting, session, ending, locking, readErr, sending, client>>

ReadLoopBlocks ==
  /\ reader = "write" /\ Accepted(left) = 0
  /\ waiting' = TRUE /\ reader' = "blocked"
  /\ UNCHANGED <<head, total, syncMode, windowSize, session, ending, locking, left, readErr, sending, client>>

ReadLoopResumes ==
  /\ reader = "blocked" /\ ~waiting
  /\ reader' = "write"
  /\ UNCHANGED <<buffer, session, ending, locking, left, readErr, sending, client>>

ReadLoopSignals ==
  /\ lock = "free" /\ reader = "signal"
  /\ Signal
  /\ reader' = IF left > 0 THEN "write" ELSE IF readErr = "none" THEN "check" ELSE "terminal"
  /\ UNCHANGED <<buffer, session, ending, locking, left, readErr, client>>

\* handleEOF and handleError
HandleTerminal ==
  /\ lock = "free" /\ reader = "terminal"
  /\ eofPos' = total /\ terminalEvent' = readErr
  /\ Signal
  /\ reader' = "done"
  /\ UNCHANGED <<buffer, session, terminalEventAcked, closed, locking, left, readErr, client>>
-----------------------------------------------------------------------------
(* senderLoop, one round of prepareNextPacket at a time                    *)

\* sm.lock is taken and the buffer's size is read.
SenderLooks ==
  /\ lock = "free" /\ sender = "prepare"
  /\ lock' = "sender" /\ local' = [NoLocal EXCEPT !.pos = Count]
  /\ sender' = "decide"
  /\ UNCHANGED <<buffer, session, ending, reading, pkt, client>>

available == local.pos
Finished == closed \/ terminalEventAcked
TerminalDueWhenAllSent ==                                           \* mutation
  available <= sentNotAcked /\ terminalEvent # "none" /\ ~terminalEventSent
TerminalDue == available = 0 /\ terminalEvent # "none" /\ ~terminalEventSent

\* The bytes PeekDataAt finds behind those in flight, capped by the window, the
\* packet size and the size read above.
Peeked ==
  LET toSend == EffectiveWindow(rwndSize) - sentNotAcked IN
  IF available = 0 \/ toSend <= 0 THEN 0
  ELSE Greater(0, Lesser(Lesser(toSend, Lesser(MaxPacketSize, available)), Count - sentNotAcked))

SeqFromMaxAcked == maxAckedSeq + sentNotAcked                       \* mutation
NextSeq == head + sentNotAcked

Prepared(to) ==
  /\ lock = "sender" /\ sender = "decide"
  /\ lock' = "free" /\ local' = NoLocal
  /\ sender' = to
  /\ UNCHANGED <<buffer, streamId, connected, rwndSize, maxAckedSeq, maxAckedRwnd, ending, reading, client>>

SenderStops ==
  /\ Finished
  /\ Prepared("done")
  /\ UNCHANGED <<sentNotAcked, terminalEventSent, pkt>>

SenderWaits ==
  /\ ~Finished
  /\ ~connected \/ (~TerminalDue /\ Peeked = 0)
  /\ Prepared("wait")
  /\ UNCHANGED <<sentNotAcked, terminalEventSent, pkt>>

SenderTakesTerminal ==
  /\ ~Finished /\ connected /\ TerminalDue
  /\ Prepared("send")
  /\ pkt' = [id |-> streamId, seq |-> eofPos, len |-> 0, kind |-> terminalEvent]
  /\ terminalEventSent' = TRUE
  /\ UNCHANGED sentNotAcked

SenderTakesData ==
  /\ ~Finished /\ connected /\ ~TerminalDue /\ Peeked > 0
  /\ Prepared("send")
  /\ pkt' = [id |-> streamId, seq |-> NextSeq, len |-> Peeked, kind |-> "data"]
  /\ sentNotAcked' = sentNotAcked + Peeked
  /\ UNCHANGED terminalEventSent

\* sender.SendData(*pkt), with no lock held: the client may be gone by now.
SendData ==
  /\ sender = "send"
  /\ sentEnd' = [sentEnd EXCEPT ![pkt.id] = pkt.seq + pkt.len]
  /\ terminalOut' = IF pkt.kind = "data" THEN terminalOut ELSE terminalOut \cup {pkt.id}
  /\ sender' = "prepare" /\ pkt' = NoPacket
  /\ UNCHANGED <<buffer, session, ending, locking, reading, startSeq>>

-----------------------------------------------------------------------------
(* ClientConnected: four buffer calls under sm.lock                        *)

\* The early returns, then buf.HeadPos().
ConnectReadsHead(id, rwnd, clientSeq) ==
  /\ lock = "free"
  /\ ~closed /\ ~terminalEventAcked /\ ~connected
  /\ lock' = IF clientSeq > head THEN "connect.consume" ELSE "connect.finish"
  /\ local' = [id |-> id, rwnd |-> rwnd, seq |-> clientSeq, pos |-> head]
  /\ UNCHANGED <<buffer, session, ending, reading, sending, client>>

\* The bytes the client already has are consumed, or the connect is refused.
ConnectConsumes ==
  LET bytesToConsume == local.seq - local.pos IN
  /\ lock = "connect.consume"
  /\ IF bytesToConsume > Count
       THEN lock' = "free" /\ local' = NoLocal /\ UNCHANGED buffer
       ELSE lock' = "connect.reread" /\ UNCHANGED local /\ ConsumeTo(head + bytesToConsume)
  /\ UNCHANGED <<session, ending, reading, sending, client>>

ConnectRereadsHead ==
  /\ lock = "connect.reread"
  /\ lock' = "connect.finish" /\ local' = [local EXCEPT !.pos = head]
  /\ UNCHANGED <<buffer, session, ending, reading, sending, client>>

\* The session starts.  startSeq is what the client is told; sentEnd is where
\* this stream's bytes really start.
ConnectFinishes ==
  /\ lock = "connect.finish"
  /\ lock' = "free" /\ local' = NoLocal
  /\ streamId' = local.id /\ connected' = TRUE /\ rwndSize' = local.rwnd /\ sentNotAcked' = 0
  /\ SetEffectiveWindow(TRUE, EffectiveWindow(local.rwnd))
  /\ Signal
  /\ startSeq' = [startSeq EXCEPT ![local.id] = Greater(local.pos, local.seq)]
  /\ sentEnd' = [sentEnd EXCEPT ![local.id] = head]
  /\ UNCHANGED <<terminalEventSent, maxAckedSeq, maxAckedRwnd, ending, reading, terminalOut>>

ClientDisconnected ==
  /\ lock = "free" /\ connected
  /\ connected' = FALSE /\ sentNotAcked' = 0 /\ maxAckedSeq' = 0 /\ maxAckedRwnd' = 0
  /\ terminalEventSent' = (terminalEventSent /\ terminalEventAcked)
  /\ SetEffectiveWindow(FALSE, CirBufSize)
  /\ Signal
  /\ UNCHANGED <<streamId, rwndSize, ending, locking, reading, client>>

-----------------------------------------------------------------------------
(* RecvAck, SetRwndSize, Close                                             *)

Acks == [id : Streams, seq : 0 .. MaxTotal, rwnd : Rwnds, fin : BOOLEAN]
Stale(ack) == ack.seq < maxAckedSeq \/ (ack.seq = maxAckedSeq /\ ack.rwnd <= maxAckedRwnd)
AcceptableBelowHead(ack) == ack.seq - head <= sentNotAcked          \* mutation
Acceptable(ack) == head <= ack.seq /\ ack.seq - head <= sentNotAcked

RecvFinAck(ack) ==
  /\ lock = "free" /\ connected /\ ack.id = streamId /\ ack.fin
  /\ terminalEventAcked' = TRUE
  /\ Signal
  /\ UNCHANGED <<buffer, session, terminalEvent, eofPos, closed, locking, reading, client>>

\* An ack below the head or beyond what is in flight only moves the maximum.
RecvBadAck(ack) ==
  /\ lock = "free" /\ connected /\ ack.id = streamId /\ ~ack.fin
  /\ ~Stale(ack) /\ ~Acceptable(ack)
  /\ maxAckedSeq' = ack.seq /\ maxAckedRwnd' = ack.rwnd
  /\ UNCHANGED <<buffer, streamId, connected, rwndSize, sentNotAcked, terminalEventSent,
                 ending, locking, reading, sending, client>>

\* The acked bytes are consumed, which may let the PTY goroutine write ...
RecvAck(ack) ==
  /\ lock = "free" /\ connected /\ ack.id = streamId /\ ~ack.fin
  /\ ~Stale(ack) /\ Acceptable(ack)
  /\ maxAckedSeq' = ack.seq /\ maxAckedRwnd' = ack.rwnd
  /\ IF ack.seq > head THEN ConsumeTo(ack.seq) ELSE UNCHANGED buffer
  /\ sentNotAcked' = sentNotAcked - (ack.seq - head)
  /\ lock' = "ack" /\ local' = [NoLocal EXCEPT !.rwnd = ack.rwnd, !.pos = ack.seq - head]
  /\ UNCHANGED <<streamId, connected, rwndSize, terminalEventSent, ending, reading, sending, client>>

\* ... before the window follows the client's.
AckMovesWindow ==
  /\ lock = "ack"
  /\ lock' = "free" /\ local' = NoLocal
  /\ rwndSize' = local.rwnd
  /\ SetEffectiveWindow(TRUE, EffectiveWindow(local.rwnd))
  /\ IF local.rwnd > rwndSize \/ local.pos > 0 THEN Signal ELSE UNCHANGED sending
  /\ UNCHANGED <<streamId, connected, sentNotAcked, terminalEventSent, maxAckedSeq, maxAckedRwnd,
                 ending, reading, client>>

SetRwndSize(rwnd) ==
  /\ lock = "free" /\ connected
  /\ rwndSize' = rwnd
  /\ SetEffectiveWindow(TRUE, EffectiveWindow(rwnd))
  /\ Signal
  /\ UNCHANGED <<streamId, connected, sentNotAcked, terminalEventSent, maxAckedSeq, maxAckedRwnd,
                 ending, locking, reading, client>>

Close ==
  /\ lock = "free" /\ ~closed
  /\ closed' = TRUE
  /\ Signal
  /\ UNCHANGED <<buffer, session, terminalEvent, eofPos, terminalEventAcked, locking, reading, client>>
-----------------------------------------------------------------------------

ReadLoop ==
  \/ AttachReader \/ ReadLoopCheck \/ ReadLoopWrites \/ ReadLoopBlocks
  \/ ReadLoopResumes \/ ReadLoopSignals \/ HandleTerminal
SenderLoop ==
  \/ SenderLooks \/ SenderStops \/ SenderWaits \/ SenderTakesTerminal \/ SenderTakesData
Handlers == ConnectConsumes \/ ConnectRereadsHead \/ ConnectFinishes \/ AckMovesWindow

\* The job prints, fails or ends.
Pty == \E n \in 0 .. MaxPacketSize, err \in {"none", "eof", "error"} : ReadPty(n, err)

\* The job manager's server side.  A client connects with a new stream id and the
\* sequence it wants to resume at, and acks no more than it can have received.
Connect == \E rwnd \in Rwnds, seq \in 0 .. MaxTotal :
  /\ streamId + 1 \in Streams /\ seq <= total + 1
  /\ ConnectReadsHead(streamId + 1, rwnd, seq)
Ack == \E ack \in Acks :
  /\ ack.id = streamId /\ ack.seq <= sentEnd[ack.id] /\ (ack.fin => ack.id \in terminalOut)
  /\ RecvFinAck(ack) \/ RecvBadAck(ack) \/ RecvAck(ack)

Next ==
  \/ ReadLoop \/ Pty \/ SenderLoop \/ SendData \/ Handlers
  \/ Connect \/ ClientDisconnected \/ Ack
  \/ \E rwnd \in Rwnds : SetRwndSize(rwnd)
  \/ Close

Spec == Init /\ [][Next]_vars

-----------------------------------------------------------------------------
(* Properties                                                              *)

Packets == [id : Streams \cup {NoStream}, seq : Nat, len : 0 .. MaxPacketSize,
            kind : {"none", "data", "eof", "error"}]

\* Type correctness: the buffer, the session and the three goroutines.
TypeOK ==
  /\ head \in Nat /\ total \in Nat /\ head <= total
  /\ syncMode \in BOOLEAN /\ windowSize \in 0 .. CirBufSize /\ waiting \in BOOLEAN
  /\ streamId \in Streams \cup {NoStream} /\ connected \in BOOLEAN
  /\ rwndSize \in Nat /\ sentNotAcked \in Nat /\ terminalEventSent \in BOOLEAN
  /\ maxAckedSeq \in Nat /\ maxAckedRwnd \in Nat
  /\ terminalEvent \in {"none", "eof", "error"} /\ eofPos \in Nat \cup {-1}
  /\ terminalEventAcked \in BOOLEAN /\ closed \in BOOLEAN
  /\ lock \in {"free", "sender", "connect.consume", "connect.reread", "connect.finish", "ack"}
  /\ local \in [id : Streams \cup {NoStream}, seq : Nat, rwnd : Nat, pos : Nat]
  /\ reader \in {"detached", "check", "read", "write", "signal", "blocked", "terminal", "done"}
  /\ left \in 0 .. MaxPacketSize /\ readErr \in {"none", "eof", "error"}
  /\ sender \in {"prepare", "decide", "wait", "send", "done"} /\ pkt \in Packets
  /\ sentEnd \in [Streams -> Nat] /\ terminalOut \subseteq Streams
  /\ startSeq \in [Streams -> Nat]

\* The packets of a stream follow one another without a gap or a repeat, whatever
\* is acked, resized, disconnected or reconnected between prepareNextPacket and
\* SendData; the terminal packet comes at the very end of them.
SendsInOrder == sender = "send" => pkt.seq = sentEnd[pkt.id]

\* The bytes in flight are counted right: the next byte to send is the one after
\* the last byte sent or prepared on this stream, and all of them are still held.
InFlightIsHeld ==
  connected =>
    /\ head + sentNotAcked =
         sentEnd[streamId] + (IF sender = "send" /\ pkt.id = streamId THEN pkt.len ELSE 0)
    /\ head + sentNotAcked <= total

\* No lost wakeup: senderLoop does not sleep on drainCond beside work it could do,
\* unless the PTY goroutine is about to signal it.
CanSend ==
  \/ Finished
  \/ connected /\ Count = 0 /\ terminalEvent # "none" /\ ~terminalEventSent
  \/ connected /\ Count > sentNotAcked /\ EffectiveWindow(rwndSize) > sentNotAcked
SenderSleepsOnlyIdle == sender = "wait" /\ lock = "free" /\ reader # "signal" => ~CanSend

\* The PTY goroutine and senderLoop never both wait while no ack is owed: then
\* the client has closed its window and it is the client that must move.
NoFlowControlDeadlock ==
  connected /\ ~Finished /\ lock = "free" /\ reader = "blocked" /\ waiting /\ sender = "wait"
    => sentNotAcked > 0 \/ rwndSize = 0

\* An acknowledged end means every byte the job printed was acknowledged first.
EndAckedLast ==
  /\ terminalOut # {} => terminalEvent # "none" /\ head = total /\ eofPos = total
  /\ terminalEventAcked => terminalOut # {}

\* What makes these inductive.  The buffer never exceeds its capacity; while a
\* client is connected it is synchronous and its window is the session's.
BufferBounded == Count <= CirBufSize
SessionWindow ==
  connected => streamId \in Streams /\ syncMode
               /\ windowSize = Lesser(EffectiveWindow(rwndSize), CirBufSize)

\* The PTY goroutine writes something, only waits at a full window, and is done
\* once the end of the output is recorded.
ReaderPlace ==
  /\ reader \in {"write", "blocked"} => left > 0
  /\ reader = "terminal" => readErr # "none"
  /\ waiting => reader = "blocked" /\ syncMode /\ Count >= windowSize
  /\ terminalEvent # "none" => reader = "done" /\ eofPos = total

\* Who holds sm.lock, and what its local variables still say of the state.
LockPlace ==
  /\ lock = "sender" <=> sender = "decide"
  /\ lock = "sender" /\ reader # "signal" => local.pos = Count
  /\ lock = "ack" => connected
  /\ lock = "connect.consume" => local.pos < local.seq
  /\ lock \in {"connect.consume", "connect.reread", "connect.finish"} =>
       ~connected /\ ~Finished /\ local.id = streamId + 1 /\ local.id \in Streams

\* A prepared packet belongs to this stream or an older one.
PacketPlace ==
  sender = "send" =>
    /\ pkt.id \in Streams /\ pkt.id <= streamId
    /\ pkt.kind # "data" => terminalEvent # "none" /\ head = total

\* SenderSleepsOnlyIdle, whoever holds the lock.
SenderIdle ==
  sender = "wait" /\ reader # "signal" /\ (lock = "ack" => local.pos = 0) => ~CanSend

Inv ==
  /\ TypeOK /\ BufferBounded /\ SessionWindow /\ ReaderPlace /\ LockPlace /\ PacketPlace
  /\ SenderIdle /\ SendsInOrder /\ InFlightIsHeld /\ EndAckedLast

\* While a client is connected no output is evicted: a byte leaves the buffer only
\* when the client acknowledges it.
ConnectedOutputIsKept ==
  [][connected /\ head' # head => head' = maxAckedSeq' /\ head' <= sentEnd[streamId]]_vars

\* What ClientConnected returns is where the stream's first packet starts, so a
\* client that expects that sequence can read on from there.
StartSeqIsFirstByte ==
  [][lock = "connect.finish" /\ lock' = "free"
       => startSeq'[local.id] = sentEnd'[local.id]]_vars
=============================================================================
