------------------------ MODULE StreamManagerProofs ------------------------
(***************************************************************************)
(* Proofs about StreamManager for every window, buffer and packet size.    *)
(* Inv is inductive; the properties the runs check follow from it.          *)
(***************************************************************************)
EXTENDS StreamManager, TLAPS

\* What SetEffectiveWindow leaves of the buffer, in both modes.
LEMMA WindowSet ==
  ASSUME TypeOK, NEW sync \in BOOLEAN, NEW requested \in Nat, SetEffectiveWindow(sync, requested)
  PROVE  /\ total' = total /\ total' \in Nat /\ head' \in Nat /\ head' <= total'
         /\ syncMode' = sync /\ windowSize' = Lesser(requested, CirBufSize)
         /\ windowSize' \in 0 .. CirBufSize
         /\ sync => head' = head
         /\ head <= head'
         /\ ~sync /\ Count <= requested /\ Count <= CirBufSize => head' = head
         /\ waiting' \in BOOLEAN
         /\ waiting' => waiting /\ (syncMode => sync /\ windowSize' <= windowSize)
<1>1. CirBufSize \in Nat  BY StreamAssumption
<1>2. Lesser(requested, CirBufSize) \in 0 .. CirBufSize
  BY <1>1 DEF Lesser
<1>3. /\ total' = total /\ total' \in Nat /\ syncMode' = sync
      /\ windowSize' = Lesser(requested, CirBufSize) /\ windowSize' \in 0 .. CirBufSize
  BY <1>2 DEF SetEffectiveWindow, TypeOK
<1>4. head' \in Nat /\ head <= head' /\ head' <= total /\ (sync => head' = head)
  BY <1>1, <1>2 DEF SetEffectiveWindow, TypeOK, Count
<1>5. ~sync /\ Count <= requested /\ Count <= CirBufSize => head' = head
  BY <1>1 DEF SetEffectiveWindow, TypeOK, Count, Lesser
<1>6. waiting' \in BOOLEAN
  BY ZenonT(30) DEF SetEffectiveWindow, TypeOK
<1>7. waiting' => waiting /\ ~(syncMode /\ (windowSize' > windowSize \/ ~sync))
  BY ZenonT(30) DEF SetEffectiveWindow
<1>8. windowSize' > windowSize \/ windowSize' <= windowSize
  BY <1>1, <1>3 DEF TypeOK
<1> QED  BY <1>3, <1>4, <1>5, <1>6, <1>7, <1>8

\* How much WriteAvailable stores: nothing only at a full window, and never so
\* much that the synchronous mode would drop a byte.
LEMMA WriteStores ==
  ASSUME TypeOK, BufferBounded, reader = "write", left > 0
  PROVE  /\ Accepted(left) \in 0 .. left
         /\ Accepted(left) = 0 => syncMode /\ Count >= windowSize
         /\ syncMode => HeadAfterWrite(Accepted(left)) = head \/ Accepted(left) = 0
         /\ HeadAfterWrite(Accepted(left)) \in head .. total + Accepted(left)
         /\ total + Accepted(left) - HeadAfterWrite(Accepted(left)) <= CirBufSize
<1>1. CirBufSize \in Nat /\ MaxPacketSize \in Nat  BY StreamAssumption
<1>2. Accepted(left) \in 0 .. left
  BY <1>1 DEF Accepted, TypeOK, Count, Lesser
<1>3. Accepted(left) = 0 => syncMode /\ Count >= windowSize
  BY <1>1 DEF Accepted, TypeOK, Count, Lesser
<1>4. syncMode => HeadAfterWrite(Accepted(left)) = head \/ Accepted(left) = 0
  BY <1>1 DEF Accepted, HeadAfterWrite, TypeOK, Count, Lesser, Greater
<1>5. HeadAfterWrite(Accepted(left)) \in head .. total + Accepted(left)
  BY <1>1, <1>2 DEF HeadAfterWrite, TypeOK, Greater
<1>6. total + Accepted(left) - HeadAfterWrite(Accepted(left)) <= CirBufSize
  BY <1>1, <1>2 DEF HeadAfterWrite, TypeOK, Greater
<1> QED  BY <1>2, <1>3, <1>4, <1>5, <1>6

\* What prepareNextPacket peeks is behind the bytes in flight and held; it is
\* nothing only if nothing can be sent.
LEMMA PeekedBounds ==
  ASSUME TypeOK
  PROVE  /\ Peeked \in 0 .. MaxPacketSize
         /\ Peeked > 0 => sentNotAcked + Peeked <= Count
         /\ Peeked = 0 /\ local.pos = Count => ~(Count > sentNotAcked /\ EffectiveWindow(rwndSize) > sentNotAcked)
<1>1. CwndSize \in Nat /\ MaxPacketSize \in Nat \ {0}  BY StreamAssumption
<1>2. EffectiveWindow(rwndSize) \in Nat  BY <1>1 DEF EffectiveWindow, Lesser, TypeOK
<1>3. local.pos \in Nat  BY DEF TypeOK
<1>4. Count \in Nat /\ sentNotAcked \in Nat  BY DEF TypeOK, Count
<1>5. Peeked \in 0 .. MaxPacketSize
  BY <1>1, <1>2, <1>3, <1>4 DEF Peeked, available, Lesser, Greater
<1>6. Peeked > 0 => sentNotAcked + Peeked <= Count
  BY <1>1, <1>2, <1>3, <1>4 DEF Peeked, available, Lesser, Greater
<1>7. Peeked = 0 /\ local.pos = Count => ~(Count > sentNotAcked /\ EffectiveWindow(rwndSize) > sentNotAcked)
  BY <1>1, <1>2, <1>3, <1>4 DEF Peeked, available, Lesser, Greater
<1> QED  BY <1>5, <1>6, <1>7

LEMMA InitInv == Init => Inv
<1> SUFFICES ASSUME Init PROVE Inv  OBVIOUS
<1>1. TypeOK
  <2>1. pkt \in Packets
    BY StreamAssumption DEF Init, NoPacket, Packets
  <2>2. local \in [id : Streams \cup {NoStream}, seq : Nat, rwnd : Nat, pos : Nat]
    BY DEF Init, NoLocal
  <2>3. sentEnd \in [Streams -> Nat] /\ startSeq \in [Streams -> Nat]
    BY DEF Init
  <2>4. syncMode \in BOOLEAN /\ waiting \in BOOLEAN /\ connected \in BOOLEAN /\ closed \in BOOLEAN
        /\ terminalEventSent \in BOOLEAN /\ terminalEventAcked \in BOOLEAN
    BY DEF Init
  <2> QED  BY <2>1, <2>2, <2>3, <2>4, StreamAssumption DEF Init, TypeOK
<1>2. BufferBounded /\ SessionWindow
  BY StreamAssumption DEF Init, BufferBounded, SessionWindow, Count
<1>3. ReaderPlace /\ LockPlace /\ PacketPlace /\ SendsInOrder
  BY DEF Init, ReaderPlace, LockPlace, PacketPlace, SendsInOrder
<1>4. SenderIdle /\ InFlightIsHeld /\ EndAckedLast
  BY DEF Init, SenderIdle, InFlightIsHeld, EndAckedLast
<1> QED  BY <1>1, <1>2, <1>3, <1>4 DEF Inv

\* Every step keeps the types.
LEMMA TypeStep == Inv /\ Next => TypeOK'
<1> SUFFICES ASSUME Inv, Next PROVE TypeOK'  OBVIOUS
<1> USE DEF buffer, session, ending, locking, reading, sending, client
<1>0. TypeOK /\ BufferBounded /\ SessionWindow /\ ReaderPlace /\ LockPlace /\ PacketPlace /\ InFlightIsHeld
  BY DEF Inv
<1>C. CwndSize \in Nat \ {0} /\ CirBufSize \in Nat \ {0} /\ MaxPacketSize \in Nat \ {0} /\ Rwnds \subseteq Nat
      /\ MaxTotal \in Nat
  BY StreamAssumption
<1>L. NoLocal \in [id : Streams \cup {NoStream}, seq : Nat, rwnd : Nat, pos : Nat]
  BY DEF NoLocal
<1>S. ASSUME Signal
      PROVE  sender' \in {"prepare", "decide", "wait", "send", "done"} /\ pkt' \in Packets
  BY <1>0, <1>S DEF Signal, TypeOK
<1>1. CASE AttachReader \/ ReadLoopCheck
  BY <1>0, <1>1 DEF AttachReader, ReadLoopCheck, TypeOK
<1>2. ASSUME NEW n \in 0 .. MaxPacketSize, NEW err \in {"none", "eof", "error"}, ReadPty(n, err)
      PROVE  TypeOK'
  BY <1>0, <1>2 DEF ReadPty, TypeOK
<1>3. CASE ReadLoopWrites
  <2>1. reader = "write" /\ left > 0  BY <1>0, <1>3 DEF ReadLoopWrites, ReaderPlace
  <2>2. /\ Accepted(left) \in 0 .. left
        /\ HeadAfterWrite(Accepted(left)) \in head .. total + Accepted(left)
    BY <2>1, <1>0, WriteStores
  <2>3. head' \in Nat /\ total' \in Nat /\ head' <= total' /\ left' \in 0 .. MaxPacketSize
    BY <2>2, <1>0, <1>3, <1>C DEF ReadLoopWrites, TypeOK
  <2> QED  BY <2>3, <1>0, <1>3 DEF ReadLoopWrites, TypeOK
<1>4. CASE ReadLoopBlocks \/ ReadLoopResumes
  <2>1. waiting' \in BOOLEAN  BY <1>0, <1>4 DEF ReadLoopBlocks, ReadLoopResumes, TypeOK
  <2>2. CASE ReadLoopBlocks
    BY <2>1, <2>2, <1>0 DEF ReadLoopBlocks, TypeOK
  <2>3. CASE ReadLoopResumes
    BY <2>1, <2>3, <1>0 DEF ReadLoopResumes, TypeOK
  <2> QED  BY <2>2, <2>3, <1>4
<1>5. CASE ReadLoopSignals
  BY <1>0, <1>5, <1>S DEF ReadLoopSignals, TypeOK
<1>6. CASE HandleTerminal
  BY <1>0, <1>6, <1>S DEF HandleTerminal, TypeOK
<1>7. CASE SenderLooks
  <2>1. local' \in [id : Streams \cup {NoStream}, seq : Nat, rwnd : Nat, pos : Nat]
    BY <1>0, <1>7, <1>L DEF SenderLooks, TypeOK, Count
  <2> QED  BY <2>1, <1>0, <1>7 DEF SenderLooks, TypeOK
<1>8. CASE SenderStops \/ SenderWaits
  BY <1>0, <1>8, <1>L DEF SenderStops, SenderWaits, Prepared, TypeOK
<1>9. CASE SenderTakesTerminal
  <2>1. eofPos \in Nat  BY <1>0, <1>9 DEF SenderTakesTerminal, TerminalDue, ReaderPlace, TypeOK
  <2>2. pkt' \in Packets
    BY <2>1, <1>0, <1>9, <1>C DEF SenderTakesTerminal, TypeOK, Packets
  <2> QED  BY <2>2, <1>0, <1>9, <1>L DEF SenderTakesTerminal, Prepared, TypeOK
<1>10. CASE SenderTakesData
  <2>1. Peeked \in 0 .. MaxPacketSize  BY <1>0, PeekedBounds
  <2>2. sentNotAcked' \in Nat
    BY <2>1, <1>0, <1>10, <1>C DEF SenderTakesData, TypeOK
  <2>3. pkt' \in Packets
    BY <2>1, <1>0, <1>10, <1>C DEF SenderTakesData, TypeOK, Packets, NextSeq
  <2> QED  BY <2>2, <2>3, <1>0, <1>10, <1>L DEF SenderTakesData, Prepared, TypeOK
<1>11. CASE SendData
  <2>1. pkt.seq \in Nat /\ pkt.len \in Nat /\ pkt.id \in Streams
    BY <1>0, <1>C, <1>11 DEF TypeOK, Packets, PacketPlace, SendData
  <2>2. sentEnd' \in [Streams -> Nat]
    BY <2>1, <1>0, <1>11 DEF SendData, TypeOK
  <2>3. terminalOut' \subseteq Streams
    BY <2>1, <1>0, <1>11 DEF SendData, TypeOK
  <2>4. pkt' \in Packets  BY <1>11, <1>C DEF SendData, NoPacket, Packets
  <2> QED  BY <2>2, <2>3, <2>4, <1>0, <1>11 DEF SendData, TypeOK
<1>12. ASSUME NEW id \in Streams, NEW rwnd \in Rwnds, NEW seq \in 0 .. MaxTotal,
              ConnectReadsHead(id, rwnd, seq)
       PROVE  TypeOK'
  <2>1. local' \in [id : Streams \cup {NoStream}, seq : Nat, rwnd : Nat, pos : Nat]
    BY <1>0, <1>12, <1>C, StreamAssumption DEF ConnectReadsHead, TypeOK
  <2> QED  BY <2>1, <1>0, <1>12 DEF ConnectReadsHead, TypeOK
<1>13. CASE ConnectConsumes
  <2>1. lock = "connect.consume"  BY <1>13 DEF ConnectConsumes
  <2>2. CASE local.seq - local.pos > Count
    BY <2>2, <1>13, <1>0, <1>L DEF ConnectConsumes, TypeOK
  <2>3. CASE ~(local.seq - local.pos > Count)
    <3>1. local.seq \in Nat /\ local.pos \in Nat /\ local.pos < local.seq
      BY <2>1, <1>0 DEF TypeOK, LockPlace
    <3>2. head' \in Nat /\ head' <= total
      BY <3>1, <2>3, <1>13, <1>0 DEF ConnectConsumes, ConsumeTo, TypeOK, Count
    <3>3. /\ waiting' = FALSE /\ UNCHANGED <<total, syncMode, windowSize>>
          /\ lock' = "connect.reread" /\ UNCHANGED local
      BY <2>3, <1>13, Zenon DEF ConnectConsumes, ConsumeTo
    <3>4. UNCHANGED <<session, ending, reading, sending, client>>  BY <1>13 DEF ConnectConsumes
    <3>5. waiting' \in BOOLEAN  BY <3>3
    <3> QED  BY <3>2, <3>3, <3>4, <3>5, <1>0 DEF TypeOK
  <2> QED  BY <2>2, <2>3
<1>14. CASE ConnectRereadsHead
  <2>1. local' \in [id : Streams \cup {NoStream}, seq : Nat, rwnd : Nat, pos : Nat]
    BY <1>0, <1>14 DEF ConnectRereadsHead, TypeOK
  <2> QED  BY <2>1, <1>0, <1>14 DEF ConnectRereadsHead, TypeOK
<1>15. CASE ConnectFinishes
  <2>1. local.id \in Streams /\ local.rwnd \in Nat /\ local.pos \in Nat /\ local.seq \in Nat
    BY <1>0, <1>15 DEF ConnectFinishes, TypeOK, LockPlace
  <2>2. EffectiveWindow(local.rwnd) \in Nat  BY <2>1, <1>C DEF EffectiveWindow, Lesser
  <2>3. SetEffectiveWindow(TRUE, EffectiveWindow(local.rwnd))  BY <1>15 DEF ConnectFinishes
  <2>4. /\ total' \in Nat /\ head' \in Nat /\ head' <= total' /\ syncMode' \in BOOLEAN
        /\ windowSize' \in 0 .. CirBufSize /\ waiting' \in BOOLEAN
    BY <2>2, <2>3, <1>0, WindowSet
  <2>5. startSeq' \in [Streams -> Nat] /\ sentEnd' \in [Streams -> Nat]
    BY <2>1, <1>0, <1>15 DEF ConnectFinishes, TypeOK, Greater
  <2>6. streamId' \in Streams /\ rwndSize' \in Nat
    BY <2>1, <1>15 DEF ConnectFinishes
  <2> QED  BY <2>4, <2>5, <2>6, <1>0, <1>15, <1>L, <1>S DEF ConnectFinishes, TypeOK
<1>16. CASE ClientDisconnected
  <2>1. SetEffectiveWindow(FALSE, CirBufSize)  BY <1>16 DEF ClientDisconnected
  <2>2. /\ total' \in Nat /\ head' \in Nat /\ head' <= total' /\ syncMode' \in BOOLEAN
        /\ windowSize' \in 0 .. CirBufSize /\ waiting' \in BOOLEAN
    BY <2>1, <1>0, <1>C, WindowSet
  <2>3. /\ terminalEventSent' \in BOOLEAN /\ connected' = FALSE
        /\ sentNotAcked' = 0 /\ maxAckedSeq' = 0 /\ maxAckedRwnd' = 0 /\ Signal
        /\ UNCHANGED <<streamId, rwndSize, ending, locking, reading, client>>
    BY <1>16, Zenon DEF ClientDisconnected
  <2>4. sender' \in {"prepare", "decide", "wait", "send", "done"} /\ pkt' \in Packets
    BY <2>3, <1>S
  <2>5. connected' \in BOOLEAN  BY <2>3
  <2>6. /\ UNCHANGED <<streamId, rwndSize, terminalEvent, eofPos, terminalEventAcked, closed>>
        /\ UNCHANGED <<lock, local, reader, left, readErr, sentEnd, terminalOut, startSeq>>
    BY <2>3
  <2>7. sentNotAcked' \in Nat /\ maxAckedSeq' \in Nat /\ maxAckedRwnd' \in Nat  BY <2>3
  <2>8. terminalEventSent' \in BOOLEAN  BY <2>3
  <2> QED  BY <2>2, <2>4, <2>5, <2>6, <2>7, <2>8, <1>0 DEF TypeOK
<1>17. ASSUME NEW ack \in Acks, RecvFinAck(ack)
       PROVE  TypeOK'
  BY <1>0, <1>17, <1>S DEF RecvFinAck, TypeOK
<1>18. ASSUME NEW ack \in Acks, RecvBadAck(ack)
       PROVE  TypeOK'
  BY <1>0, <1>18, <1>C DEF RecvBadAck, TypeOK, Acks
<1>19. ASSUME NEW ack \in Acks, RecvAck(ack)
       PROVE  TypeOK'
  <2>0. ack.seq \in 0 .. MaxTotal /\ ack.rwnd \in Rwnds  BY <1>19 DEF Acks
  <2>1. ack.seq \in Nat /\ ack.rwnd \in Nat
    <3>1. ack.seq \in Nat  BY <2>0, <1>C
    <3>2. ack.rwnd \in Nat  BY <2>0, <1>C
    <3> QED  BY <3>1, <3>2
  <2>2. connected /\ head <= ack.seq /\ ack.seq - head <= sentNotAcked
    BY <1>19 DEF RecvAck, Acceptable
  <2>3. head + sentNotAcked <= total  BY <2>2, <1>0 DEF InFlightIsHeld
  <2>4. sentNotAcked' \in Nat  BY <2>1, <2>2, <1>19, <1>0 DEF RecvAck, TypeOK
  <2>5. head' \in Nat /\ head' <= total
    BY <2>1, <2>2, <2>3, <1>19, <1>0 DEF RecvAck, ConsumeTo, TypeOK
  <2>6. local' \in [id : Streams \cup {NoStream}, seq : Nat, rwnd : Nat, pos : Nat]
    <3>1. ack.seq - head \in Nat  BY <2>1, <2>2, <1>0 DEF TypeOK
    <3> QED  BY <3>1, <2>1, <1>19, <1>L DEF RecvAck
  <2>7. waiting' \in BOOLEAN  BY <1>19, <1>0 DEF RecvAck, ConsumeTo, TypeOK
  <2>8. UNCHANGED <<total, syncMode, windowSize>>  BY <1>19 DEF RecvAck, ConsumeTo
  <2> QED  BY <2>1, <2>4, <2>5, <2>6, <2>7, <2>8, <1>0, <1>19 DEF RecvAck, TypeOK
<1>20. CASE AckMovesWindow
  <2>1. local.rwnd \in Nat  BY <1>0 DEF TypeOK
  <2>2. EffectiveWindow(local.rwnd) \in Nat  BY <2>1, <1>C DEF EffectiveWindow, Lesser
  <2>3. SetEffectiveWindow(TRUE, EffectiveWindow(local.rwnd))  BY <1>20 DEF AckMovesWindow
  <2>4. /\ total' \in Nat /\ head' \in Nat /\ head' <= total' /\ syncMode' \in BOOLEAN
        /\ windowSize' \in 0 .. CirBufSize /\ waiting' \in BOOLEAN
    BY <2>2, <2>3, <1>0, WindowSet
  <2>5. sender' \in {"prepare", "decide", "wait", "send", "done"} /\ pkt' \in Packets
    BY <1>20, <1>0, <1>S DEF AckMovesWindow, TypeOK
  <2> QED  BY <2>1, <2>4, <2>5, <1>0, <1>20, <1>L DEF AckMovesWindow, TypeOK
<1>21. ASSUME NEW rwnd \in Rwnds, SetRwndSize(rwnd)
       PROVE  TypeOK'
  <2>1. rwnd \in Nat  BY <1>C
  <2>2. EffectiveWindow(rwnd) \in Nat  BY <2>1, <1>C DEF EffectiveWindow, Lesser
  <2>3. SetEffectiveWindow(TRUE, EffectiveWindow(rwnd))  BY <1>21 DEF SetRwndSize
  <2>4. /\ total' \in Nat /\ head' \in Nat /\ head' <= total' /\ syncMode' \in BOOLEAN
        /\ windowSize' \in 0 .. CirBufSize /\ waiting' \in BOOLEAN
    BY <2>2, <2>3, <1>0, WindowSet
  <2> QED  BY <2>1, <2>4, <1>0, <1>21, <1>S DEF SetRwndSize, TypeOK
<1>22. CASE Close
  BY <1>0, <1>22, <1>S DEF Close, TypeOK
<1> QED
  BY <1>1, <1>2, <1>3, <1>4, <1>5, <1>6, <1>7, <1>8, <1>9, <1>10, <1>11, <1>12, <1>13, <1>14,
     <1>15, <1>16, <1>17, <1>18, <1>19, <1>20, <1>21, <1>22
  DEF Next, ReadLoop, Pty, SenderLoop, Handlers, Connect, Ack

\* The four handlers that set the window give up no byte, and a connected session
\* ends up synchronous with its own window.
MovesWindow ==
  ConnectFinishes \/ ClientDisconnected \/ AckMovesWindow \/ \E rwnd \in Rwnds : SetRwndSize(rwnd)

LEMMA WindowMoves ==
  ASSUME Inv, MovesWindow
  PROVE  /\ total' = total /\ head' = head
         /\ waiting' => waiting /\ (syncMode => syncMode' /\ windowSize' <= windowSize)
         /\ connected' => streamId' \in Streams /\ syncMode'
                          /\ windowSize' = Lesser(EffectiveWindow(rwndSize'), CirBufSize)
         /\ UNCHANGED <<reading, terminalEvent, eofPos>>
<1>0. TypeOK /\ BufferBounded /\ SessionWindow /\ LockPlace  BY DEF Inv
<1>C. CwndSize \in Nat /\ CirBufSize \in Nat /\ Rwnds \subseteq Nat  BY StreamAssumption
<1>W. \A rwnd \in Nat : EffectiveWindow(rwnd) \in Nat  BY <1>C DEF EffectiveWindow, Lesser
<1>1. CASE ConnectFinishes
  <2>1. local.rwnd \in Nat /\ local.id \in Streams
    BY <1>0, <1>1 DEF TypeOK, LockPlace, ConnectFinishes
  <2>2. SetEffectiveWindow(TRUE, EffectiveWindow(local.rwnd)) /\ rwndSize' = local.rwnd /\ streamId' = local.id
        /\ UNCHANGED <<reading, terminalEvent, eofPos>>
    BY <1>1 DEF ConnectFinishes, ending
  <2> QED  BY <2>1, <2>2, <1>W, <1>0, WindowSet
<1>2. CASE ClientDisconnected
  <2>1. SetEffectiveWindow(FALSE, CirBufSize) /\ ~connected' /\ connected
        /\ UNCHANGED <<reading, terminalEvent, eofPos>>
    BY <1>2 DEF ClientDisconnected, ending
  <2>2. Count <= CirBufSize /\ syncMode  BY <2>1, <1>0 DEF BufferBounded, SessionWindow
  <2> QED  BY <2>1, <2>2, <1>C, <1>0, WindowSet
<1>3. CASE AckMovesWindow
  <2>1. local.rwnd \in Nat /\ connected  BY <1>0, <1>3 DEF TypeOK, LockPlace, AckMovesWindow
  <2>2. SetEffectiveWindow(TRUE, EffectiveWindow(local.rwnd)) /\ rwndSize' = local.rwnd
        /\ UNCHANGED <<streamId, reading, terminalEvent, eofPos>>
    BY <1>3 DEF AckMovesWindow, ending
  <2> QED  BY <2>1, <2>2, <1>W, <1>0, WindowSet DEF SessionWindow
<1>4. ASSUME NEW rwnd \in Rwnds, SetRwndSize(rwnd)
      PROVE  /\ total' = total /\ head' = head
             /\ waiting' => waiting /\ (syncMode => syncMode' /\ windowSize' <= windowSize)
             /\ connected' => streamId' \in Streams /\ syncMode'
                              /\ windowSize' = Lesser(EffectiveWindow(rwndSize'), CirBufSize)
             /\ UNCHANGED <<reading, terminalEvent, eofPos>>
  <2>1. rwnd \in Nat /\ connected  BY <1>C, <1>4 DEF SetRwndSize
  <2>2. SetEffectiveWindow(TRUE, EffectiveWindow(rwnd)) /\ rwndSize' = rwnd
        /\ UNCHANGED <<streamId, reading, terminalEvent, eofPos>>
    BY <1>4 DEF SetRwndSize, ending
  <2> QED  BY <2>1, <2>2, <1>W, <1>0, WindowSet DEF SessionWindow
<1> QED  BY <1>1, <1>2, <1>3, <1>4 DEF MovesWindow

\* Consuming moves the head within the buffer and releases the PTY goroutine.
Consumes == ConnectConsumes \/ \E ack \in Acks : RecvAck(ack)

LEMMA ConsumesWithin ==
  ASSUME Inv, Consumes
  PROVE  /\ head' \in Nat /\ head <= head' /\ head' <= total
         /\ head' # head => ~waiting'
         /\ waiting' => waiting
         /\ UNCHANGED <<total, syncMode, windowSize, streamId, connected, rwndSize, reading, sending>>
         /\ UNCHANGED <<terminalEvent, eofPos>>
<1>0. TypeOK /\ LockPlace /\ InFlightIsHeld  BY DEF Inv
<1>1. CASE ConnectConsumes
  <2>1. local.seq \in Nat /\ local.pos \in Nat /\ local.pos < local.seq
    BY <1>1, <1>0 DEF TypeOK, LockPlace, ConnectConsumes
  <2>2. CASE local.seq - local.pos > Count
    BY <2>2, <1>1, <1>0 DEF ConnectConsumes, buffer, session, ending, TypeOK
  <2>3. CASE ~(local.seq - local.pos > Count)
    <3>1. head' = head + (local.seq - local.pos) /\ ~waiting'
          /\ UNCHANGED <<total, syncMode, windowSize, session, reading, sending, ending>>
      BY <2>3, <1>1, Zenon DEF ConnectConsumes, ConsumeTo
    <3>2. local.seq - local.pos \in Nat /\ local.seq - local.pos <= Count
      BY <2>1, <2>3, <1>0 DEF TypeOK, Count
    <3>3. head' \in Nat /\ head <= head' /\ head' <= total
      BY <3>1, <3>2, <1>0 DEF TypeOK, Count
    <3> QED  BY <3>1, <3>3 DEF session, ending
  <2> QED  BY <2>2, <2>3
<1>2. ASSUME NEW ack \in Acks, RecvAck(ack)
      PROVE  /\ head' \in Nat /\ head <= head' /\ head' <= total
             /\ head' # head => ~waiting'
             /\ waiting' => waiting
             /\ UNCHANGED <<total, syncMode, windowSize, streamId, connected, rwndSize, reading, sending>>
             /\ UNCHANGED <<terminalEvent, eofPos>>
  <2>0. ack.seq \in 0 .. MaxTotal  BY <1>2 DEF Acks
  <2>1. ack.seq \in Nat  BY <2>0, StreamAssumption
  <2>2. connected /\ head <= ack.seq /\ ack.seq - head <= sentNotAcked
    BY <1>2 DEF RecvAck, Acceptable
  <2>3. ack.seq <= total  BY <2>1, <2>2, <1>0 DEF InFlightIsHeld, TypeOK
  <2>4. /\ head' = ack.seq \/ head' = head
        /\ head' # head => ~waiting'
        /\ waiting' => waiting
    BY <1>2 DEF RecvAck, ConsumeTo, buffer
  <2>5. UNCHANGED <<total, syncMode, windowSize, streamId, connected, rwndSize, reading, sending>>
        /\ UNCHANGED <<terminalEvent, eofPos>>
    BY <1>2 DEF RecvAck, ConsumeTo, buffer, ending
  <2>6. head' \in Nat /\ head <= head' /\ head' <= total
    BY <2>1, <2>2, <2>3, <2>4, <1>0 DEF TypeOK
  <2> QED  BY <2>4, <2>5, <2>6
<1> QED  BY <1>1, <1>2 DEF Consumes

\* The steps that touch neither the buffer nor the PTY goroutine.
Quiet ==
  \/ SenderLoop \/ SendData \/ Connect \/ ConnectRereadsHead \/ Close
  \/ \E ack \in Acks : RecvFinAck(ack) \/ RecvBadAck(ack)

LEMMA QuietKeeps ==
  ASSUME Quiet
  PROVE  /\ UNCHANGED <<head, total, syncMode, windowSize, waiting, streamId, connected, rwndSize>>
         /\ UNCHANGED <<reader, left, readErr, terminalEvent, eofPos>>
<1> USE DEF buffer, session, ending, reading
<1>1. CASE SenderLoop
  BY <1>1 DEF SenderLoop, SenderLooks, SenderStops, SenderWaits, SenderTakesTerminal, SenderTakesData, Prepared
<1>2. CASE SendData \/ Connect \/ ConnectRereadsHead \/ Close
  BY <1>2 DEF SendData, Connect, ConnectReadsHead, ConnectRereadsHead, Close
<1>3. CASE \E ack \in Acks : RecvFinAck(ack) \/ RecvBadAck(ack)
  BY <1>3 DEF RecvFinAck, RecvBadAck
<1> QED  BY <1>1, <1>2, <1>3 DEF Quiet

LEMMA NextCases ==
  ASSUME Next
  PROVE  ReadLoop \/ Pty \/ Quiet \/ MovesWindow \/ Consumes
BY DEF Next, Handlers, Ack, Quiet, MovesWindow, Consumes

\* Every step keeps the buffer within its capacity, the session's window and the
\* place of the PTY goroutine.
LEMMA BufferStep == Inv /\ Next => BufferBounded' /\ SessionWindow' /\ ReaderPlace'
<1> SUFFICES ASSUME Inv, Next PROVE BufferBounded' /\ SessionWindow' /\ ReaderPlace'  OBVIOUS
<1>0. TypeOK /\ BufferBounded /\ SessionWindow /\ ReaderPlace  BY DEF Inv
<1>C. CirBufSize \in Nat /\ MaxPacketSize \in Nat  BY StreamAssumption
<1>1. CASE Quiet
  BY <1>0, <1>1, QuietKeeps DEF BufferBounded, SessionWindow, ReaderPlace, Count
<1>2. CASE MovesWindow
  <2>1. BufferBounded'  BY <1>0, <1>2, WindowMoves DEF BufferBounded, Count
  <2>2. SessionWindow'  BY <1>2, WindowMoves DEF SessionWindow
  <2>3. windowSize \in Nat /\ windowSize' \in Nat /\ Count \in Int
    BY <1>0, <1>C, TypeStep DEF TypeOK, Count
  <2>4. waiting' => syncMode' /\ Count' >= windowSize'
    BY <2>3, <1>0, <1>2, WindowMoves DEF ReaderPlace, Count
  <2>5. ReaderPlace'  BY <2>4, <1>0, <1>2, WindowMoves DEF ReaderPlace, reading
  <2> QED  BY <2>1, <2>2, <2>5
<1>3. CASE Consumes
  <2>1. BufferBounded'  BY <1>0, <1>3, <1>C, ConsumesWithin DEF BufferBounded, Count, TypeOK
  <2>2. SessionWindow'  BY <1>0, <1>3, ConsumesWithin DEF SessionWindow
  <2>3. ReaderPlace'  BY <1>0, <1>3, ConsumesWithin DEF ReaderPlace, reading, Count
  <2> QED  BY <2>1, <2>2, <2>3
<1>4. CASE Pty
  BY <1>0, <1>4 DEF Pty, ReadPty, BufferBounded, SessionWindow, ReaderPlace, Count, buffer, session, ending
<1>5. CASE ReadLoopWrites
  <2>1. reader = "write" /\ left > 0 /\ Accepted(left) > 0  BY <1>0, <1>5 DEF ReadLoopWrites, ReaderPlace
  <2>2. head' = HeadAfterWrite(Accepted(left)) /\ total' = total + Accepted(left)
        /\ reader' = "signal" /\ UNCHANGED <<syncMode, windowSize, waiting, streamId, connected, rwndSize, terminalEvent>>
    BY <1>5 DEF ReadLoopWrites, session, ending
  <2>3. BufferBounded'
    <3>1. total + Accepted(left) - HeadAfterWrite(Accepted(left)) <= CirBufSize
      BY <2>1, <1>0, WriteStores
    <3>2. /\ Accepted(left) \in 0 .. left
          /\ HeadAfterWrite(Accepted(left)) \in head .. total + Accepted(left)
      BY <2>1, <1>0, WriteStores
    <3>3. \A a, h, t \in Nat :
             (t = total + a /\ total + a - h <= CirBufSize) => t - h <= CirBufSize
      BY <1>0, <1>C DEF TypeOK
    <3>4. Accepted(left) \in Nat /\ head' \in Nat /\ total' \in Nat
      BY <3>2, <1>0, <1>C, TypeStep DEF TypeOK
    <3>5. total + Accepted(left) - head' <= CirBufSize  BY <3>1, <2>2
    <3>6. total' - head' <= CirBufSize  BY ONLY <3>3, <3>4, <3>5, <2>2
    <3> QED  BY <3>6 DEF BufferBounded, Count
  <2>4. SessionWindow'  BY <2>2, <1>0 DEF SessionWindow
  <2>5. ~waiting /\ terminalEvent = "none"  BY <2>1, <1>0 DEF ReaderPlace
  <2>6. ReaderPlace'  BY <2>2, <2>5 DEF ReaderPlace
  <2> QED  BY <2>3, <2>4, <2>6
<1>6. CASE ReadLoopBlocks
  <2>1. /\ reader = "write" /\ left > 0 /\ Accepted(left) = 0
        /\ terminalEvent = "none" /\ reader' = "blocked"
        /\ UNCHANGED <<head, total, syncMode, windowSize, streamId, connected, rwndSize, left, terminalEvent, eofPos>>
    BY <1>0, <1>6 DEF ReadLoopBlocks, ReaderPlace, session, ending
  <2>2. syncMode /\ Count >= windowSize  BY <2>1, <1>0, WriteStores
  <2> QED  BY <2>1, <2>2, <1>0 DEF BufferBounded, SessionWindow, ReaderPlace, Count
<1>7. CASE AttachReader \/ ReadLoopCheck \/ ReadLoopResumes \/ ReadLoopSignals
  <2>1. /\ UNCHANGED <<head, total, syncMode, windowSize, waiting, streamId, connected, rwndSize>>
        /\ UNCHANGED <<left, readErr, terminalEvent, eofPos>>
    BY <1>7 DEF AttachReader, ReadLoopCheck, ReadLoopResumes, ReadLoopSignals, buffer, session, ending
  <2>2. /\ ~waiting' /\ terminalEvent = "none"
        /\ reader' \in {"write", "blocked"} => left' > 0
        /\ reader' = "terminal" => readErr' # "none"
    <3>1. CASE AttachReader \/ ReadLoopCheck
      BY <1>0, <2>1, <3>1 DEF AttachReader, ReadLoopCheck, ReaderPlace
    <3>2. CASE ReadLoopResumes
      BY <1>0, <2>1, <3>2 DEF ReadLoopResumes, ReaderPlace
    <3>3. CASE ReadLoopSignals
      BY <1>0, <2>1, <3>3 DEF ReadLoopSignals, ReaderPlace
    <3> QED  BY <1>7, <3>1, <3>2, <3>3
  <2> QED  BY <2>1, <2>2, <1>0 DEF BufferBounded, SessionWindow, ReaderPlace, Count
<1>8. CASE HandleTerminal
  BY <1>0, <1>8 DEF HandleTerminal, BufferBounded, SessionWindow, ReaderPlace, Count, buffer, session
<1> QED  BY <1>1, <1>2, <1>3, <1>4, <1>5, <1>6, <1>7, <1>8, NextCases DEF ReadLoop

\* Every step keeps what the holder of sm.lock relies on.
LEMMA LockStep == Inv /\ Next => LockPlace'
<1> SUFFICES ASSUME Inv, Next PROVE LockPlace'  OBVIOUS
<1> USE DEF buffer, session, ending, locking, reading, sending
<1>0. TypeOK /\ ReaderPlace /\ LockPlace  BY DEF Inv
<1>S. ASSUME Signal, sender # "decide" PROVE sender' # "decide"
  BY <1>S DEF Signal
<1>1. CASE ReadLoopWrites
  BY <1>0, <1>1 DEF ReadLoopWrites, LockPlace, Finished
<1>2. CASE Pty \/ ReadLoopBlocks \/ ReadLoopResumes
  BY <1>0, <1>2 DEF Pty, ReadPty, ReadLoopBlocks, ReadLoopResumes, LockPlace, Finished, Count
<1>3. CASE AttachReader \/ ReadLoopCheck
  BY <1>0, <1>3 DEF AttachReader, ReadLoopCheck, LockPlace
<1>4. CASE ReadLoopSignals \/ HandleTerminal
  BY <1>0, <1>4, <1>S DEF ReadLoopSignals, HandleTerminal, LockPlace
<1>5. CASE SenderLooks
  BY <1>0, <1>5 DEF SenderLooks, LockPlace, NoLocal, Count
<1>6. CASE SenderStops \/ SenderWaits \/ SenderTakesTerminal \/ SenderTakesData
  BY <1>6 DEF SenderStops, SenderWaits, SenderTakesTerminal, SenderTakesData, Prepared, LockPlace
<1>7. CASE SendData
  BY <1>0, <1>7 DEF SendData, LockPlace, Finished, Count
<1>8. CASE Connect
  <2>1. PICK rwnd \in Rwnds, seq \in 0 .. MaxTotal :
           streamId + 1 \in Streams /\ ConnectReadsHead(streamId + 1, rwnd, seq)
    BY <1>8 DEF Connect
  <2>2. lock' # "sender" /\ sender' # "decide" /\ lock' # "ack"
    BY <2>1, <1>0 DEF ConnectReadsHead, LockPlace
  <2>3. ~connected' /\ ~Finished' /\ local'.id = streamId' + 1 /\ local'.id \in Streams
    BY <2>1 DEF ConnectReadsHead, Finished
  <2>4. lock' = "connect.consume" => local'.pos < local'.seq
    BY <2>1 DEF ConnectReadsHead
  <2> QED  BY <2>2, <2>3, <2>4 DEF LockPlace
<1>9. CASE ConnectConsumes
  <2>1. CASE local.seq - local.pos > Count
    BY <2>1, <1>9, <1>0 DEF ConnectConsumes, LockPlace
  <2>2. CASE ~(local.seq - local.pos > Count)
    BY <2>2, <1>9, <1>0 DEF ConnectConsumes, LockPlace, Finished
  <2> QED  BY <2>1, <2>2
<1>10. CASE ConnectRereadsHead
  BY <1>0, <1>10 DEF ConnectRereadsHead, LockPlace, Finished, TypeOK
<1>11. CASE ConnectFinishes
  BY <1>0, <1>11, <1>S DEF ConnectFinishes, LockPlace
<1>12. CASE AckMovesWindow
  BY <1>0, <1>12, <1>S DEF AckMovesWindow, LockPlace
<1>13. ASSUME NEW ack \in Acks, RecvAck(ack) PROVE LockPlace'
  BY <1>0, <1>13 DEF RecvAck, LockPlace
<1>14. ASSUME NEW ack \in Acks, RecvFinAck(ack) \/ RecvBadAck(ack) PROVE LockPlace'
  BY <1>0, <1>14, <1>S DEF RecvFinAck, RecvBadAck, LockPlace
<1>15. CASE ClientDisconnected
  <2>1. lock = "free" /\ lock' = "free" /\ Signal  BY <1>15, Zenon DEF ClientDisconnected
  <2> QED  BY <2>1, <1>S, <1>0 DEF LockPlace
<1>16. ASSUME NEW rwnd \in Rwnds, SetRwndSize(rwnd) PROVE LockPlace'
  BY <1>0, <1>16, <1>S DEF SetRwndSize, LockPlace
<1>17. CASE Close
  BY <1>0, <1>17, <1>S DEF Close, LockPlace
<1> QED
  BY <1>1, <1>2, <1>3, <1>4, <1>5, <1>6, <1>7, <1>8, <1>9, <1>10, <1>11, <1>12, <1>13, <1>14,
     <1>15, <1>16, <1>17
  DEF Next, ReadLoop, SenderLoop, Handlers, Ack

\* What is said about the packets: the next position to send, and the end.
Sending == PacketPlace /\ SendsInOrder /\ InFlightIsHeld /\ EndAckedLast

\* The steps that send, hold and end nothing.
LEMMA SendingKept ==
  ASSUME Inv, total' = total, head' = head, sender' = "send" => sender = "send" /\ pkt' = pkt,
         connected => (sender' = "send" <=> sender = "send"),
         UNCHANGED <<streamId, connected, sentNotAcked, sentEnd, terminalEvent, eofPos, terminalOut>>,
         terminalEventAcked' => terminalEventAcked
  PROVE  Sending'
<1>0. Sending  BY DEF Inv, Sending
<1>1. PacketPlace' /\ SendsInOrder'  BY <1>0 DEF Sending, PacketPlace, SendsInOrder
<1>2. InFlightIsHeld'  BY <1>0 DEF Sending, InFlightIsHeld
<1>3. EndAckedLast'  BY <1>0 DEF Sending, EndAckedLast
<1> QED  BY <1>1, <1>2, <1>3 DEF Sending

LEMMA SendingStep == Inv /\ Next => Sending'
<1> SUFFICES ASSUME Inv, Next PROVE Sending'  OBVIOUS
<1>0. TypeOK /\ SessionWindow /\ ReaderPlace /\ LockPlace /\ Sending  BY DEF Inv, Sending
<1>T. TypeOK'  BY TypeStep
<1>C. MaxPacketSize \in Nat  BY StreamAssumption
<1>S. ASSUME Signal PROVE pkt' = pkt /\ (sender' = "send" <=> sender = "send")
  BY <1>S DEF Signal
<1>1. CASE AttachReader \/ ReadLoopCheck \/ Pty \/ ReadLoopBlocks \/ ReadLoopResumes
  BY <1>1, SendingKept
  DEF AttachReader, ReadLoopCheck, Pty, ReadPty, ReadLoopBlocks, ReadLoopResumes, buffer, session, ending, sending, client
<1>2. CASE ReadLoopSignals \/ Close
  BY <1>2, <1>S, SendingKept DEF ReadLoopSignals, Close, buffer, session, ending, client
<1>3. CASE SenderLooks \/ SenderStops \/ SenderWaits
  <2>1. sender # "send" /\ sender' # "send"
    BY <1>3 DEF SenderLooks, SenderStops, SenderWaits, Prepared
  <2> QED  BY <2>1, <1>3, SendingKept
           DEF SenderLooks, SenderStops, SenderWaits, Prepared, buffer, session, ending, client
<1>4. CASE Connect \/ ConnectRereadsHead
  BY <1>4, SendingKept DEF Connect, ConnectReadsHead, ConnectRereadsHead, buffer, session, ending, sending, client
<1>5. ASSUME NEW ack \in Acks, RecvBadAck(ack) PROVE Sending'
  BY <1>5, SendingKept DEF RecvBadAck, buffer, ending, sending, client
<1>6. CASE AckMovesWindow \/ \E rwnd \in Rwnds : SetRwndSize(rwnd)
  <2>1. total' = total /\ head' = head  BY <1>6, WindowMoves DEF MovesWindow
  <2>2. pkt' = pkt /\ (sender' = "send" <=> sender = "send")
    BY <1>6, <1>S DEF AckMovesWindow, SetRwndSize, sending
  <2>3. UNCHANGED <<streamId, connected, sentNotAcked, sentEnd, terminalEvent, eofPos,
                    terminalOut, terminalEventAcked>>
    BY <1>6, Zenon DEF AckMovesWindow, SetRwndSize, ending, client
  <2> QED  BY <2>1, <2>2, <2>3, SendingKept
<1>7. CASE ReadLoopWrites
  <2>1. reader = "write" /\ left > 0 /\ Accepted(left) > 0 /\ terminalEvent = "none"
    BY <1>0, <1>7 DEF ReadLoopWrites, ReaderPlace
  <2>2. /\ head' = HeadAfterWrite(Accepted(left)) /\ total' = total + Accepted(left)
        /\ UNCHANGED <<streamId, connected, sentNotAcked, sentEnd, terminalEvent, eofPos>>
        /\ UNCHANGED <<terminalOut, terminalEventAcked, sender, pkt>>
    BY <1>7 DEF ReadLoopWrites, session, ending, sending, client
  <2>3. Accepted(left) \in Nat /\ total \in Nat /\ (syncMode => head' = head)
    BY <2>1, <2>2, <1>0, WriteStores DEF TypeOK, Inv
  <2>4. terminalOut = {} /\ (sender = "send" => pkt.kind = "data")
    BY <2>1, <1>0 DEF Sending, EndAckedLast, PacketPlace
  <2>5. total <= total'  BY <2>2, <2>3
  <2>6. connected => head' = head /\ head' + sentNotAcked' <= total'
    BY <2>2, <2>3, <2>5, <1>0, <1>T DEF SessionWindow, TypeOK, Sending, InFlightIsHeld
  <2>7. PacketPlace' /\ SendsInOrder' /\ EndAckedLast'
    BY <2>2, <2>4, <1>0 DEF Sending, PacketPlace, SendsInOrder, EndAckedLast
  <2>8. InFlightIsHeld'
    BY <2>2, <2>6, <1>0 DEF Sending, InFlightIsHeld
  <2> QED  BY <2>7, <2>8 DEF Sending
<1>8. CASE HandleTerminal
  <2>1. terminalEvent = "none" /\ Signal
        /\ UNCHANGED <<head, total, streamId, connected, sentNotAcked, sentEnd, terminalOut, terminalEventAcked>>
    BY <1>0, <1>8 DEF HandleTerminal, ReaderPlace, buffer, session, client
  <2>2. terminalOut = {} /\ ~terminalEventAcked /\ (sender = "send" => pkt.kind = "data")
    BY <2>1, <1>0 DEF Sending, EndAckedLast, PacketPlace
  <2>3. PacketPlace' /\ SendsInOrder' /\ EndAckedLast'
    BY <2>1, <2>2, <1>S, <1>0 DEF Sending, PacketPlace, SendsInOrder, EndAckedLast
  <2>4. InFlightIsHeld'  BY <2>1, <1>S, <1>0 DEF Sending, InFlightIsHeld
  <2> QED  BY <2>3, <2>4 DEF Sending
<1>9. CASE SenderTakesTerminal
  <2>1. /\ ~Finished /\ connected /\ local.pos = 0 /\ terminalEvent # "none"
        /\ lock = "sender" /\ sender = "decide" /\ sender' = "send"
        /\ pkt' = [id |-> streamId, seq |-> eofPos, len |-> 0, kind |-> terminalEvent]
        /\ UNCHANGED <<head, total, streamId, connected, sentNotAcked, sentEnd, terminalEvent, eofPos>>
        /\ UNCHANGED <<terminalOut, terminalEventAcked>>
    BY <1>9 DEF SenderTakesTerminal, Prepared, TerminalDue, available, buffer, ending, client
  <2>2. reader = "done" /\ eofPos = total /\ head = total
    BY <2>1, <1>0 DEF ReaderPlace, LockPlace, Count, TypeOK
  <2>3. sentNotAcked = 0 /\ sentEnd[streamId] = total
    BY <2>1, <2>2, <1>0 DEF Sending, InFlightIsHeld, TypeOK, SessionWindow
  <2>4. PacketPlace' /\ SendsInOrder' /\ EndAckedLast'
    BY <2>1, <2>2, <2>3, <1>0 DEF Sending, PacketPlace, SendsInOrder, EndAckedLast, SessionWindow, TypeOK, Streams
  <2>5. InFlightIsHeld'
    BY <2>1, <2>2, <2>3, <1>0 DEF InFlightIsHeld, TypeOK
  <2> QED  BY <2>4, <2>5 DEF Sending
<1>10. CASE SenderTakesData
  <2>1. /\ connected /\ Peeked > 0 /\ lock = "sender" /\ sender = "decide" /\ sender' = "send"
        /\ pkt' = [id |-> streamId, seq |-> head + sentNotAcked, len |-> Peeked, kind |-> "data"]
        /\ sentNotAcked' = sentNotAcked + Peeked
        /\ UNCHANGED <<head, total, streamId, connected, sentEnd, terminalEvent, eofPos>>
        /\ UNCHANGED <<terminalOut, terminalEventAcked>>
    BY <1>10 DEF SenderTakesData, Prepared, NextSeq, buffer, ending, client
  <2>2. Peeked \in 0 .. MaxPacketSize /\ sentNotAcked + Peeked <= total - head
    BY <2>1, <1>0, PeekedBounds DEF Count
  <2>3. sentEnd[streamId] = head + sentNotAcked /\ streamId \in Streams
    BY <2>1, <1>0 DEF Sending, InFlightIsHeld, SessionWindow, TypeOK
  <2>4. PacketPlace' /\ SendsInOrder' /\ EndAckedLast'
    BY <2>1, <2>3, <1>0 DEF Sending, PacketPlace, SendsInOrder, EndAckedLast, TypeOK, Streams
  <2>5. head + (sentNotAcked + Peeked) = sentEnd[streamId] + Peeked
        /\ head + (sentNotAcked + Peeked) <= total
    BY <2>2, <2>3, <1>0, <1>C DEF TypeOK
  <2>6. InFlightIsHeld'  BY <2>1, <2>5 DEF InFlightIsHeld
  <2> QED  BY <2>4, <2>6 DEF Sending
<1>11. CASE SendData
  <2>1. /\ sender = "send" /\ sender' = "prepare"
        /\ sentEnd' = [sentEnd EXCEPT ![pkt.id] = pkt.seq + pkt.len]
        /\ terminalOut' = IF pkt.kind = "data" THEN terminalOut ELSE terminalOut \cup {pkt.id}
        /\ UNCHANGED <<head, total, streamId, connected, sentNotAcked, terminalEvent, eofPos>>
        /\ UNCHANGED terminalEventAcked
    BY <1>11 DEF SendData, buffer, session, ending
  <2>2. pkt.id \in Streams /\ pkt.seq = sentEnd[pkt.id]
        /\ (pkt.kind # "data" => terminalEvent # "none" /\ head = total)
    BY <2>1, <1>0 DEF Sending, PacketPlace, SendsInOrder
  <2>3. PacketPlace' /\ SendsInOrder'  BY <2>1 DEF PacketPlace, SendsInOrder
  <2>4. EndAckedLast'
    BY <2>1, <2>2, <1>0 DEF Sending, EndAckedLast, ReaderPlace
  <2>5. connected => streamId \in Streams  BY <1>0 DEF SessionWindow
  <2>6. InFlightIsHeld'
    <3>1. CASE pkt.id = streamId
      <4>1. sentEnd'[streamId] = sentEnd[streamId] + pkt.len
        BY <3>1, <2>1, <2>2, <1>0 DEF TypeOK
      <4>2. pkt.len \in Nat /\ (connected => sentEnd[streamId] \in Nat)
        BY <2>5, <1>0, <1>C DEF TypeOK, Packets
      <4>3. connected => sentEnd'[streamId] + 0 = sentEnd[streamId] + pkt.len
        BY <4>1, <4>2
      <4> QED  BY <3>1, <4>3, <2>1, <1>0 DEF Sending, InFlightIsHeld
    <3>2. CASE pkt.id # streamId
      <4>1. connected => sentEnd'[streamId] = sentEnd[streamId]
        BY <3>2, <2>1, <2>5, <1>0 DEF TypeOK
      <4> QED  BY <3>2, <4>1, <2>1, <1>0 DEF Sending, InFlightIsHeld
    <3> QED  BY <3>1, <3>2
  <2> QED  BY <2>3, <2>4, <2>6 DEF Sending
<1>12. CASE ConnectConsumes
  <2>1. /\ ~connected /\ UNCHANGED <<session, sending, client, ending>>
        /\ total' = total /\ head <= head' /\ head' <= total /\ head' \in Nat
    BY <1>12, <1>0, ConsumesWithin DEF ConnectConsumes, LockPlace, Consumes
  <2>2. head = total => head' = total  BY <2>1, <1>0 DEF TypeOK
  <2>3. PacketPlace' /\ SendsInOrder' /\ EndAckedLast'
    BY <2>1, <2>2, <1>0
    DEF Sending, PacketPlace, SendsInOrder, EndAckedLast, session, sending, client, ending
  <2>4. InFlightIsHeld'  BY <2>1 DEF InFlightIsHeld, session
  <2> QED  BY <2>3, <2>4 DEF Sending
<1>13. CASE ConnectFinishes
  <2>1. total' = total /\ head' = head  BY <1>13, WindowMoves DEF MovesWindow
  <2>2. /\ streamId' = local.id /\ sentNotAcked' = 0 /\ Signal
        /\ sentEnd' = [sentEnd EXCEPT ![local.id] = head]
        /\ UNCHANGED <<terminalEvent, eofPos, terminalOut, terminalEventAcked>>
        /\ lock = "connect.finish"
    BY <1>13 DEF ConnectFinishes, ending
  <2>3. local.id = streamId + 1 /\ local.id \in Streams  BY <2>2, <1>0 DEF LockPlace
  <2>4. streamId \in Nat /\ (sender = "send" => pkt.id \in Streams /\ pkt.id <= streamId /\ pkt.id # local.id)
    BY <2>3, <1>0 DEF Sending, PacketPlace, Streams, TypeOK, NoStream
  <2>5. PacketPlace' /\ SendsInOrder' /\ EndAckedLast'
    <3>1. sender' = "send" => pkt' = pkt /\ sentEnd'[pkt.id] = sentEnd[pkt.id] /\ pkt.id <= streamId'
      BY <2>2, <2>3, <2>4, <1>S, <1>0 DEF TypeOK, Streams
    <3> QED  BY <3>1, <2>1, <2>2, <1>S, <1>0 DEF Sending, PacketPlace, SendsInOrder, EndAckedLast
  <2>6. sentEnd'[streamId'] = head'  BY <2>1, <2>2, <2>3, <1>0 DEF TypeOK
  <2>7. sender' = "send" => pkt'.id # streamId'  BY <2>2, <2>4, <1>S
  <2>8. InFlightIsHeld'
    <3>1. head' \in Nat /\ head' <= total' /\ sentNotAcked' = 0  BY <2>2, <1>T DEF TypeOK
    <3>0. \A h, n \in Nat : n = 0 => h + n = h  OBVIOUS
    <3>2. head' + sentNotAcked' = head'  BY <3>0, <3>1
    <3>3. (IF sender' = "send" /\ pkt'.id = streamId' THEN pkt'.len ELSE 0) = 0  BY <2>7
    <3>4. sentEnd'[streamId'] + 0 = head'  BY <3>0, <3>1, <2>6
    <3> QED  BY <3>1, <3>2, <3>3, <3>4 DEF InFlightIsHeld
  <2> QED  BY <2>5, <2>8 DEF Sending
<1>14. CASE ClientDisconnected
  <2>1. total' = total /\ head' = head  BY <1>14, WindowMoves DEF MovesWindow
  <2>2. ~connected' /\ Signal /\ UNCHANGED <<streamId, terminalEvent, eofPos, terminalEventAcked, sentEnd, terminalOut>>
    BY <1>14, Zenon DEF ClientDisconnected, ending, client
  <2>3. PacketPlace' /\ SendsInOrder' /\ EndAckedLast'
    BY <2>1, <2>2, <1>S, <1>0 DEF Sending, PacketPlace, SendsInOrder, EndAckedLast
  <2>4. InFlightIsHeld'  BY <2>2 DEF InFlightIsHeld
  <2> QED  BY <2>3, <2>4 DEF Sending
<1>15. ASSUME NEW ack \in Acks, RecvFinAck(ack), ack.id \in terminalOut PROVE Sending'
  <2>1. /\ Signal /\ terminalOut # {} /\ UNCHANGED <<head, total, streamId, connected, sentNotAcked>>
        /\ UNCHANGED <<sentEnd, terminalOut, terminalEvent, eofPos>>
    BY <1>15 DEF RecvFinAck, buffer, session, client
  <2>2. PacketPlace' /\ SendsInOrder' /\ EndAckedLast'
    BY <2>1, <1>S, <1>0 DEF Sending, PacketPlace, SendsInOrder, EndAckedLast
  <2>3. InFlightIsHeld'  BY <2>1, <1>S, <1>0 DEF Sending, InFlightIsHeld
  <2> QED  BY <2>2, <2>3 DEF Sending
<1>16. ASSUME NEW ack \in Acks, RecvAck(ack) PROVE Sending'
  <2>1. total' = total /\ head <= head' /\ head' <= total /\ head' \in Nat /\ UNCHANGED sending
        /\ streamId' = streamId /\ connected' = connected
    BY <1>16, ConsumesWithin DEF Consumes
  <2>2. /\ connected /\ head <= ack.seq
        /\ head' = ack.seq \/ (~(ack.seq > head) /\ head' = head)
        /\ sentNotAcked' = sentNotAcked - (ack.seq - head)
        /\ UNCHANGED <<client, ending>>
    BY <1>16 DEF RecvAck, Acceptable, ConsumeTo, buffer
  <2>3. ack.seq \in 0 .. MaxTotal  BY <1>16 DEF Acks
  <2>4. ack.seq \in Nat  BY <2>3, StreamAssumption
  <2>5. head' = ack.seq  BY <2>2, <2>4, <1>0 DEF TypeOK
  <2>6. head' + sentNotAcked' = head + sentNotAcked
    <3>1. \A h, a, n \in Nat : a + (n - (a - h)) = h + n  OBVIOUS
    <3> QED  BY <3>1, <2>2, <2>4, <2>5, <1>0 DEF TypeOK
  <2>7. head = total => head' = total  BY <2>1, <1>0 DEF TypeOK
  <2>8. PacketPlace' /\ SendsInOrder' /\ EndAckedLast'
    BY <2>1, <2>2, <2>7, <1>0 DEF Sending, PacketPlace, SendsInOrder, EndAckedLast, sending, client, ending
  <2>9. InFlightIsHeld'
    BY <2>1, <2>2, <2>6, <1>0 DEF Sending, InFlightIsHeld, sending, client
  <2> QED  BY <2>8, <2>9 DEF Sending
<1>17. CASE Ack
  <2>1. PICK ack \in Acks : /\ ack.fin => ack.id \in terminalOut
                            /\ RecvFinAck(ack) \/ RecvBadAck(ack) \/ RecvAck(ack)
    BY <1>17 DEF Ack
  <2>2. RecvFinAck(ack) => ack.fin  BY DEF RecvFinAck
  <2> QED  BY <2>1, <2>2, <1>5, <1>15, <1>16
<1>18. CASE ReadLoop \/ Pty  BY <1>1, <1>2, <1>7, <1>8, <1>18 DEF ReadLoop
<1>19. CASE SenderLoop \/ SendData  BY <1>3, <1>9, <1>10, <1>11, <1>19 DEF SenderLoop
<1>20. CASE Handlers \/ Connect \/ ClientDisconnected
  BY <1>4, <1>6, <1>12, <1>13, <1>14, <1>20 DEF Handlers
<1> QED  BY <1>2, <1>6, <1>17, <1>18, <1>19, <1>20 DEF Next

\* The sender never sleeps beside work: whatever makes work for it also wakes it.
LEMMA SenderStep == Inv /\ Next => SenderIdle'
<1> SUFFICES ASSUME Inv, Next, sender' = "wait", reader' # "signal", lock' = "ack" => local'.pos = 0
             PROVE  ~CanSend'
  BY DEF SenderIdle, CanSend, Finished, Count, EffectiveWindow, Lesser
<1> USE DEF buffer, session, ending, locking, reading, sending
<1>0. TypeOK /\ ReaderPlace /\ LockPlace /\ SenderIdle  BY DEF Inv
<1>C. CwndSize \in Nat  BY StreamAssumption
<1>S. ~Signal  BY DEF Signal
<1>1. CASE SenderWaits
  <2>1. /\ lock = "sender" /\ ~Finished /\ (~connected \/ (~TerminalDue /\ Peeked = 0))
        /\ UNCHANGED <<buffer, connected, rwndSize, ending, reading, sentNotAcked, terminalEventSent>>
    BY <1>1 DEF SenderWaits, Prepared
  <2>2. local.pos = Count  BY <2>1, <1>0 DEF LockPlace
  <2>3. ~CanSend  BY <2>1, <2>2, <1>0, PeekedBounds DEF CanSend, TerminalDue, available
  <2> QED  BY <2>1, <2>3 DEF CanSend, Finished, Count, EffectiveWindow, Lesser
<1> DEFINE Same == UNCHANGED <<Count, connected, terminalEvent, terminalEventSent, sentNotAcked, Finished>>
<1>2. ASSUME sender = "wait", reader # "signal", lock = "ack" => local.pos = 0, Same, rwndSize' = rwndSize
      PROVE  ~CanSend'
  BY <1>2, <1>0 DEF SenderIdle, CanSend, EffectiveWindow, Lesser
<1>3. CASE AttachReader \/ ReadLoopCheck \/ Pty \/ ReadLoopBlocks \/ ReadLoopResumes
  BY <1>2, <1>3 DEF AttachReader, ReadLoopCheck, Pty, ReadPty, ReadLoopBlocks, ReadLoopResumes, Count, Finished
<1>4. CASE ReadLoopWrites \/ ReadLoopSignals \/ HandleTerminal
  BY <1>4, <1>S DEF ReadLoopWrites, ReadLoopSignals, HandleTerminal
<1>5. CASE SenderLooks \/ SenderStops \/ SenderTakesTerminal \/ SenderTakesData \/ SendData
  BY <1>5 DEF SenderLooks, SenderStops, SenderTakesTerminal, SenderTakesData, SendData, Prepared
<1>6. CASE Connect \/ ConnectRereadsHead
  BY <1>2, <1>6, <1>0 DEF Connect, ConnectReadsHead, ConnectRereadsHead, Count, Finished
<1>7. CASE ConnectConsumes
  <2>1. ~connected' /\ ~Finished'
    BY <1>7, <1>0 DEF ConnectConsumes, LockPlace, Finished
  <2> QED  BY <2>1 DEF CanSend
<1>8. CASE ConnectFinishes \/ ClientDisconnected \/ Close
  <2>1. Signal  BY <1>8, Zenon DEF ConnectFinishes, ClientDisconnected, Close
  <2> QED  BY <2>1, <1>S
<1>9. ASSUME NEW ack \in Acks, RecvFinAck(ack) PROVE ~CanSend'
  BY <1>9, <1>S DEF RecvFinAck
<1>10. ASSUME NEW ack \in Acks, RecvBadAck(ack) PROVE ~CanSend'
  BY <1>2, <1>10 DEF RecvBadAck, Count, Finished
<1>11. ASSUME NEW ack \in Acks, RecvAck(ack) PROVE ~CanSend'
  <2>1. ack.seq \in 0 .. MaxTotal  BY <1>11 DEF Acks
  <2>2. ack.seq \in Nat  BY <2>1, StreamAssumption
  <2>3. local'.pos = ack.seq - head /\ lock' = "ack"  BY <1>11 DEF RecvAck, NoLocal
  <2>4. ack.seq = head  BY <2>2, <2>3, <1>0 DEF TypeOK
  <2>5. /\ UNCHANGED <<connected, terminalEvent, terminalEventSent, rwndSize, terminalEventAcked, closed, sender, reader>>
        /\ sentNotAcked' = sentNotAcked - (ack.seq - head) /\ lock = "free"
    BY <1>11 DEF RecvAck
  <2>6. sentNotAcked' = sentNotAcked  BY <2>4, <2>5, <1>0 DEF TypeOK
  <2>7. head' = head /\ total' = total  BY <2>2, <2>4, <1>11, <1>0 DEF RecvAck, TypeOK
  <2> QED  BY <1>2, <2>5, <2>6, <2>7 DEF Count, Finished
<1>12. CASE AckMovesWindow
  <2>1. total' = total /\ head' = head  BY <1>12, WindowMoves DEF MovesWindow
  <2>2. ~(local.rwnd > rwndSize \/ local.pos > 0) /\ sender = "wait" /\ rwndSize' = local.rwnd
        /\ UNCHANGED <<connected, terminalEvent, terminalEventSent, sentNotAcked, terminalEventAcked, closed, reader>>
    BY <1>12, <1>S DEF AckMovesWindow
  <2>3. local.pos = 0 /\ rwndSize' <= rwndSize /\ rwndSize \in Nat /\ rwndSize' \in Nat /\ sentNotAcked \in Nat
    BY <2>2, <1>0 DEF TypeOK
  <2>4. ~CanSend  BY <2>2, <2>3, <1>0 DEF SenderIdle
  <2>5. EffectiveWindow(rwndSize') > sentNotAcked => EffectiveWindow(rwndSize) > sentNotAcked
    BY <2>3, <1>C DEF EffectiveWindow, Lesser
  <2> QED  BY <2>1, <2>2, <2>4, <2>5 DEF CanSend, Finished, Count, EffectiveWindow
<1>13. ASSUME NEW rwnd \in Rwnds, SetRwndSize(rwnd) PROVE ~CanSend'
  BY <1>13, <1>S DEF SetRwndSize
<1>14. CASE Ack  BY <1>9, <1>10, <1>11, <1>14 DEF Ack
<1>15. CASE ReadLoop \/ SenderLoop  BY <1>1, <1>3, <1>4, <1>5, <1>15 DEF ReadLoop, SenderLoop
<1>16. CASE Handlers  BY <1>6, <1>7, <1>8, <1>12, <1>16 DEF Handlers
<1> QED  BY <1>3, <1>5, <1>6, <1>8, <1>13, <1>14, <1>15, <1>16 DEF Next

LEMMA StepInv == Inv /\ [Next]_vars => Inv'
<1>1. Inv /\ Next => Inv'
  BY TypeStep, BufferStep, LockStep, SendingStep, SenderStep DEF Inv, Sending
<1>2. Inv /\ UNCHANGED vars => Inv'
  <2> USE DEF vars, buffer, session, ending, locking, reading, sending, client
  <2>1. Inv /\ UNCHANGED vars => TypeOK' /\ BufferBounded' /\ SessionWindow' /\ ReaderPlace'
    BY DEF Inv, TypeOK, BufferBounded, SessionWindow, ReaderPlace, Count, EffectiveWindow
  <2>2. Inv /\ UNCHANGED vars => LockPlace' /\ PacketPlace' /\ SendsInOrder'
    BY DEF Inv, LockPlace, PacketPlace, SendsInOrder, Count, Finished
  <2>3. Inv /\ UNCHANGED vars => SenderIdle' /\ InFlightIsHeld' /\ EndAckedLast'
    BY DEF Inv, SenderIdle, CanSend, Finished, Count, EffectiveWindow, InFlightIsHeld, EndAckedLast
  <2> QED  BY <2>1, <2>2, <2>3 DEF Inv
<1> QED  BY <1>1, <1>2

\* The inductive invariant holds of every behaviour of the stream manager.
THEOREM InvHolds == Spec => []Inv
BY InitInv, StepInv, PTL DEF Spec

\* Type correctness of the whole stream manager.
THEOREM TypeCorrect == Spec => []TypeOK
<1>1. Inv => TypeOK  BY DEF Inv
<1> QED  BY <1>1, InvHolds, PTL

\* Every packet of a stream starts where the one before it ended, and the bytes
\* in flight are exactly those behind the head that the buffer still holds.
THEOREM PacketsInOrder == Spec => [](SendsInOrder /\ InFlightIsHeld)
<1>1. Inv => SendsInOrder /\ InFlightIsHeld  BY DEF Inv
<1> QED  BY <1>1, InvHolds, PTL

\* The end of the job's output is only acknowledged after all of its bytes.
THEOREM EndComesLast == Spec => []EndAckedLast
<1>1. Inv => EndAckedLast  BY DEF Inv
<1> QED  BY <1>1, InvHolds, PTL

\* No wakeup of senderLoop is lost: it never sleeps on drainCond beside work.
THEOREM SenderWoken == Spec => []SenderSleepsOnlyIdle
<1>1. Inv => SenderSleepsOnlyIdle  BY DEF Inv, SenderIdle, SenderSleepsOnlyIdle
<1> QED  BY <1>1, InvHolds, PTL

\* The PTY goroutine and senderLoop never wait for each other: when both sleep,
\* bytes are in flight or the client closed its window.
THEOREM NoMutualWait == Spec => []NoFlowControlDeadlock
<1>1. Inv => NoFlowControlDeadlock
  <2> SUFFICES ASSUME Inv, connected, lock = "free", reader = "blocked", waiting, sender = "wait",
                      ~(sentNotAcked > 0), rwndSize # 0
               PROVE  FALSE
    BY DEF NoFlowControlDeadlock
  <2>0. TypeOK /\ SessionWindow /\ ReaderPlace /\ SenderIdle  BY DEF Inv
  <2>1. CwndSize \in Nat \ {0} /\ CirBufSize \in Nat \ {0}  BY StreamAssumption
  <2>2. ~CanSend  BY <2>0 DEF SenderIdle
  <2>3. sentNotAcked = 0 /\ rwndSize \in Nat \ {0}  BY <2>0 DEF TypeOK
  <2>4. EffectiveWindow(rwndSize) \in Nat \ {0}  BY <2>1, <2>3 DEF EffectiveWindow, Lesser
  <2>5. windowSize \in Nat \ {0}  BY <2>0, <2>1, <2>4 DEF SessionWindow, Lesser
  <2>6. Count >= windowSize  BY <2>0 DEF ReaderPlace
  <2>7. Count > sentNotAcked /\ EffectiveWindow(rwndSize) > sentNotAcked
    BY <2>0, <2>3, <2>4, <2>5, <2>6 DEF TypeOK, Count
  <2> QED  BY <2>2, <2>7 DEF CanSend
<1> QED  BY <1>1, InvHolds, PTL

\* While a client is connected a byte only leaves the buffer once it was acked,
\* and only bytes that were sent are.
THEOREM OutputKept == Spec => ConnectedOutputIsKept
<1> DEFINE Kept == connected /\ head' # head => head' = maxAckedSeq' /\ head' <= sentEnd[streamId]
<1>1. Inv /\ [Next]_vars => [Kept]_vars
  <2> SUFFICES ASSUME Inv, Next, connected, head' # head
               PROVE  head' = maxAckedSeq' /\ head' <= sentEnd[streamId]
    OBVIOUS
  <2>0. TypeOK /\ SessionWindow /\ ReaderPlace /\ LockPlace /\ BufferBounded  BY DEF Inv
  <2>1. ~Quiet /\ ~MovesWindow  BY QuietKeeps, WindowMoves
  <2>2. ~ReadLoop
    <3>1. ASSUME ReadLoopWrites PROVE FALSE
      <4>1. reader = "write" /\ left > 0 /\ Accepted(left) > 0 /\ head' = HeadAfterWrite(Accepted(left))
        BY <3>1, <2>0 DEF ReadLoopWrites, ReaderPlace
      <4>2. syncMode  BY <2>0 DEF SessionWindow
      <4> QED  BY <4>1, <4>2, <2>0, WriteStores
    <3> QED  BY <3>1 DEF ReadLoop, AttachReader, ReadLoopCheck, ReadLoopBlocks, ReadLoopResumes,
                         ReadLoopSignals, HandleTerminal, buffer
  <2>3. ~Pty  BY DEF Pty, ReadPty, buffer
  <2>4. ~ConnectConsumes  BY <2>0 DEF ConnectConsumes, LockPlace
  <2>5. Ack  BY <2>1, <2>2, <2>3, <2>4 DEF Next, Handlers, Quiet, MovesWindow
  <2>6. PICK ack \in Acks : ack.id = streamId /\ ack.seq <= sentEnd[streamId] /\ RecvAck(ack)
    BY <2>1, <2>5 DEF Ack, Quiet
  <2>7. head' = ack.seq /\ maxAckedSeq' = ack.seq
    BY <2>6 DEF RecvAck, ConsumeTo, buffer
  <2> QED  BY <2>6, <2>7
<1> QED  BY <1>1, InvHolds, PTL DEF Spec, ConnectedOutputIsKept
=============================================================================
