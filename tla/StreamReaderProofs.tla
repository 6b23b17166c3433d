------------------------- MODULE StreamReaderProofs -------------------------
(***************************************************************************)
(* The output's way to the screen.  The reader rebuilds the stream for every*)
(* window, every packet and read size and every gap: Inv of StreamReader is*)
(* inductive.  The terminal shows its file whatever pages came and went:   *)
(* TermInv of the second part is inductive for TermWrap.  In each part the *)
(* lemmas about sequences come first; then one lemma per action, or per part*)
(* of the invariant.                                                       *)
(***************************************************************************)
EXTENDS StreamReader, TermWrap, SequenceTheorems, TLAPS

\* A stretch of the stream is as long as it says.
LEMMA BytesLen ==
  \A seq, len \in Nat : Bytes(seq, len) \in Seq(Nat) /\ Len(Bytes(seq, len)) = len
<1> SUFFICES ASSUME NEW seq \in Nat, NEW len \in Nat
             PROVE  Bytes(seq, len) \in Seq(Nat) /\ Len(Bytes(seq, len)) = len
  OBVIOUS
<1>1. \A i \in 1 .. len : seq + i - 1 \in Nat
  OBVIOUS
<1> QED
  BY <1>1 DEF Bytes

\* Adjacent stretches make one, and an empty one is no sequence at all.
LEMMA BytesJoin ==
  \A seq, m, n \in Nat : Bytes(seq, m) \o Bytes(seq + m, n) = Bytes(seq, m + n)
<1> SUFFICES ASSUME NEW seq \in Nat, NEW m \in Nat, NEW n \in Nat
             PROVE  Bytes(seq, m) \o Bytes(seq + m, n) = Bytes(seq, m + n)
  OBVIOUS
<1> DEFINE s == Bytes(seq, m)  t == Bytes(seq + m, n)  u == Bytes(seq, m + n)
<1>0. seq + m \in Nat /\ m + n \in Nat
  OBVIOUS
<1>1. /\ s \in Seq(Nat) /\ Len(s) = m
      /\ t \in Seq(Nat) /\ Len(t) = n
      /\ u \in Seq(Nat) /\ Len(u) = m + n
  BY <1>0, BytesLen, Zenon
<1>2. /\ \A i \in 1 .. m : s[i] = seq + i - 1
      /\ \A i \in 1 .. n : t[i] = seq + m + i - 1
      /\ \A i \in 1 .. m + n : u[i] = seq + i - 1
  BY DEF Bytes
<1> HIDE DEF s, t, u
<1>3. /\ s \o t \in Seq(Nat) /\ Len(s \o t) = m + n
      /\ \A i \in 1 .. m + n : (s \o t)[i] = IF i <= m THEN s[i] ELSE t[i - m]
  BY <1>1, ConcatProperties
<1>4. ASSUME NEW i \in 1 .. m + n PROVE (s \o t)[i] = u[i]
  <2>1. CASE i <= m
    <3>1. i \in 1 .. m
      BY <2>1
    <3> QED
      BY <2>1, <3>1, <1>2, <1>3
  <2>2. CASE i > m
    <3>1. i - m \in 1 .. n /\ seq + m + (i - m) - 1 = seq + i - 1
      BY <2>2
    <3>2. (s \o t)[i] = t[i - m]
      BY <2>2, <1>3
    <3>3. t[i - m] = seq + m + (i - m) - 1
      BY <3>1, <1>2
    <3>4. u[i] = seq + i - 1
      BY <1>2
    <3> QED
      BY <3>1, <3>2, <3>3, <3>4
  <2>3. i <= m \/ i > m
    OBVIOUS
  <2> QED
    BY <2>1, <2>2, <2>3, Zenon
<1>5. s \o t = u
  BY <1>1, <1>3, <1>4, SeqEqual
<1> QED
  BY <1>5 DEF s, t, u

LEMMA BytesNone == \A seq \in Nat : Bytes(seq, 0) = <<>>
<1> SUFFICES ASSUME NEW seq \in Nat PROVE Bytes(seq, 0) = <<>>
  OBVIOUS
<1> QED
  BY BytesLen, EmptySeq

\* Reading from the front of the buffer moves bytes and loses none.
LEMMA ReadKeeps ==
  ASSUME NEW b \in Seq(Nat), NEW r \in Seq(Nat), NEW n \in 0 .. Len(b)
  PROVE  /\ SubSeq(b, 1, n) \in Seq(Nat) /\ Len(SubSeq(b, 1, n)) = n
         /\ SubSeq(b, n + 1, Len(b)) \in Seq(Nat)
         /\ Len(SubSeq(b, n + 1, Len(b))) = Len(b) - n
         /\ (r \o SubSeq(b, 1, n)) \o SubSeq(b, n + 1, Len(b)) = r \o b
<1> DEFINE front == SubSeq(b, 1, n)  back == SubSeq(b, n + 1, Len(b))
<1>1. Len(b) \in Nat /\ n \in Nat /\ \A i \in 1 .. Len(b) : b[i] \in Nat
  BY LenProperties
<1>2. front \in Seq(Nat) /\ Len(front) = n
  BY <1>1, SubSeqProperties
<1>3. back \in Seq(Nat) /\ Len(back) = Len(b) - n
  BY <1>1, SubSeqProperties
<1>4. front \o back = b
  <2>1. front \o back = SubSeq(b, 1, Len(b))
    <3>1. 1 \in 1 .. Len(b) + 1 /\ n \in 1 - 1 .. Len(b) /\ Len(b) \in n .. Len(b)
      BY <1>1
    <3> QED
      BY <3>1, ConcatAdjacentSubSeq
  <2> QED
    BY <2>1, SubSeqFull
<1>5. (r \o front) \o back = r \o (front \o back)
  <2> HIDE DEF front, back
  <2>1. front \in Seq(Nat) /\ back \in Seq(Nat)
    BY <1>2, <1>3
  <2> QED
    BY <2>1
<1> QED
  BY <1>2, <1>3, <1>4, <1>5

-----------------------------------------------------------------------------
(* What an action that acks, or that takes in a packet, does to Inv         *)

\* The bytes read and buffered are the ones up to nextSeq.
LEMMA Lengths ==
  Inv => /\ Len(buffer) \in Nat /\ Len(received) \in Nat
         /\ Len(received) + Len(buffer) = IF synced THEN nextSeq - start ELSE 0
<1> SUFFICES ASSUME Inv
             PROVE  /\ Len(buffer) \in Nat /\ Len(received) \in Nat
                    /\ Len(received) + Len(buffer) = IF synced THEN nextSeq - start ELSE 0
  OBVIOUS
<1> DEFINE k == IF synced THEN nextSeq - start ELSE 0
<1>1. buffer \in Seq(Nat) /\ received \in Seq(Nat) /\ start \in Nat /\ nextSeq \in Nat
  BY DEF Inv, TypeOK
<1>2. k \in Nat
  BY <1>1 DEF Inv, ReaderPlace
<1>3. received \o buffer = Bytes(start, k)
  BY DEF Inv, InOrderExactlyOnce
<1>4. Len(Bytes(start, k)) = k
  BY <1>1, <1>2, BytesLen
<1>5. Len(received \o buffer) = Len(received) + Len(buffer)
  BY <1>1, ConcatProperties
<1> QED
  BY <1>1, <1>3, <1>4, <1>5, LenProperties

\* An ack with the current fields tells the source the whole free window.
LEMMA AckSent ==
  ASSUME Inv, NEW f \in BOOLEAN, NEW c \in BOOLEAN, SendAck(nextSeq, Len(buffer), f, c)
  PROVE  /\ lastRwndSent' = ReadWindow - Len(buffer)
         /\ lastRwndSent' \in 0 .. ReadWindow
         /\ ack' \in [seq : Nat, rwnd : 0 .. ReadWindow, fin : BOOLEAN, cancel : BOOLEAN]
         /\ ack'.seq = nextSeq /\ ack'.rwnd = ReadWindow - Len(buffer)
         /\ ack'.seq + ack'.rwnd <= start + Len(received) + ReadWindow
         /\ synced => ack'.seq + ack'.rwnd = start + Len(received) + ReadWindow
<1>1. Len(buffer) \in Nat /\ Len(buffer) <= ReadWindow /\ ReadWindow \in Nat /\ nextSeq \in Nat
  BY Lengths, ReaderAssumption DEF Inv, BufferWithinWindow, TypeOK
<1>2. Window(ReadWindow - Len(buffer)) = ReadWindow - Len(buffer)
  BY <1>1 DEF Window
<1>3. ReadWindow - Len(buffer) \in 0 .. ReadWindow
  BY <1>1
<1>4. /\ lastRwndSent' = ReadWindow - Len(buffer)
      /\ ack' = [seq |-> nextSeq, rwnd |-> ReadWindow - Len(buffer), fin |-> f, cancel |-> c]
  BY <1>2 DEF SendAck
<1>5. ack' \in [seq : Nat, rwnd : 0 .. ReadWindow, fin : BOOLEAN, cancel : BOOLEAN]
  BY <1>1, <1>3, <1>4
<1>6. ack'.seq = nextSeq /\ ack'.rwnd = ReadWindow - Len(buffer)
  BY <1>4
<1>7. /\ Len(received) \in Nat /\ start \in Nat
      /\ Len(received) + Len(buffer) = IF synced THEN nextSeq - start ELSE 0
      /\ ~synced => nextSeq = 0
  BY Lengths DEF Inv, TypeOK, ReaderPlace
<1> QED
  BY <1>1, <1>3, <1>4, <1>5, <1>6, <1>7

\* An action that only acks, and at most drops what was kept for later, keeps Inv.
LEMMA AckOnly ==
  ASSUME Inv, NEW f \in BOOLEAN, NEW c \in BOOLEAN, SendAck(nextSeq, Len(buffer), f, c),
         UNCHANGED <<nextSeq, buffer, eof, received, synced, source>>,
         oooPackets' \subseteq oooPackets, delivering' => delivering, delivering' \in BOOLEAN,
         err' \in {"none", "stream", "closed"}, closed' \in BOOLEAN, DataNotStuck'
  PROVE  Inv'
<1> USE DEF Inv
<1>1. /\ lastRwndSent' = ReadWindow - Len(buffer)
      /\ lastRwndSent' \in 0 .. ReadWindow
      /\ ack' \in [seq : Nat, rwnd : 0 .. ReadWindow, fin : BOOLEAN, cancel : BOOLEAN]
      /\ ack'.seq = nextSeq /\ ack'.rwnd = ReadWindow - Len(buffer)
      /\ ack'.seq + ack'.rwnd <= start + Len(received) + ReadWindow
  BY AckSent
<1>2. TypeOK'
  BY <1>1 DEF TypeOK, source
<1>3. PacketPlace'
  BY DEF PacketPlace, source
<1>4. ReaderPlace'
  BY <1>1, Lengths DEF ReaderPlace, source, TypeOK
<1>5. WindowPlace'
  BY <1>1 DEF WindowPlace, source, TypeOK
<1>6. InOrderExactlyOnce' /\ EofBehindLastByte' /\ BufferWithinWindow'
  BY DEF InOrderExactlyOnce, EofBehindLastByte, BufferWithinWindow, source
<1>7. WindowReopens'
  <2>1. Window(ReadWindow - Len(buffer)) - lastRwndSent' = 0
    BY <1>1, Lengths, ReaderAssumption DEF BufferWithinWindow, Window
  <2>2. 0 < IF ReadWindow < 5 THEN 1 ELSE ReadWindow \div 5
    BY ReaderAssumption
  <2>3. buffer = <<>> => lastRwndSent' = ReadWindow
    BY <1>1, ReaderAssumption
  <2> QED
    BY <2>1, <2>2, <2>3 DEF WindowReopens
<1> QED
  BY <1>2, <1>3, <1>4, <1>5, <1>6, <1>7

\* Taking in the packet whose turn it is, and dropping it from what was kept, keeps Inv.
LEMMA Advance ==
  ASSUME Inv, NEW pk \in packets, pk.kind # "error", Expected(pk), recvDataOrdered(pk),
         UNCHANGED <<err, closed, lastRwndSent, ack, received, synced, source>>,
         oooPackets' \subseteq oooPackets, pk.kind = "data" => pk \notin oooPackets',
         delivering' = TRUE
  PROVE  Inv'
<1> USE DEF Inv
<1>1. /\ nextSeq \in Nat /\ start \in Nat /\ sent \in Nat /\ ReadWindow \in Nat
      /\ buffer \in Seq(Nat) /\ received \in Seq(Nat)
      /\ pk.kind \in {"data", "eof"} /\ pk.len \in Nat /\ pk.seq = nextSeq
  <2>1. pk \in PacketsOfStream
    BY DEF TypeOK
  <2> QED
    BY <2>1, ReaderAssumption DEF TypeOK, PacketsOfStream, Expected
<1>2. IF pk.kind = "data" THEN pk.len > 0 /\ start <= pk.seq /\ pk.seq + pk.len <= sent
                          ELSE pk.len = 0 /\ pk.seq = sent /\ pk.kind = ended
  BY DEF PacketPlace
<1>3. synced /\ start <= nextSeq /\ nextSeq <= sent
  BY <1>1, <1>2 DEF ReaderPlace
<1>4. /\ nextSeq' = nextSeq + pk.len /\ buffer' = buffer \o Bytes(nextSeq, pk.len)
      /\ eof' = (eof \/ pk.kind = "eof")
  BY <1>1 DEF recvDataOrdered
<1>5. nextSeq' \in Nat /\ nextSeq <= nextSeq' /\ nextSeq' <= sent
  BY <1>1, <1>2, <1>3, <1>4
<1>6. /\ Bytes(nextSeq, pk.len) \in Seq(Nat) /\ Len(Bytes(nextSeq, pk.len)) = pk.len
  BY <1>1, BytesLen
<1>7. buffer' \in Seq(Nat) /\ Len(buffer') = Len(buffer) + pk.len
  <2> DEFINE more == Bytes(nextSeq, pk.len)
  <2>1. buffer' = buffer \o more /\ more \in Seq(Nat) /\ Len(more) = pk.len
    BY <1>4, <1>6
  <2> HIDE DEF more
  <2>2. /\ buffer \o more \in Seq(Nat)
        /\ Len(buffer \o more) = Len(buffer) + Len(more)
    BY <1>1, <2>1, ConcatProperties
  <2> QED
    BY <2>1, <2>2
<1>8. TypeOK'
  <2>1. eof' \in BOOLEAN
    BY <1>4
  <2> QED
    BY <1>5, <1>7, <2>1 DEF TypeOK, source
<1>9. PacketPlace'
  BY DEF PacketPlace, source
<1>10. ReaderPlace'
  <2>1. ASSUME NEW q \in oooPackets', q.kind = "data" PROVE q.seq >= nextSeq'
    <3>1. q \in oooPackets /\ q \in packets
      BY DEF PacketPlace
    <3>2. q.seq \in Nat /\ q.len \in Nat /\ q.len > 0 /\ q.seq >= nextSeq
      BY <2>1, <3>1 DEF PacketPlace, ReaderPlace, TypeOK, PacketsOfStream
    <3>3. CASE pk.kind = "data"
      <4>1. pk.seq + pk.len <= q.seq \/ q.seq + q.len <= pk.seq
        BY <2>1, <3>1, <3>3 DEF PacketPlace
      <4> QED
        BY <1>1, <1>4, <3>2, <4>1
    <3>4. CASE pk.kind # "data"
      BY <1>1, <1>2, <1>4, <3>2, <3>4
    <3> QED
      BY <3>3, <3>4, Zenon
  <2> QED
    BY <1>1, <1>3, <1>5, <2>1 DEF ReaderPlace, source
<1>11. WindowPlace'
  <2>1. ack.seq \in Nat
    BY DEF TypeOK
  <2> QED
    BY <1>1, <1>5, <2>1 DEF WindowPlace, source
<1>12. InOrderExactlyOnce'
  <2> DEFINE more == Bytes(nextSeq, pk.len)
  <2>1. received \o (buffer \o more) = (received \o buffer) \o more
    <3>1. more \in Seq(Nat) /\ buffer \in Seq(Nat) /\ received \in Seq(Nat)
      BY <1>1, <1>6
    <3> HIDE DEF more
    <3> QED
      BY <3>1
  <2>2. received \o buffer = Bytes(start, nextSeq - start)
    BY <1>3 DEF InOrderExactlyOnce
  <2>3. /\ nextSeq - start \in Nat /\ start + (nextSeq - start) = nextSeq
        /\ (nextSeq - start) + pk.len = nextSeq' - start
    BY <1>1, <1>3, <1>4
  <2>4. Bytes(start, nextSeq - start) \o Bytes(start + (nextSeq - start), pk.len)
          = Bytes(start, (nextSeq - start) + pk.len)
    <3> DEFINE k == nextSeq - start
    <3>1. k \in Nat /\ start \in Nat /\ pk.len \in Nat
      BY <1>1, <2>3
    <3> HIDE DEF k
    <3>2. Bytes(start, k) \o Bytes(start + k, pk.len) = Bytes(start, k + pk.len)
      BY <3>1, BytesJoin, Zenon
    <3> QED
      BY <3>2 DEF k
  <2>5. received \o buffer' = Bytes(start, nextSeq' - start)
    BY <1>4, <2>1, <2>2, <2>3, <2>4
  <2> QED
    BY <1>3, <2>5 DEF InOrderExactlyOnce, source
<1>13. EofBehindLastByte'
  <2>1. CASE pk.kind = "eof"
    <3>1. ended' = ended /\ sent' = sent
      BY DEF source
    <3>2. ended = "eof" /\ nextSeq' = sent
      BY <1>1, <1>2, <1>4, <2>1
    <3> QED
      BY <3>1, <3>2 DEF EofBehindLastByte
  <2>2. CASE pk.kind # "eof"
    <3>1. nextSeq # sent
      BY <1>1, <1>2, <2>2
    <3>2. eof' = eof /\ ~eof
      BY <1>4, <2>2, <3>1 DEF EofBehindLastByte, TypeOK
    <3> QED
      BY <3>2, Zenon DEF EofBehindLastByte
  <2> QED
    BY <2>1, <2>2, Zenon
<1>14. BufferWithinWindow'
  <2>1. /\ Len(buffer) \in Nat /\ Len(received) \in Nat
        /\ Len(received) + Len(buffer) = nextSeq - start
    BY <1>3, Lengths
  <2>2. sent <= start + Len(received) + ReadWindow
    BY DEF WindowPlace
  <2> QED
    BY <1>1, <1>3, <1>4, <1>5, <1>7, <2>1, <2>2 DEF BufferWithinWindow
<1>15. DataNotStuck' /\ WindowReopens'
  BY DEF DataNotStuck, WindowReopens, LockFree
<1> QED
  BY <1>8, <1>9, <1>10, <1>11, <1>12, <1>13, <1>14, <1>15

-----------------------------------------------------------------------------
(* Inv is inductive                                                        *)

LEMMA InitInv == Init => Inv
<1> SUFFICES ASSUME Init PROVE Inv
  OBVIOUS
<1>1. /\ start \in Nat /\ ReadWindow \in Nat /\ ReadWindow > 0
      /\ nextSeq = 0 /\ buffer = <<>> /\ received = <<>> /\ Len(buffer) = 0 /\ Len(received) = 0
  BY ReaderAssumption DEF Init
<1>0. synced \in BOOLEAN /\ (synced <=> start = 0)
  BY Zenon DEF Init
<1>2. TypeOK
  <2>1. ack \in [seq : Nat, rwnd : 0 .. ReadWindow, fin : BOOLEAN, cancel : BOOLEAN]
    BY <1>1 DEF Init
  <2> QED
    <3>1. /\ nextSeq \in Nat /\ buffer \in Seq(Nat) /\ received \in Seq(Nat) /\ sent \in Nat
          /\ lastRwndSent \in 0 .. ReadWindow
      BY <1>1 DEF Init
    <3>2. /\ eof \in BOOLEAN /\ closed \in BOOLEAN /\ delivering \in BOOLEAN
          /\ err \in {"none", "stream", "closed"} /\ ended \in {"none", "eof", "error"}
          /\ oooPackets \subseteq PacketsOfStream /\ packets \subseteq PacketsOfStream
      BY DEF Init
    <3> QED
      BY <1>0, <1>1, <2>1, <3>1, <3>2, Zenon DEF TypeOK
<1>3. PacketPlace
  BY DEF Init, PacketPlace
<1>4. ReaderPlace
  BY <1>0, <1>1 DEF Init, ReaderPlace
<1>5. WindowPlace
  BY <1>1 DEF Init, WindowPlace
<1>6. InOrderExactlyOnce
  <2>1. (IF synced THEN nextSeq - start ELSE 0) = 0
    <3>1. CASE synced
      <4>1. nextSeq = 0 /\ start = 0
        BY <1>0, <1>1, <3>1, Zenon
      <4> QED
        BY <3>1, <4>1
    <3>2. CASE ~synced
      BY <3>2
    <3> QED
      BY <3>1, <3>2, Zenon
  <2>2. received \o buffer = <<>>
    BY <1>1
  <2> QED
    BY <1>1, <2>1, <2>2, BytesNone DEF InOrderExactlyOnce
<1>7. EofBehindLastByte /\ BufferWithinWindow /\ DataNotStuck
  BY <1>1 DEF Init, EofBehindLastByte, BufferWithinWindow, DataNotStuck
<1>8. WindowReopens
  <2>1. Window(ReadWindow - Len(buffer)) - lastRwndSent = 0
    BY <1>1 DEF Init, Window
  <2>2. 0 < IF ReadWindow < 5 THEN 1 ELSE ReadWindow \div 5
    BY ReaderAssumption
  <2> QED
    BY <2>1, <2>2 DEF Init, WindowReopens
<1> QED
  BY <1>2, <1>3, <1>4, <1>5, <1>6, <1>7, <1>8 DEF Inv

LEMMA RecvErrorInv == ASSUME Inv, NEW pk \in packets, RecvError(pk) PROVE Inv'
<1>1. DataNotStuck'
  BY DEF RecvError, DataNotStuck, Open
<1> QED
  BY <1>1, AckOnly DEF RecvError, Inv, TypeOK

LEMMA CloseReaderInv == ASSUME Inv, CloseReader PROVE Inv'
<1>1. DataNotStuck'
  BY DEF CloseReader, DataNotStuck, Open
<1>2. err' \in {"none", "stream", "closed"}
  BY DEF CloseReader, Inv, TypeOK
<1> QED
  BY <1>1, <1>2, AckOnly DEF CloseReader, Inv, TypeOK

\* The loop stops at the first packet whose turn has not come: nothing behind it has.
LEMMA DeliveredInv == ASSUME Inv, Delivered PROVE Inv'
<1> USE DEF Inv
<1>1. DataNotStuck'
  <2> SUFFICES ASSUME Open', NEW pk \in oooPackets', pk.kind = "data" PROVE pk.seq > nextSeq'
    BY DEF DataNotStuck
  <2>1. ~eof /\ oooPackets' = oooPackets /\ nextSeq' = nextSeq
    BY DEF Delivered, Open
  <2>2. synced /\ ~\E p \in oooPackets : NextPending(p)
    BY <2>1 DEF Delivered, ReaderPlace
  <2>3. pk.seq \in Nat /\ nextSeq \in Nat /\ pk.seq >= nextSeq
    BY <2>1 DEF ReaderPlace, TypeOK, PacketsOfStream
  <2>4. ASSUME pk.seq = nextSeq PROVE FALSE
    <3>1. ASSUME NEW p \in oooPackets PROVE pk.seq <= p.seq
      <4>1. p \in packets /\ p.seq \in Nat /\ sent \in Nat
        BY DEF PacketPlace, TypeOK, PacketsOfStream
      <4>2. CASE p.kind = "data"
        BY <2>3, <2>4, <4>1, <4>2 DEF ReaderPlace
      <4>3. CASE p.kind # "data"
        BY <2>2, <2>3, <2>4, <4>1, <4>3 DEF ReaderPlace, PacketPlace
      <4> QED
        BY <4>2, <4>3, Zenon
    <3> QED
      BY <2>1, <2>2, <2>4, <3>1 DEF NextPending, FirstPending
  <2> QED
    BY <2>1, <2>3, <2>4
<1>2. eof \in BOOLEAN /\ err \in {"none", "stream", "closed"} /\ closed \in BOOLEAN
  BY DEF TypeOK
<1>3. oooPackets' \subseteq oooPackets
  BY DEF Delivered
<1> QED
  BY <1>1, <1>2, <1>3, AckOnly DEF Delivered

LEMMA RecvEarlyInv == ASSUME Inv, NEW pk \in packets, RecvEarly(pk) PROVE Inv'
<1> USE DEF Inv, RecvEarly
<1>1. oooPackets' \subseteq oooPackets \cup {pk}
  BY DEF addOOOPacket
<1>2. TypeOK'
  BY <1>1 DEF TypeOK, source
<1>3. PacketPlace'
  BY <1>1 DEF PacketPlace, source
<1>4. pk.seq >= nextSeq /\ pk.seq > nextSeq
  BY DEF TypeOK, PacketsOfStream
<1>5. ReaderPlace'
  BY <1>1, <1>4 DEF ReaderPlace, source
<1>6. WindowPlace' /\ InOrderExactlyOnce' /\ EofBehindLastByte' /\ BufferWithinWindow'
  BY DEF WindowPlace, InOrderExactlyOnce, EofBehindLastByte, BufferWithinWindow, source
<1>7. DataNotStuck'
  BY <1>1, <1>4 DEF DataNotStuck, LockFree, Open
<1>8. WindowReopens'
  BY DEF WindowReopens, LockFree, Open
<1> QED
  BY <1>2, <1>3, <1>5, <1>6, <1>7, <1>8

LEMMA RecvInOrderInv == ASSUME Inv, NEW pk \in packets, RecvInOrder(pk) PROVE Inv'
<1>1. pk.kind = "data" => pk \notin oooPackets
  BY DEF Inv, RecvInOrder, DataNotStuck, Expected, TypeOK
<1> QED
  BY <1>1, Advance DEF RecvInOrder

LEMMA DeliverPendingInv == ASSUME Inv, NEW pk \in oooPackets, DeliverPending(pk) PROVE Inv'
<1>1. pk \in packets /\ Expected(pk)
  BY DEF Inv, PacketPlace, DeliverPending, NextPending, Expected
<1>2. pk.kind # "error" /\ delivering' = TRUE /\ oooPackets' = oooPackets \ {pk}
  BY DEF DeliverPending, Inv, PacketPlace, TypeOK
<1> QED
  BY <1>1, <1>2, Advance DEF DeliverPending

LEMMA ReadInv == ASSUME Inv, NEW size \in Nat, Read(size) PROVE Inv'
<1> USE DEF Inv
<1> DEFINE n == IF size < Len(buffer) THEN size ELSE Len(buffer)
           held == Len(buffer) - n
           acks == SendAck(nextSeq, held, FALSE, FALSE)
<1>1. /\ nextSeq \in Nat /\ start \in Nat /\ sent \in Nat /\ ReadWindow \in Nat /\ ReadWindow > 0
      /\ buffer \in Seq(Nat) /\ received \in Seq(Nat)
      /\ Len(buffer) \in Nat /\ Len(received) \in Nat /\ Len(buffer) <= ReadWindow
      /\ Len(received) + Len(buffer) = IF synced THEN nextSeq - start ELSE 0
  BY Lengths, ReaderAssumption DEF TypeOK, BufferWithinWindow
<1>2. n \in 0 .. Len(buffer) /\ held \in 0 .. ReadWindow /\ n + held = Len(buffer)
  BY <1>1
<1>3. /\ received' = received \o SubSeq(buffer, 1, n)
      /\ buffer' = SubSeq(buffer, n + 1, Len(buffer))
      /\ IF WorthAnAck(held) THEN acks ELSE UNCHANGED <<ack, lastRwndSent>>
      /\ buffer # <<>>
      /\ UNCHANGED <<nextSeq, eof, err, closed, oooPackets, delivering, synced, source>>
  BY DEF Read
<1>4. synced
  <2>1. Len(buffer) # 0
    BY <1>1, <1>3, EmptySeq
  <2> QED
    BY <1>1, <2>1
<1>5. /\ received' \in Seq(Nat) /\ buffer' \in Seq(Nat)
      /\ Len(buffer') = held /\ Len(received') = Len(received) + n
      /\ received' \o buffer' = received \o buffer
  <2> HIDE DEF n
  <2>1. /\ SubSeq(buffer, 1, n) \in Seq(Nat) /\ Len(SubSeq(buffer, 1, n)) = n
        /\ SubSeq(buffer, n + 1, Len(buffer)) \in Seq(Nat)
        /\ Len(SubSeq(buffer, n + 1, Len(buffer))) = Len(buffer) - n
        /\ (received \o SubSeq(buffer, 1, n)) \o SubSeq(buffer, n + 1, Len(buffer))
             = received \o buffer
    BY <1>1, <1>2, ReadKeeps
  <2> DEFINE front == SubSeq(buffer, 1, n)
  <2>2. front \in Seq(Nat) /\ Len(front) = n /\ received' = received \o front
    BY <1>3, <2>1
  <2>3. received' \in Seq(Nat) /\ Len(received') = Len(received) + n
    <3> HIDE DEF front
    <3>1. /\ received \o front \in Seq(Nat)
          /\ Len(received \o front) = Len(received) + Len(front)
      BY <1>1, <2>2, ConcatProperties
    <3> QED
      BY <2>2, <3>1
  <2> QED
    BY <1>3, <2>1, <2>3
<1> HIDE DEF n, held, acks
<1>6. Window(ReadWindow - held) = ReadWindow - held
  BY <1>1, <1>2 DEF Window
<1>7. acks => /\ lastRwndSent' = ReadWindow - held
              /\ ack' \in [seq : Nat, rwnd : 0 .. ReadWindow, fin : BOOLEAN, cancel : BOOLEAN]
              /\ ack'.seq = nextSeq /\ ack'.rwnd = ReadWindow - held
  <2> SUFFICES ASSUME acks
               PROVE  /\ lastRwndSent' = ReadWindow - held
                      /\ ack' \in [seq : Nat, rwnd : 0 .. ReadWindow, fin : BOOLEAN, cancel : BOOLEAN]
                      /\ ack'.seq = nextSeq /\ ack'.rwnd = ReadWindow - held
    OBVIOUS
  <2> DEFINE rwnd == ReadWindow - held
  <2>1. rwnd \in 0 .. ReadWindow
    BY <1>1, <1>2
  <2>2. lastRwndSent' = rwnd /\ ack' = [seq |-> nextSeq, rwnd |-> rwnd, fin |-> FALSE, cancel |-> FALSE]
    BY <1>6 DEF SendAck, acks
  <2> HIDE DEF rwnd
  <2>3. /\ ack' \in [seq : Nat, rwnd : 0 .. ReadWindow, fin : BOOLEAN, cancel : BOOLEAN]
        /\ ack'.seq = nextSeq /\ ack'.rwnd = rwnd
    BY <1>1, <2>1, <2>2
  <2> QED
    BY <2>2, <2>3 DEF rwnd
<1>8. TypeOK'
  <2>1. lastRwndSent' \in 0 .. ReadWindow
    BY <1>1, <1>2, <1>3, <1>7 DEF TypeOK
  <2>2. ack' \in [seq : Nat, rwnd : 0 .. ReadWindow, fin : BOOLEAN, cancel : BOOLEAN]
    BY <1>3, <1>7, Zenon DEF TypeOK
  <2> QED
    BY <1>3, <1>5, <2>1, <2>2 DEF TypeOK, source
<1>9. PacketPlace'
  BY <1>3 DEF PacketPlace, source
<1>10. ReaderPlace'
  BY <1>3, <1>4 DEF ReaderPlace, source
<1>11. WindowPlace'
  <2>1. ack.seq \in Nat /\ ack.rwnd \in Nat /\ n \in Nat
    BY <1>2, ReaderAssumption DEF TypeOK
  <2>2. /\ sent <= start + Len(received) + ReadWindow
        /\ ack.seq <= nextSeq /\ ack.seq + ack.rwnd <= start + Len(received) + ReadWindow
    BY DEF WindowPlace
  <2>3. sent' = sent /\ start' = start /\ nextSeq' = nextSeq
    BY <1>3 DEF source
  <2>4. CASE acks
    <3>1. ack'.seq = nextSeq /\ ack'.rwnd = ReadWindow - held
      BY <1>7, <2>4
    <3>2. nextSeq + (ReadWindow - held) = start + (Len(received) + n) + ReadWindow
      <4>1. Len(received) + Len(buffer) = nextSeq - start
        BY <1>1, <1>4, Zenon
      <4>2. held \in Nat /\ n \in Nat /\ n + held = Len(buffer)
        BY <1>2, <1>1
      <4>3. Len(received) \in Nat /\ Len(buffer) \in Nat
        BY <1>1
      <4>4. nextSeq \in Nat /\ start \in Nat /\ ReadWindow \in Nat
        BY <1>1
      <4> QED
        BY <4>1, <4>2, <4>3, <4>4
    <3>3. ack'.seq <= nextSeq' /\ ack'.seq + ack'.rwnd <= start' + Len(received') + ReadWindow
      BY <1>1, <1>2, <1>5, <2>1, <2>3, <3>1, <3>2
    <3>4. sent' <= start' + Len(received') + ReadWindow
      BY <1>1, <1>5, <2>1, <2>2, <2>3
    <3> QED
      BY <3>3, <3>4 DEF WindowPlace
  <2>5. CASE UNCHANGED <<ack, lastRwndSent>>
    <3>1. Len(received') >= Len(received) /\ Len(received') \in Nat /\ Len(received) \in Nat
      BY <1>1, <1>5, <2>1
    <3>2. start \in Nat /\ sent \in Nat /\ ReadWindow \in Nat /\ ack' = ack
      BY <1>1, <2>5
    <3>3. start + Len(received) + ReadWindow <= start + Len(received') + ReadWindow
      BY <3>1, <3>2
    <3> QED
      BY <2>1, <2>2, <2>3, <3>1, <3>2, <3>3 DEF WindowPlace
  <2> QED
    BY <1>3, <2>4, <2>5, Zenon
<1>12. InOrderExactlyOnce' /\ EofBehindLastByte' /\ BufferWithinWindow' /\ DataNotStuck'
  <2>1. InOrderExactlyOnce'
    BY <1>3, <1>5 DEF InOrderExactlyOnce, source
  <2>2. EofBehindLastByte' /\ DataNotStuck'
    BY <1>3 DEF EofBehindLastByte, DataNotStuck, LockFree, Open, source
  <2>3. BufferWithinWindow'
    BY <1>1, <1>2, <1>5 DEF BufferWithinWindow
  <2> QED
    BY <2>1, <2>2, <2>3
<1>13. WindowReopens'
  <2> DEFINE fifth == IF ReadWindow < 5 THEN 1 ELSE ReadWindow \div 5
  <2>1. /\ fifth \in Nat /\ 0 < fifth /\ ReadWindow \div 5 \in Nat
        /\ ReadWindow \div 5 <= fifth
    <3>1. ReadWindow \div 5 \in Nat /\ (ReadWindow >= 5 => ReadWindow \div 5 > 0)
          /\ (ReadWindow < 5 => ReadWindow \div 5 = 0)
      BY <1>1
    <3> QED
      BY <1>1, <3>1
  <2> HIDE DEF fifth
  <2>2. buffer' = <<>> => held = 0
    BY <1>5
  <2>3. lastRwndSent' \in Nat
    BY <1>1, <1>8 DEF TypeOK
  <2>4. (ReadWindow - held) - lastRwndSent' < fifth /\ (held = 0 => lastRwndSent' = ReadWindow)
    <3>1. CASE WorthAnAck(held)
      BY <1>1, <1>2, <1>3, <1>7, <2>1, <3>1
    <3>2. CASE ~WorthAnAck(held)
      <4>1. lastRwndSent' = lastRwndSent
        BY <1>3, <3>2
      <4>2. held # 0 /\ ~((ReadWindow - held) - lastRwndSent >= ReadWindow \div 5)
        BY <1>6, <3>2 DEF WorthAnAck
      <4> QED
        BY <1>1, <1>2, <2>1, <2>3, <4>1, <4>2
    <3> QED
      BY <3>1, <3>2, Zenon
  <2>5. Window(ReadWindow - Len(buffer')) = ReadWindow - held
    BY <1>5, <1>6
  <2> QED
    BY <2>2, <2>4, <2>5 DEF WindowReopens, fifth
<1> QED
  BY <1>8, <1>9, <1>10, <1>11, <1>12, <1>13

\* The reader has nothing yet, so it may be told to start anywhere.
LEMMA UpdateNextSeqInv == ASSUME Inv, UpdateNextSeq PROVE Inv'
<1> USE DEF Inv
<1>1. /\ ~synced /\ synced' = TRUE /\ nextSeq' = start /\ start' = start /\ start \in Nat
      /\ UNCHANGED <<buffer, eof, err, closed, lastRwndSent, oooPackets, delivering, ack, received, source>>
  BY DEF UpdateNextSeq, source, TypeOK
<1>2. sent = start /\ ~eof /\ ~delivering /\ ack.seq = 0
  BY <1>1 DEF ReaderPlace
<1>3. TypeOK'
  BY <1>1 DEF TypeOK, source
<1>4. PacketPlace'
  BY <1>1 DEF PacketPlace, source
<1>5. \A pk \in packets : pk.kind # "data"
  BY <1>2, <1>1 DEF PacketPlace, TypeOK, PacketsOfStream
<1>6. ReaderPlace'
  BY <1>1, <1>2, <1>5 DEF ReaderPlace, PacketPlace, source
<1>7. WindowPlace'
  BY <1>1, <1>2 DEF WindowPlace, source
<1>8. InOrderExactlyOnce'
  <2>1. start - start = 0
    BY <1>1
  <2>2. received \o buffer = Bytes(start, 0)
    BY <1>1 DEF InOrderExactlyOnce
  <2>3. received \o buffer = Bytes(start, start - start)
    BY <2>1, <2>2, Zenon
  <2>4. nextSeq' - start' = start - start
    BY <1>1
  <2> QED
    BY <1>1, <2>3, <2>4 DEF InOrderExactlyOnce
<1>9. EofBehindLastByte' /\ BufferWithinWindow' /\ WindowReopens'
  BY <1>1, <1>2 DEF EofBehindLastByte, BufferWithinWindow, WindowReopens, LockFree, Open
<1>10. DataNotStuck'
  BY <1>1, <1>5 DEF DataNotStuck, PacketPlace
<1> QED
  BY <1>3, <1>4, <1>6, <1>7, <1>8, <1>9, <1>10

LEMMA SourceSendsInv == ASSUME Inv, NEW n \in PacketSizes, SourceSends(n) PROVE Inv'
<1> USE DEF Inv
<1>1. /\ n \in Nat /\ n > 0 /\ sent \in Nat /\ start \in Nat /\ ReadWindow \in Nat
      /\ nextSeq \in Nat /\ Len(received) \in Nat /\ ack.seq \in Nat /\ ack.rwnd \in Nat
  BY Lengths, ReaderAssumption DEF TypeOK
<1>2. /\ synced /\ ended = "none" /\ sent' = sent + n
      /\ sent + n <= start + ReadWindow \/ sent + n <= ack.seq + ack.rwnd
      /\ UNCHANGED <<fields, ack, received, synced, start, ended>>
  BY DEF SourceSends
<1>3. packets' = packets \cup {Data(sent, n)}
  BY DEF SourceSends
<1>4. Data(sent, n).kind = "data" /\ Data(sent, n).seq = sent /\ Data(sent, n).len = n
  BY DEF Data
<1>5. Data(sent, n) \in PacketsOfStream
  BY <1>1 DEF Data, PacketsOfStream
<1>6. ASSUME NEW q \in packets
      PROVE  q.kind = "data" /\ q.seq \in Nat /\ q.len \in Nat /\ q.len > 0
             /\ start <= q.seq /\ q.seq + q.len <= sent
  <2>1. q.kind \in {"data", "eof", "error"} /\ q.seq \in Nat /\ q.len \in Nat
    BY DEF TypeOK, PacketsOfStream
  <2>2. q.kind = "data"
    BY <1>2, <2>1 DEF PacketPlace
  <2> QED
    BY <2>1, <2>2 DEF PacketPlace
<1>7. TypeOK'
  BY <1>1, <1>2, <1>3, <1>5 DEF TypeOK, fields
<1>8. PacketPlace'
  <2> DEFINE new == Data(sent, n)
  <2>1. start <= sent
    BY DEF ReaderPlace
  <2> HIDE DEF new
  <2>2. packets' = packets \cup {new} /\ new.kind = "data" /\ new.seq = sent /\ new.len = n
    BY <1>3, <1>4 DEF new
  <2>3. oooPackets' \subseteq packets' /\ \A pk \in oooPackets' : pk.kind # "error"
    BY <1>2, <2>2 DEF PacketPlace, fields
  <2>4. ASSUME NEW q \in packets'
        PROVE  q.kind = "data" /\ q.len > 0 /\ start' <= q.seq /\ q.seq + q.len <= sent'
    <3>1. CASE q \in packets
      BY <1>1, <1>2, <1>6, <3>1
    <3>2. CASE q = new
      BY <1>1, <1>2, <2>1, <2>2, <3>2
    <3> QED
      BY <2>2, <3>1, <3>2
  <2>5. ASSUME NEW p \in packets', NEW q \in packets'
        PROVE  p = q \/ p.seq + p.len <= q.seq \/ q.seq + q.len <= p.seq
    <3>1. CASE p \in packets /\ q \in packets
      BY <1>6, <3>1 DEF PacketPlace
    <3>2. CASE p \in packets /\ q = new
      BY <1>6, <2>2, <3>2
    <3>3. CASE p = new /\ q \in packets
      BY <1>6, <2>2, <3>3
    <3> QED
      BY <2>2, <3>1, <3>2, <3>3
  <2> QED
    BY <2>3, <2>4, <2>5 DEF PacketPlace
<1>9. ReaderPlace'
  BY <1>1, <1>2 DEF ReaderPlace, fields
<1>10. WindowPlace'
  BY <1>1, <1>2 DEF WindowPlace, fields
<1>11. InOrderExactlyOnce' /\ BufferWithinWindow' /\ DataNotStuck' /\ WindowReopens'
  BY <1>2 DEF InOrderExactlyOnce, BufferWithinWindow, DataNotStuck, WindowReopens,
              LockFree, Open, fields
<1>12. EofBehindLastByte'
  BY <1>2 DEF EofBehindLastByte, fields
<1> QED
  BY <1>7, <1>8, <1>9, <1>10, <1>11, <1>12

LEMMA SourceEndsInv == ASSUME Inv, NEW kind \in {"eof", "error"}, SourceEnds(kind) PROVE Inv'
<1> USE DEF Inv
<1> DEFINE new == End(kind, sent)
<1>1. new.kind = kind /\ new.seq = sent /\ new.len = 0 /\ new \in PacketsOfStream
  BY DEF End, PacketsOfStream, TypeOK
<1> HIDE DEF new
<1>2. /\ ended = "none" /\ ended' = kind /\ packets' = packets \cup {new}
      /\ UNCHANGED <<fields, ack, received, synced, start, sent>>
  BY DEF SourceEnds, new
<1>3. TypeOK'
  BY <1>1, <1>2 DEF TypeOK, fields
<1>4. \A q \in packets : q.kind = "data"
  BY <1>2 DEF PacketPlace, TypeOK, PacketsOfStream
<1>5. PacketPlace'
  BY <1>1, <1>2, <1>4 DEF PacketPlace, fields
<1>6. ReaderPlace' /\ WindowPlace'
  BY <1>2 DEF ReaderPlace, WindowPlace, fields
<1>7. /\ InOrderExactlyOnce' /\ BufferWithinWindow' /\ DataNotStuck' /\ WindowReopens'
      /\ EofBehindLastByte'
  BY <1>2 DEF InOrderExactlyOnce, BufferWithinWindow, DataNotStuck, WindowReopens,
              EofBehindLastByte, LockFree, Open, fields
<1> QED
  BY <1>3, <1>5, <1>6, <1>7

THEOREM NextInv == Inv /\ [Next]_vars => Inv'
<1> SUFFICES ASSUME Inv, [Next]_vars PROVE Inv'
  OBVIOUS
<1>1. ASSUME NEW pk \in packets, RecvError(pk) \/ RecvEarly(pk) \/ RecvInOrder(pk) PROVE Inv'
  BY <1>1, RecvErrorInv, RecvEarlyInv, RecvInOrderInv
<1>2. ASSUME NEW pk \in oooPackets, DeliverPending(pk) PROVE Inv'
  BY <1>2, DeliverPendingInv
<1>3. CASE Delivered
  BY <1>3, DeliveredInv
<1>4. ASSUME NEW size \in ReadSizes, Read(size) PROVE Inv'
  BY <1>4, ReadInv, ReaderAssumption
<1>5. CASE UpdateNextSeq
  BY <1>5, UpdateNextSeqInv
<1>6. CASE CloseReader
  BY <1>6, CloseReaderInv
<1>7. ASSUME NEW n \in PacketSizes, SourceSends(n) PROVE Inv'
  BY <1>7, SourceSendsInv
<1>8. ASSUME NEW kind \in {"eof", "error"}, SourceEnds(kind) PROVE Inv'
  BY <1>8, SourceEndsInv
<1>9. CASE UNCHANGED vars
  BY <1>9 DEF vars, fields, source, Inv, TypeOK, PacketPlace, ReaderPlace, WindowPlace,
              InOrderExactlyOnce, EofBehindLastByte, BufferWithinWindow, DataNotStuck,
              WindowReopens, LockFree, Open
<1> QED
  BY <1>1, <1>2, <1>3, <1>4, <1>5, <1>6, <1>7, <1>8, <1>9 DEF Next, RecvData, Deliver

-----------------------------------------------------------------------------
(* What this says of every run                                             *)

THEOREM InvHolds == Spec => []Inv
<1> QED
  BY InitInv, NextInv, PTL DEF Spec

\* The fields of Reader keep their types.
THEOREM TypeCorrect == Spec => []TypeOK
<1>1. Inv => TypeOK
  BY DEF Inv
<1> QED
  BY <1>1, InvHolds, PTL

\* Whatever the network repeats, loses, delays or reorders, Read returns the stream.
THEOREM StreamRebuilt == Spec => []InOrderExactlyOnce
<1>1. Inv => InOrderExactlyOnce
  BY DEF Inv
<1> QED
  BY <1>1, InvHolds, PTL

\* The end of the file is never reported before its last byte.
THEOREM EofIsLast == Spec => []EofBehindLastByte
<1>1. Inv => EofBehindLastByte
  BY DEF Inv
<1> QED
  BY <1>1, InvHolds, PTL

\* The reader holds at most a window, packets kept for later not counted.
THEOREM BufferBounded == Spec => []BufferWithinWindow
<1>1. Inv => BufferWithinWindow
  BY DEF Inv
<1> QED
  BY <1>1, InvHolds, PTL

\* Data whose turn has come has been delivered when RecvData lets the lock go.
THEOREM NoDataLeftBehind == Spec => []DataNotStuck
<1>1. Inv => DataNotStuck
  BY DEF Inv
<1> QED
  BY <1>1, InvHolds, PTL

\* What the source knows of the window is never much behind the truth.
THEOREM WindowKnown == Spec => []WindowReopens
<1>1. Inv => WindowReopens
  BY DEF Inv
<1> QED
  BY <1>1, InvHolds, PTL

\* With the current fields, no ack takes back what the one before it allowed.
LEMMA AckForward ==
  ASSUME Inv, NEW f \in BOOLEAN, NEW c \in BOOLEAN, SendAck(nextSeq, Len(buffer), f, c)
  PROVE  ack'.seq >= ack.seq /\ ack'.seq + ack'.rwnd >= ack.seq + ack.rwnd
<1>1. /\ ack'.seq = nextSeq /\ ack'.rwnd = ReadWindow - Len(buffer)
      /\ synced => ack'.seq + ack'.rwnd = start + Len(received) + ReadWindow
  BY AckSent
<1>2. ack.seq <= nextSeq /\ ack.seq + ack.rwnd <= start + Len(received) + ReadWindow
  BY DEF Inv, WindowPlace
<1>3. ack.seq \in Nat /\ ack.rwnd \in Nat /\ nextSeq \in Nat /\ ReadWindow \in Nat
  BY ReaderAssumption DEF Inv, TypeOK
<1>4. ~synced => nextSeq = 0 /\ ack.seq = 0 /\ ack.rwnd = ReadWindow /\ Len(buffer) = 0
  BY Lengths DEF Inv, ReaderPlace
<1>5. CASE synced
  BY <1>1, <1>2, <1>3, <1>5
<1>6. CASE ~synced
  BY <1>1, <1>3, <1>4, <1>6
<1> QED
  BY <1>5, <1>6, Zenon

\* Read acks with the bytes that it leaves in the buffer.
LEMMA ReadForward ==
  ASSUME Inv, NEW held \in 0 .. Len(buffer), synced, SendAck(nextSeq, held, FALSE, FALSE)
  PROVE  ack'.seq >= ack.seq /\ ack'.seq + ack'.rwnd >= ack.seq + ack.rwnd
<1>1. /\ Len(buffer) \in Nat /\ Len(received) \in Nat
      /\ Len(received) + Len(buffer) = nextSeq - start
      /\ Len(buffer) <= ReadWindow /\ ReadWindow \in Nat /\ held \in Nat /\ held <= Len(buffer)
  BY Lengths, ReaderAssumption DEF Inv, BufferWithinWindow
<1>2. Window(ReadWindow - held) = ReadWindow - held
  BY <1>1 DEF Window
<1>3. ack' = [seq |-> nextSeq, rwnd |-> ReadWindow - held, fin |-> FALSE, cancel |-> FALSE]
  BY <1>2 DEF SendAck
<1>4. ack'.seq = nextSeq /\ ack'.rwnd = ReadWindow - held
  BY <1>3
<1>5. ack.seq <= nextSeq /\ ack.seq + ack.rwnd <= start + Len(received) + ReadWindow
  BY DEF Inv, WindowPlace
<1>6. ack.seq \in Nat /\ ack.rwnd \in Nat /\ nextSeq \in Nat /\ start \in Nat
  BY ReaderAssumption DEF Inv, TypeOK
<1> QED
  BY <1>1, <1>4, <1>5, <1>6

\* The promise of an ack is kept by every later one, of whatever action.
THEOREM PromisesKept == Spec => WindowNeverShrinks
<1> DEFINE Forward == ack'.seq >= ack.seq /\ ack'.seq + ack'.rwnd >= ack.seq + ack.rwnd
<1>1. ASSUME Inv, [Next]_vars PROVE [Forward]_vars
  <2>1. ack.seq \in Nat /\ ack.rwnd \in Nat
    BY <1>1, ReaderAssumption DEF Inv, TypeOK
  <2>2. CASE ack' = ack
    <3>1. ack'.seq = ack.seq /\ ack'.rwnd = ack.rwnd
      BY <2>2
    <3> QED
      BY <2>1, <3>1
  <2>3. ASSUME NEW pk \in packets, RecvError(pk) PROVE Forward
    BY <1>1, <2>3, AckForward DEF RecvError
  <2>4. ASSUME NEW pk \in packets, RecvEarly(pk) \/ RecvInOrder(pk) PROVE ack' = ack
    BY <2>4 DEF RecvEarly, RecvInOrder
  <2>5. ASSUME NEW pk \in oooPackets, DeliverPending(pk) PROVE ack' = ack
    BY <2>5 DEF DeliverPending
  <2>6. CASE Delivered
    <3>1. eof \in BOOLEAN
      BY <1>1 DEF Inv, TypeOK
    <3> QED
      BY <1>1, <2>6, <3>1, AckForward DEF Delivered
  <2>7. ASSUME NEW size \in ReadSizes, Read(size) PROVE Forward \/ ack' = ack
    <3> DEFINE n == IF size < Len(buffer) THEN size ELSE Len(buffer)
               held == Len(buffer) - n
    <3>1. size \in Nat /\ Len(buffer) \in Nat /\ buffer \in Seq(Nat)
      BY <1>1, <2>7, ReaderAssumption, Lengths DEF Inv, TypeOK
    <3>2. held \in 0 .. Len(buffer)
      BY <3>1
    <3>3. synced
      <4>1. Len(buffer) # 0
        BY <2>7, <3>1, EmptySeq DEF Read
      <4> QED
        BY <1>1, <4>1, Lengths
    <3>4. SendAck(nextSeq, held, FALSE, FALSE) \/ ack' = ack
      BY <2>7 DEF Read
    <3> HIDE DEF n, held
    <3> QED
      BY <1>1, <3>2, <3>3, <3>4, ReadForward
  <2>8. CASE UpdateNextSeq
    BY <2>8, <2>2 DEF UpdateNextSeq
  <2>9. CASE CloseReader
    BY <1>1, <2>9, AckForward DEF CloseReader
  <2>10. ASSUME NEW n \in PacketSizes, SourceSends(n) PROVE ack' = ack
    BY <2>10 DEF SourceSends
  <2>11. ASSUME NEW kind \in {"eof", "error"}, SourceEnds(kind) PROVE ack' = ack
    BY <2>11 DEF SourceEnds
  <2>12. CASE UNCHANGED vars
    BY <2>12
  <2> QED
    BY <1>1, <2>2, <2>3, <2>4, <2>5, <2>6, <2>7, <2>8, <2>9, <2>10, <2>11, <2>12
       DEF Next, RecvData, Deliver
<1>2. Inv /\ [Next]_vars => [Forward]_vars
  BY <1>1
<1> QED
  BY <1>2, InvHolds, PTL DEF Spec, WindowNeverShrinks

-----------------------------------------------------------------------------
(* The terminal. *)

TermWrites == [data : Seq(Nat), set : Nat \cup {None}]
TermEvents == [fileop : {"append"}, data : Nat] \cup [fileop : {"truncate"}]
TermPages ==
  [at : {"closed", "rtinfo", "cache", "main", "writing", "open"}, screen : Seq(Nat), writes : Seq(TermWrites),
   ptyOffset : Nat, processed : Nat, heldData : Seq(Nat), loaded : BOOLEAN, status : Statuses,
   stat : Stats \cup {None}, from : Nat, caching : BOOLEAN]

TermTypes ==
  /\ file \in Seq(Nat) /\ output \in Nat /\ events \in Seq(TermEvents)
  /\ cache \in Caches \cup {None} /\ save \in Saves \cup {None}
  /\ rtinfo \in Statuses /\ infos \in Seq(Statuses)
  /\ page \in TermPages

\* The pieces of output after a, up to b, and a sequence that has all of those
\* after g, up to k.
Pieces(a, b) == [i \in 1 .. b - a |-> a + i]
Covers(s, g, k) == \A n \in g + 1 .. k : \E i \in 1 .. Len(s) : s[i] = n

\* While nothing is written or cleared during a load; and no cache has been
\* replaced between its two reads; and every mark was heard.
Still == odd \cap {"raced", "truncated"} = {}
Calm == Still /\ "swapped" \notin odd
Heard == Still /\ "unheard" \notin odd

\* What happened, how much of the output may be missing for it on a screen, and
\* whether a screen is the output piece by piece.
Past == [odd |-> odd, output |-> output]
Lost(o) == IF "lapped" \in o.odd THEN DataStartIdx(o.output) ELSE 0
Exact(o) == o.odd \cap {"torn", "lapped"} = {}
Later(o, q) == Lost(o) \in Nat /\ Lost(q) \in Nat /\ Lost(o) <= Lost(q) /\ (Exact(q) => Exact(o))

\* s shows the first k pieces, when o is what happened.
Shows(o, s, k) == Covers(s, Lost(o), k) /\ (Exact(o) => s = Pieces(0, k))
\* A count of what is shown up to k.
Counts(o, n, k) == n <= k /\ (Exact(o) => n = k)
\* Where the rest of the file begins for a page that has it up to from.
Follows(o, from, x) == x \in Nat /\ from <= x /\ x <= o.output /\ (x = from \/ (x <= Lost(o) /\ ~Exact(o)))

\* What an open page has parsed.
Come == output - Len(events) - Len(page.writes)

\* Nothing comes while a page loads; afterwards what comes is in its place.
Arrives ==
  /\ file = Pieces(0, output)
  /\ page.loaded = (page.at = "open")
  /\ page.at # "open" => events = <<>>
  /\ page.at \in {"closed", "rtinfo", "cache"} => 
       page.writes = <<>> /\ page.screen = <<>> /\ page.ptyOffset = 0 /\ page.from = 0
  /\ page.at \in {"closed", "rtinfo"} => page.stat = None
  /\ page.at = "main" /\ page.stat # None => page.stat.size = output
  /\ page.at = "open" =>
       /\ Come \in Nat
       /\ \A i \in 1 .. Len(page.writes) : page.writes[i] = [data |-> <<Come + i>>, set |-> None]
       /\ \A i \in 1 .. Len(events) : events[i] = [fileop |-> "append", data |-> output - Len(events) + i]

\* A save has a screen that shows as much as its count and that of the cache say;
\* a cache that is being written has that of the save.
Saved(o, s, c) ==
  /\ c \in Nat /\ c <= o.output /\ Shows(o, s.data, c) /\ Counts(o, s.ptyOffset, c)
  /\ cache # None => cache.ptyOffset <= c
CachePlace ==
  /\ cache # None =>
       /\ Covers(cache.data, Lost(Past), cache.ptyOffset) /\ cache.ptyOffset <= output
       /\ save = None \/ ~save.written => Shows(Past, cache.data, cache.ptyOffset)
  /\ save # None =>
       /\ \E c \in Nat : Saved(Past, save, c)
       /\ save.written => cache # None /\ cache.data = save.data

\* Whether a page that loads has what it has read of the cache yet to parse, or has parsed it.
Cached(o, w, from) == w.set = from /\ Shows(o, w.data, from)
Parsed(o, p) == Shows(o, p.screen, p.from) /\ Counts(o, p.ptyOffset, p.from)

LoadPlace ==
  /\ page.at = "cache" /\ page.stat # None =>
       /\ cache # None /\ page.stat.size = Len(cache.data) /\ page.stat.ptyOffset <= output
       /\ Shows(Past, cache.data, page.stat.ptyOffset)
  /\ page.at \in {"main", "writing"} => page.from <= output
  /\ page.at = "main" =>
       \/ page.writes = <<>> /\ Parsed(Past, page)
       \/ page.screen = <<>> /\ \E w \in TermWrites : page.writes = <<w>> /\ Cached(Past, w, page.from)
  /\ page.at = "writing" =>
       \E v \in TermWrites, x \in Nat :
         /\ Follows(Past, page.from, x) /\ v = [data |-> Pieces(x, output), set |-> None]
         /\ \/ page.writes = <<v>> /\ Parsed(Past, page)
            \/ page.screen = <<>> /\ \E w \in TermWrites : page.writes = <<w, v>> /\ Cached(Past, w, page.from)

OpenPlace ==
  page.at = "open" =>
    /\ Counts(Past, page.ptyOffset, Come) /\ Shows(Past, page.screen, Come)
    /\ cache # None => cache.ptyOffset <= Come
    /\ save # None => save.ptyOffset <= Come

\* What the shell said last of what was parsed is on its way or has come.
MarkOf(n) == IF n = 0 THEN None ELSE Mark(n)
StatusPlace ==
  LET h == IF page.at = "open" THEN Come ELSE output
  IN /\ infos = <<>> => rtinfo = MarkOf(h)
     /\ infos # <<>> => infos[Len(infos)] = MarkOf(h)
     /\ page.at \in {"cache", "main", "writing", "open"} => page.status = MarkOf(h)

TermInv ==
  /\ TermTypes
  /\ Still => Arrives
  /\ Calm => CachePlace /\ LoadPlace /\ OpenPlace
  /\ Heard => StatusPlace

-----------------------------------------------------------------------------
\* Sequences of pieces.

LEMMA PiecesAre ==
  \A a, b \in Nat : a <= b =>
    /\ Pieces(a, b) \in Seq(Nat) /\ Len(Pieces(a, b)) = b - a
    /\ \A i \in 1 .. b - a : Pieces(a, b)[i] = a + i
<1> SUFFICES ASSUME NEW a \in Nat, NEW b \in Nat, a <= b
             PROVE  /\ Pieces(a, b) \in Seq(Nat) /\ Len(Pieces(a, b)) = b - a
                    /\ \A i \in 1 .. b - a : Pieces(a, b)[i] = a + i
  OBVIOUS
<1>1. b - a \in Nat /\ \A i \in 1 .. b - a : a + i \in Nat
  OBVIOUS
<1> QED
  BY <1>1 DEF Pieces

\* A sequence with these elements is that stretch.
LEMMA PiecesOnly ==
  \A s \in Seq(Nat), a, b \in Nat :
    a <= b /\ Len(s) = b - a /\ (\A i \in 1 .. b - a : s[i] = a + i) => s = Pieces(a, b)
<1> SUFFICES ASSUME NEW s \in Seq(Nat), NEW a \in Nat, NEW b \in Nat,
                    a <= b, Len(s) = b - a, \A i \in 1 .. b - a : s[i] = a + i
             PROVE  s = Pieces(a, b)
  OBVIOUS
<1> DEFINE t == Pieces(a, b)
<1>1. t \in Seq(Nat) /\ Len(t) = b - a /\ \A i \in 1 .. b - a : t[i] = a + i
  BY PiecesAre, Zenon
<1> HIDE DEF t
<1>2. \A i \in 1 .. Len(s) : s[i] = t[i]
  BY <1>1
<1>3. s = t
  BY <1>1, <1>2, SeqEqual, Zenon
<1> QED
  BY <1>3 DEF t

LEMMA PiecesJoin ==
  \A a, b, c \in Nat : a <= b /\ b <= c => Pieces(a, b) \o Pieces(b, c) = Pieces(a, c)
<1> SUFFICES ASSUME NEW a \in Nat, NEW b \in Nat, NEW c \in Nat, a <= b, b <= c
             PROVE  Pieces(a, b) \o Pieces(b, c) = Pieces(a, c)
  OBVIOUS
<1> DEFINE s == Pieces(a, b)  t == Pieces(b, c)
<1>1. s \in Seq(Nat) /\ Len(s) = b - a /\ \A i \in 1 .. b - a : s[i] = a + i
  BY PiecesAre, Zenon
<1>2. t \in Seq(Nat) /\ Len(t) = c - b /\ \A i \in 1 .. c - b : t[i] = b + i
  BY PiecesAre, Zenon
<1> HIDE DEF s, t
<1>3. /\ s \o t \in Seq(Nat) /\ Len(s \o t) = Len(s) + Len(t)
      /\ \A i \in 1 .. Len(s) + Len(t) : (s \o t)[i] = IF i <= Len(s) THEN s[i] ELSE t[i - Len(s)]
  BY <1>1, <1>2, ConcatProperties
<1>4. a <= c /\ Len(s \o t) = c - a
  BY <1>1, <1>2, <1>3
<1>5. ASSUME NEW i \in 1 .. c - a  PROVE  (s \o t)[i] = a + i
  <2>1. i \in 1 .. Len(s) + Len(t)
    BY <1>1, <1>2
  <2>2. CASE i <= Len(s)
    BY <2>1, <2>2, <1>1, <1>3
  <2>3. CASE ~(i <= Len(s))
    <3>1. i - Len(s) \in 1 .. c - b
      BY <2>1, <2>3, <1>1, <1>2
    <3> QED
      BY <2>1, <2>3, <3>1, <1>1, <1>2, <1>3
  <2> QED
    BY <2>2, <2>3
<1>6. s \o t = Pieces(a, c)
  BY <1>3, <1>4, <1>5, PiecesOnly
<1> QED
  BY <1>6 DEF s, t

LEMMA PiecesOne ==
  \A a \in Nat : <<a + 1>> = Pieces(a, a + 1) /\ Pieces(a, a) = <<>>
<1> SUFFICES ASSUME NEW a \in Nat
             PROVE  <<a + 1>> = Pieces(a, a + 1) /\ Pieces(a, a) = <<>>
  OBVIOUS
<1> DEFINE s == <<a + 1>>
<1>1. s \in Seq(Nat) /\ Len(s) = 1 /\ s[1] = a + 1
  OBVIOUS
<1> HIDE DEF s
<1>2. /\ a + 1 \in Nat /\ a <= a + 1 /\ Len(s) = (a + 1) - a
      /\ \A i \in 1 .. (a + 1) - a : s[i] = a + i
  BY <1>1
<1>3. s = Pieces(a, a + 1)
  BY <1>1, <1>2, PiecesOnly, Zenon
<1>4. Pieces(a, a) \in Seq(Nat) /\ Len(Pieces(a, a)) = 0
  BY PiecesAre
<1> QED
  BY <1>3, <1>4, EmptySeq DEF s

LEMMA PiecesPart ==
  \A a, b \in Nat : a <= b =>
    /\ SubSeq(Pieces(0, b), a + 1, b) = Pieces(a, b)
    /\ SubSeq(Pieces(0, b), 1, a) = Pieces(0, a)
<1> SUFFICES ASSUME NEW a \in Nat, NEW b \in Nat, a <= b
             PROVE  /\ SubSeq(Pieces(0, b), a + 1, b) = Pieces(a, b)
                    /\ SubSeq(Pieces(0, b), 1, a) = Pieces(0, a)
  OBVIOUS
<1> DEFINE s == Pieces(0, b)  t == SubSeq(s, a + 1, b)  u == SubSeq(s, 1, a)
<1>1. s \in Seq(Nat) /\ Len(s) = b /\ \A i \in 1 .. b : s[i] = i
  BY PiecesAre
<1> HIDE DEF s
<1>2. /\ \A i \in a + 1 .. b : s[i] \in Nat
      /\ \A i \in 1 .. a : s[i] \in Nat
  BY <1>1
<1>3. /\ t \in Seq(Nat) /\ Len(t) = IF a + 1 <= b THEN b - (a + 1) + 1 ELSE 0
      /\ \A i \in 1 .. b - (a + 1) + 1 : t[i] = s[(a + 1) + i - 1]
  BY <1>2, SubSeqProperties
<1>4. /\ u \in Seq(Nat) /\ Len(u) = IF 1 <= a THEN a - 1 + 1 ELSE 0
      /\ \A i \in 1 .. a - 1 + 1 : u[i] = s[1 + i - 1]
  BY <1>2, SubSeqProperties
<1> HIDE DEF t, u
<1>5. t = Pieces(a, b)
  <2>1. Len(t) = b - a
    BY <1>3
  <2>2. ASSUME NEW i \in 1 .. b - a  PROVE  t[i] = a + i
    <3>1. i \in 1 .. b - (a + 1) + 1 /\ a + i \in 1 .. b /\ (a + 1) + i - 1 = a + i
      OBVIOUS
    <3> QED
      BY <3>1, <1>1, <1>3
  <2> QED
    BY <1>3, <2>1, <2>2, PiecesOnly
<1>6. u = Pieces(0, a)
  <2>1. Len(u) = a - 0
    BY <1>4
  <2>2. ASSUME NEW i \in 1 .. a - 0  PROVE  u[i] = 0 + i
    <3>1. i \in 1 .. a - 1 + 1 /\ i \in 1 .. b /\ 1 + i - 1 = i
      OBVIOUS
    <3> QED
      BY <3>1, <1>1, <1>4
  <2> QED
    BY <1>4, <2>1, <2>2, PiecesOnly
<1> QED
  BY <1>5, <1>6 DEF s, t, u

LEMMA CoversLess ==
  ASSUME NEW s, NEW g \in Nat, NEW h \in Nat, NEW k \in Nat, NEW m \in Nat,
         g <= h, m <= k, Covers(s, g, k)
  PROVE  Covers(s, h, m)
BY DEF Covers

\* What is shown goes on with the pieces that follow, or with the first that are left.
LEMMA CoversOn ==
  ASSUME NEW s \in Seq(Nat), NEW g \in Nat, NEW k \in Nat, NEW x \in Nat, NEW m \in Nat,
         x <= k \/ x <= g, x <= m, Covers(s, g, k)
  PROVE  Covers(s \o Pieces(x, m), g, m)
<1> DEFINE t == Pieces(x, m)
<1>1. t \in Seq(Nat) /\ Len(t) = m - x /\ \A i \in 1 .. m - x : t[i] = x + i
  BY PiecesAre
<1> HIDE DEF t
<1>2. /\ s \o t \in Seq(Nat) /\ Len(s \o t) = Len(s) + Len(t)
      /\ \A i \in 1 .. Len(s) + Len(t) : (s \o t)[i] = IF i <= Len(s) THEN s[i] ELSE t[i - Len(s)]
  BY <1>1, ConcatProperties
<1>3. Len(s) \in Nat
  OBVIOUS
<1>4. ASSUME NEW n \in g + 1 .. m  PROVE  \E i \in 1 .. Len(s \o t) : (s \o t)[i] = n
  <2>1. CASE n <= x
    <3>0. n \in g + 1 .. k
      BY <2>1
    <3>1. PICK i \in 1 .. Len(s) : s[i] = n
      BY <3>0 DEF Covers
    <3>2. i \in 1 .. Len(s) + Len(t) /\ i <= Len(s)
      BY <1>1, <1>3
    <3> QED
      BY <3>1, <3>2, <1>2
  <2>2. CASE x < n
    <3>1. /\ Len(s) + (n - x) \in 1 .. Len(s) + Len(t) /\ ~(Len(s) + (n - x) <= Len(s))
          /\ (Len(s) + (n - x)) - Len(s) = n - x /\ n - x \in 1 .. m - x /\ x + (n - x) = n
      BY <2>2, <1>1, <1>3
    <3>2. (s \o t)[Len(s) + (n - x)] = t[n - x] /\ t[n - x] = n
      BY <3>1, <1>1, <1>2
    <3> QED
      BY <3>1, <3>2, <1>2
  <2> QED
    BY <2>1, <2>2
<1> QED
  BY <1>4 DEF Covers, t

\* What a circular file has dropped only grows.
LEMMA StartIdxIs ==
  \A n \in Nat : DataStartIdx(n) \in Nat /\ DataStartIdx(n) <= n /\ DataStartIdx(n) <= DataStartIdx(n + 1)
BY TermAssumption DEF DataStartIdx

LEMMA StartIs ==
  \A from, n \in Nat : from <= n =>
    /\ Start(from, n) \in Nat /\ from <= Start(from, n) /\ Start(from, n) <= n
    /\ from < Start(from, n) => Start(from, n) = DataStartIdx(n)
BY StartIdxIs DEF Start

-----------------------------------------------------------------------------
\* What stays in its type.

LEMMA FetchedType ==
  ASSUME NEW data \in Seq(Nat), NEW from \in Nat, NEW size \in Nat, FALSE \in Throws(data, from, size)
  PROVE  Fetched(data, from, size) \in Seq(Nat)
<1>1. from >= size \/ size <= Len(data)
  <2>1. CASE Len(data) < size /\ ~(from >= size)
    <3>1. Len(data) # size
      BY <2>1
    <3>2. Throws(data, from, size) = {TRUE}
      BY <2>1, <3>1, Zenon DEF Throws
    <3> QED
      BY <3>2, Zenon
  <2> QED
    BY <2>1
<1>2. \A i \in from + 1 .. size : data[i] \in Nat
  BY <1>1
<1> QED
  BY <1>2, SubSeqProperties DEF Fetched

LEMMA ThrowsType ==
  \A data, from, size : \A t \in Throws(data, from, size) : t \in BOOLEAN
BY DEF Throws

LEMMA TermTypesInit == TermInit => TermTypes
<1>1. ClosedPage \in TermPages
  BY EmptySeq DEF TermPages, NewPage, ClosedPage, Statuses
<1>2. None \in Statuses /\ \A S : <<>> \in Seq(S)
  BY EmptySeq DEF Statuses
<1> QED
  BY <1>1, <1>2 DEF TermInit, TermTypes

LEMMA WriteType ==
  \A p \in TermPages, data \in Seq(Nat), offset \in Nat \cup {None} : Write(p, data, offset) \in TermPages
<1> SUFFICES ASSUME NEW p \in TermPages, NEW data \in Seq(Nat), NEW offset \in Nat \cup {None}
             PROVE  Write(p, data, offset) \in TermPages
  OBVIOUS
<1>1. [data |-> data, set |-> offset] \in TermWrites
  BY DEF TermWrites
<1>2. p.writes \in Seq(TermWrites)
  BY DEF TermPages
<1>3. Append(p.writes, [data |-> data, set |-> offset]) \in Seq(TermWrites)
  BY <1>1, <1>2, AppendProperties, Zenon
<1> QED
  BY <1>3 DEF Write, TermPages

LEMMA LoadedType ==
  \A p \in TermPages, ok \in BOOLEAN : Loaded(p, ok) \in TermPages
BY DEF Loaded, TermPages

LEMMA ParsingType ==
  \A p \in TermPages, ws \in Seq(TermWrites), sc \in Seq(Nat), o \in Nat, n \in Nat, st \in Statuses :
    [p EXCEPT !.writes = ws, !.screen = sc, !.ptyOffset = o, !.processed = n, !.status = st] \in TermPages
BY DEF TermPages

LEMMA TermTypesNext ==
  ASSUME TermTypes, [TermNext]_termVars
  PROVE  TermTypes'
<1> USE DEF TermTypes
<1>0. \A n \in Nat : Mark(n) \in Statuses
  BY DEF Mark, Statuses
<1>1. CASE AppendData
  <2>1. Append(file, output + 1) \in Seq(Nat) /\ output + 1 \in Nat
    BY AppendProperties
  <2>2. [fileop |-> "append", data |-> output + 1] \in TermEvents
    BY DEF TermEvents
  <2>3. Append(events, [fileop |-> "append", data |-> output + 1]) \in Seq(TermEvents)
    BY <2>2, AppendProperties, Zenon
  <2> QED
    BY <1>1, <2>1, <2>3 DEF AppendData
<1>2. CASE Truncate
  <2>1. [fileop |-> "truncate"] \in TermEvents
    BY DEF TermEvents
  <2>2. Append(events, [fileop |-> "truncate"]) \in Seq(TermEvents) /\ <<>> \in Seq(Nat)
    BY <2>1, AppendProperties, EmptySeq
  <2> QED
    BY <1>2, <2>2 DEF Truncate
<1>3. CASE SaveState
  <2>1. save \in Saves
    BY <1>3 DEF SaveState
  <2>2. (IF cache = None THEN 0 ELSE cache.ptyOffset) \in Nat
    BY DEF Caches
  <2>3. cache' \in Caches /\ save' \in Saves
    BY <1>3, <2>1, <2>2 DEF SaveState, Caches, Saves
  <2> QED
    BY <1>3, <2>3 DEF SaveState
<1>4. CASE SaveMeta
  <2>1. save \in Saves /\ save' = None
    BY <1>4 DEF SaveMeta
  <2>2. cache' \in Caches \cup {None}
    BY <1>4, <2>1 DEF SaveMeta, Caches, Saves
  <2> QED
    BY <1>4, <2>1, <2>2 DEF SaveMeta
<1>5. CASE SetRTInfo
  <2>1. rtinfo' \in Statuses /\ infos' \in Seq(Statuses)
    BY <1>5, HeadTailProperties DEF SetRTInfo
  <2> QED
    BY <1>5, <2>1 DEF SetRTInfo
<1>6. NewPage \in TermPages /\ ClosedPage \in TermPages
  BY EmptySeq DEF TermPages, NewPage, ClosedPage, Statuses
<1>7. CASE Quit
  <2>1. None \in Statuses /\ <<>> \in Seq(Statuses) /\ <<>> \in Seq(TermEvents)
    BY EmptySeq DEF Statuses
  <2> QED
    BY <1>6, <1>7, <2>1 DEF Quit
<1>8. CASE InitTerminal
  BY <1>6, <1>8 DEF InitTerminal
<1>9. CASE GetRTInfo
  <2>1. page' \in TermPages
    BY <1>9 DEF GetRTInfo, TermPages
  <2> QED
    BY <1>9, <2>1 DEF GetRTInfo
<1>10. CASE StatCache
  <2>1. cache # None => Stat(Len(cache.data), cache.ptyOffset) \in Stats
    BY LenProperties DEF Stat, Stats, Caches
  <2>2. page' \in TermPages
    BY <1>10, <2>1 DEF StatCache, TermPages
  <2> QED
    BY <1>10, <2>2 DEF StatCache
<1>11. CASE ReadCache
  <2> DEFINE size == page.stat.size
             data == IF cache = None THEN <<>> ELSE cache.data
             p == [page EXCEPT !.at = "main", !.from = page.stat.ptyOffset, !.stat = None]
  <2>1. size \in Nat /\ page.stat.ptyOffset \in Nat
    BY <1>11 DEF ReadCache, TermPages, Stats
  <2>2. data \in Seq(Nat)
    BY EmptySeq DEF Caches
  <2>3. p \in TermPages
    BY <2>1 DEF TermPages
  <2>4. PICK throws \in Throws(data, 0, size) :
          page' = IF throws THEN Loaded(page, FALSE)
                  ELSE IF size > 0 THEN Write(p, Fetched(data, 0, size), page.stat.ptyOffset)
                  ELSE p
    BY <1>11 DEF ReadCache
  <2> HIDE DEF size, data, p
  <2>5. ~throws => Fetched(data, 0, size) \in Seq(Nat)
    <3>1. throws \in BOOLEAN
      BY <2>4, ThrowsType
    <3> SUFFICES ASSUME ~throws  PROVE  Fetched(data, 0, size) \in Seq(Nat)
      OBVIOUS
    <3>2. throws = FALSE
      BY <3>1
    <3> QED
      BY <2>1, <2>2, <2>4, <3>2, FetchedType
  <2>6. page' \in TermPages
    BY <2>1, <2>3, <2>4, <2>5, WriteType, LoadedType
  <2> QED
    BY <1>11, <2>6 DEF ReadCache
<1>12. CASE StatMain
  <2>1. Stat(Len(file), 0) \in Stats
    BY LenProperties DEF Stat, Stats
  <2>2. page' \in TermPages
    BY <1>12, <2>1 DEF StatMain, TermPages
  <2> QED
    BY <1>12, <2>2 DEF StatMain
<1>13. CASE ReadMain
  <2> DEFINE size == page.stat.size  from == Start(page.from, page.stat.size)
  <2>1. size \in Nat /\ page.from \in Nat
    BY <1>13 DEF ReadMain, TermPages, Stats
  <2>2. from \in Nat
    BY <2>1, StartIdxIs DEF Start
  <2>3. PICK throws \in Throws(file, from, size) :
          page' = IF throws THEN Loaded(page, FALSE)
                  ELSE [Write(page, Fetched(file, from, size), None) EXCEPT !.at = "writing", !.stat = None]
    BY <1>13, Zenon DEF ReadMain
  <2>4. UNCHANGED <<file, cache, rtinfo, infos, save, events, output>>
    BY <1>13 DEF ReadMain
  <2> HIDE DEF size, from
  <2>5. throws \in BOOLEAN
    BY <2>3, ThrowsType
  <2>6. CASE throws
    BY <2>3, <2>4, <2>6, LoadedType
  <2>7. CASE ~throws
    <3> DEFINE p == Write(page, Fetched(file, from, size), None)
    <3>0. throws = FALSE
      BY <2>5, <2>7
    <3>1. p \in TermPages
      BY <2>1, <2>2, <2>3, <3>0, FetchedType, WriteType
    <3>2. page' = [p EXCEPT !.at = "writing", !.stat = None]
      BY <2>3, <2>7
    <3> HIDE DEF p
    <3>3. page' \in TermPages
      BY <3>1, <3>2 DEF TermPages
    <3> QED
      BY <2>4, <3>3
  <2> QED
    BY <2>6, <2>7
<1>14. CASE NewFileData
  <2> DEFINE e == Head(events)
  <2>1. e \in TermEvents /\ Tail(events) \in Seq(TermEvents)
    BY <1>14, HeadTailProperties DEF NewFileData
  <2>2. page' = IF page.at = "closed" THEN page
                ELSE IF e.fileop = "truncate" THEN [page EXCEPT !.screen = <<>>, !.heldData = <<>>]
                ELSE IF page.loaded THEN Write(page, <<e.data>>, None)
                ELSE [page EXCEPT !.heldData = Append(@, e.data)]
    BY <1>14 DEF NewFileData
  <2> HIDE DEF e
  <2>3. e.fileop # "truncate" => e.data \in Nat
    BY <2>1 DEF TermEvents
  <2>4. CASE page' = page
    BY <1>14, <2>1, <2>4 DEF NewFileData
  <2>5. CASE page' = [page EXCEPT !.screen = <<>>, !.heldData = <<>>]
    <3>1. page' \in TermPages
      BY <2>5, EmptySeq DEF TermPages
    <3> QED
      BY <1>14, <2>1, <3>1 DEF NewFileData
  <2>6. CASE e.fileop # "truncate" /\ page' = Write(page, <<e.data>>, None)
    <3>1. <<e.data>> \in Seq(Nat)
      BY <2>3, <2>6
    <3>2. page' \in TermPages
      BY <2>6, <3>1, WriteType
    <3> QED
      BY <1>14, <2>1, <3>2 DEF NewFileData
  <2>7. CASE e.fileop # "truncate" /\ page' = [page EXCEPT !.heldData = Append(@, e.data)]
    <3>1. Append(page.heldData, e.data) \in Seq(Nat)
      BY <2>3, <2>7, AppendProperties DEF TermPages
    <3>2. page' \in TermPages
      BY <2>7, <3>1 DEF TermPages
    <3> QED
      BY <1>14, <2>1, <3>2 DEF NewFileData
  <2> QED
    BY <2>2, <2>4, <2>5, <2>6, <2>7
<1>15. CASE Parse
  <2> DEFINE w == Head(page.writes)
             heard == page.loaded /\ w.set = None /\ w.data # <<>>
             p == [page EXCEPT !.writes = Tail(@), !.screen = @ \o w.data,
                             !.ptyOffset = IF w.set # None THEN w.set ELSE @ + Len(w.data),
                             !.processed = IF w.set # None THEN @ ELSE @ + Len(w.data),
                             !.status = IF heard THEN Mark(Last(w.data)) ELSE @]
  <2>1. page.writes # <<>> /\ page.writes \in Seq(TermWrites)
    BY <1>15 DEF Parse, TermPages
  <2>2. w \in TermWrites /\ Tail(page.writes) \in Seq(TermWrites)
    BY <2>1, HeadTailProperties
  <2>3. w.data \in Seq(Nat) /\ w.set \in Nat \cup {None}
    BY <2>2 DEF TermWrites
  <2>4. Len(w.data) \in Nat /\ (w.data # <<>> => Last(w.data) \in Nat)
    BY <2>3 DEF Last
  <2>5. /\ page' = IF page.at = "writing" /\ p.writes = <<>> THEN Loaded(p, TRUE) ELSE p
        /\ infos' = IF heard THEN Append(infos, p.status) ELSE infos
    BY <1>15 DEF Parse
  <2>6. page.screen \o w.data \in Seq(Nat)
    BY <2>3, ConcatProperties DEF TermPages
  <2>7. p \in TermPages
    <3>0. page.ptyOffset \in Nat /\ page.processed \in Nat /\ page.status \in Statuses
      BY DEF TermPages
    <3> HIDE DEF w
    <3>1. (IF w.set # None THEN w.set ELSE page.ptyOffset + Len(w.data)) \in Nat
      BY <2>3, <2>4, <3>0
    <3>2. (IF w.set # None THEN page.processed ELSE page.processed + Len(w.data)) \in Nat
      BY <2>4, <3>0
    <3>3. (IF heard THEN Mark(Last(w.data)) ELSE page.status) \in Statuses
      BY <1>0, <2>4, <3>0
    <3> HIDE DEF heard
    <3> QED
      BY <2>2, <2>6, <3>1, <3>2, <3>3, ParsingType, Zenon
  <2>8. page' \in TermPages
    <3> HIDE DEF p
    <3> QED
      BY <2>5, <2>7, LoadedType
  <2>9. infos' \in Seq(Statuses)
    <3>1. p.status \in Statuses
      BY <2>7 DEF TermPages
    <3> HIDE DEF p, heard
    <3> QED
      BY <2>5, <3>1, AppendProperties
  <2> QED
    BY <1>15, <2>8, <2>9 DEF Parse
<1>16. CASE ProcessAndCacheData
  <2>1. save' \in Saves /\ page' \in TermPages
    BY <1>16 DEF ProcessAndCacheData, TermPages, Saves
  <2> QED
    BY <1>16, <2>1 DEF ProcessAndCacheData
<1>17. CASE Dispose
  BY <1>6, <1>17, EmptySeq DEF Dispose
<1>18. CASE UNCHANGED termVars
  BY <1>18 DEF termVars
<1> QED
  BY <1>1, <1>2, <1>3, <1>4, <1>5, <1>7, <1>8, <1>9, <1>10, <1>11, <1>12, <1>13, <1>14, <1>15, <1>16,
     <1>17, <1>18 DEF TermNext, Load

\* What is remembered is not forgotten.
LEMMA OddGrows ==
  ASSUME [TermNext]_termVars
  PROVE  odd \subseteq odd'
<1>1. CASE AppendData \/ Truncate \/ SaveState \/ SaveMeta
  BY <1>1 DEF AppendData, Truncate, SaveState, SaveMeta
<1>2. CASE SetRTInfo \/ Quit \/ InitTerminal \/ NewFileData
  BY <1>2 DEF SetRTInfo, Quit, InitTerminal, NewFileData
<1>3. CASE ProcessAndCacheData \/ Dispose \/ GetRTInfo \/ StatCache
  BY <1>3 DEF ProcessAndCacheData, Dispose, GetRTInfo, StatCache
<1>4. CASE ReadCache \/ StatMain \/ ReadMain \/ Parse
  BY <1>4 DEF ReadCache, StatMain, ReadMain, Parse
<1>5. CASE UNCHANGED termVars
  BY <1>5 DEF termVars
<1> QED
  BY <1>1, <1>2, <1>3, <1>4, <1>5 DEF TermNext, Load

-----------------------------------------------------------------------------
\* What comes while nothing is written or cleared during a load.

LEMMA PiecesAppend ==
  \A k \in Nat : Append(Pieces(0, k), k + 1) = Pieces(0, k + 1)
<1> SUFFICES ASSUME NEW k \in Nat  PROVE  Append(Pieces(0, k), k + 1) = Pieces(0, k + 1)
  OBVIOUS
<1> DEFINE s == Pieces(0, k)  t == Append(s, k + 1)
<1>0. 0 \in Nat /\ 0 <= k /\ k - 0 = k
  OBVIOUS
<1>1. s \in Seq(Nat) /\ Len(s) = k - 0 /\ \A i \in 1 .. k - 0 : s[i] = 0 + i
  BY <1>0, PiecesAre, Zenon
<1> HIDE DEF s
<1>2. k + 1 \in Nat
  OBVIOUS
<1>3. /\ t \in Seq(Nat) /\ Len(t) = Len(s) + 1 /\ t[Len(s) + 1] = k + 1
      /\ \A i \in 1 .. Len(s) : t[i] = s[i]
  BY <1>1, <1>2, AppendProperties
<1> HIDE DEF t
<1>4. /\ 0 <= k + 1 /\ Len(t) = (k + 1) - 0
      /\ \A i \in 1 .. (k + 1) - 0 : t[i] = 0 + i
  BY <1>1, <1>3
<1>5. t = Pieces(0, k + 1)
  BY <1>0, <1>2, <1>3, <1>4, PiecesOnly, Zenon
<1> QED
  BY <1>5 DEF s, t

\* Parse, field by field.
LEMMA ParseDoes ==
  ASSUME TermTypes, Parse, NEW w, w = Head(page.writes)
  PROVE  LET heard == page.loaded /\ w.set = None /\ w.data # <<>>
             done == page.at = "writing" /\ Tail(page.writes) = <<>>
         IN /\ page.writes # <<>> /\ page.writes \in Seq(TermWrites)
            /\ w \in TermWrites /\ w.data \in Seq(Nat) /\ w.set \in Nat \cup {None}
            /\ page'.writes = Tail(page.writes)
            /\ page'.screen = page.screen \o w.data
            /\ page'.ptyOffset = IF w.set # None THEN w.set ELSE page.ptyOffset + Len(w.data)
            /\ page'.status = IF heard THEN Mark(Last(w.data)) ELSE page.status
            /\ page'.at = IF done THEN "open" ELSE page.at
            /\ page'.loaded = IF done THEN TRUE ELSE page.loaded
            /\ page'.stat = IF done THEN None ELSE page.stat
            /\ page'.from = page.from
            /\ infos' = IF heard THEN Append(infos, Mark(Last(w.data))) ELSE infos
            /\ UNCHANGED <<file, cache, rtinfo, save, events, output, odd>>
<1> DEFINE heard == page.loaded /\ w.set = None /\ w.data # <<>>
           p == [page EXCEPT !.writes = Tail(@), !.screen = @ \o w.data,
                             !.ptyOffset = IF w.set # None THEN w.set ELSE @ + Len(w.data),
                             !.processed = IF w.set # None THEN @ ELSE @ + Len(w.data),
                             !.status = IF heard THEN Mark(Last(w.data)) ELSE @]
<1>1. /\ page' = IF page.at = "writing" /\ p.writes = <<>> THEN Loaded(p, TRUE) ELSE p
      /\ infos' = IF heard THEN Append(infos, p.status) ELSE infos
      /\ page.writes # <<>>
      /\ UNCHANGED <<file, cache, rtinfo, save, events, output, odd>>
  BY DEF Parse
<1>2. page \in TermPages /\ page.writes \in Seq(TermWrites)
  BY DEF TermTypes, TermPages
<1>3. w \in TermWrites
  BY <1>1, <1>2, HeadTailProperties
<1>4. w.data \in Seq(Nat) /\ w.set \in Nat \cup {None}
  BY <1>3 DEF TermWrites
<1>5. /\ p.writes = Tail(page.writes) /\ p.screen = page.screen \o w.data
      /\ p.ptyOffset = IF w.set # None THEN w.set ELSE page.ptyOffset + Len(w.data)
      /\ p.status = IF heard THEN Mark(Last(w.data)) ELSE page.status
      /\ p.at = page.at /\ p.loaded = page.loaded /\ p.stat = page.stat /\ p.from = page.from
      /\ p = [p EXCEPT !.from = page.from]
      /\ DOMAIN p = {"at", "screen", "writes", "ptyOffset", "processed", "heldData", "loaded", "status",
                     "stat", "from", "caching"}
  BY <1>2 DEF TermPages
<1> HIDE DEF p
<1>6. LET q == Loaded(p, TRUE)
      IN /\ q.writes = p.writes /\ q.screen = p.screen /\ q.ptyOffset = p.ptyOffset
         /\ q.status = p.status /\ q.at = "open" /\ q.loaded = TRUE /\ q.stat = None
         /\ q.from = p.from
  BY <1>5 DEF Loaded
<1>7. heard => p.status = Mark(Last(w.data))
  BY <1>5
<1> DEFINE done == page.at = "writing" /\ Tail(page.writes) = <<>>
<1>8. CASE done
  <2>1. page' = Loaded(p, TRUE)
    BY <1>1, <1>5, <1>8
  <2> HIDE DEF heard
  <2>2. infos' = IF heard THEN Append(infos, Mark(Last(w.data))) ELSE infos
    BY <1>1, <1>7
  <2> QED
    BY <1>1, <1>2, <1>3, <1>4, <1>5, <1>6, <1>8, <2>1, <2>2 DEF heard
<1>9. CASE ~done
  <2>1. page' = p
    BY <1>1, <1>5, <1>9
  <2> HIDE DEF heard
  <2>2. infos' = IF heard THEN Append(infos, Mark(Last(w.data))) ELSE infos
    BY <1>1, <1>7
  <2> QED
    BY <1>1, <1>2, <1>3, <1>4, <1>5, <1>9, <2>1, <2>2 DEF heard
<1> QED
  BY <1>8, <1>9

\* A page that has just loaded, with nothing on its way.
LEMMA ArrivesOpened ==
  ASSUME output' \in Nat, file' = Pieces(0, output'), events' = <<>>,
         page'.at = "open", page'.loaded = TRUE, page'.writes = <<>>
  PROVE  Come' = output' /\ Arrives'
<1>1. Len(events') = 0 /\ Len(page'.writes) = 0
  OBVIOUS
<1>2. Come' = output'
  <2>0. \A n \in Nat : n - 0 - 0 = n
    OBVIOUS
  <2>1. output' - 0 - 0 = output'
    BY <2>0, Zenon
  <2>2. Come' = output' - Len(events') - Len(page'.writes)
    BY Zenon DEF Come
  <2> QED
    BY <1>1, <2>1, <2>2, Zenon
<1>3. /\ \A i \in 1 .. Len(page'.writes) : FALSE
      /\ \A i \in 1 .. Len(events') : FALSE
  BY <1>1
<1>4. page'.loaded = (page'.at = "open")
  OBVIOUS
<1> QED
  BY <1>2, <1>3, <1>4, Zenon DEF Arrives

\* While nothing comes, a fetch of the file gives all that is left of it.
LEMMA MainFetched ==
  ASSUME TermTypes, Arrives, ReadMain
  PROVE  LET x == Start(page.from, output)
             v == [data |-> SubSeq(file, x + 1, output), set |-> None]
         IN /\ page.at = "main" /\ page.from \in Nat /\ x \in Nat
            /\ page'.at = "writing" /\ page'.from = page.from /\ page'.stat = None
            /\ page'.screen = page.screen /\ page'.ptyOffset = page.ptyOffset
            /\ page'.loaded = page.loaded /\ page'.status = page.status
            /\ page'.writes = Append(page.writes, v)
            /\ odd' = IF page.from < x THEN odd \cup {"lapped"} ELSE odd
            /\ UNCHANGED <<file, cache, rtinfo, infos, save, events, output>>
<1> DEFINE x == Start(page.from, output)
           v == [data |-> SubSeq(file, x + 1, output), set |-> None]
<1>1. page.at = "main" /\ page.stat # None
  BY DEF ReadMain
<1>2. page.stat.size = output /\ file = Pieces(0, output)
  BY <1>1 DEF Arrives
<1>3. page \in TermPages /\ output \in Nat /\ page.from \in Nat
  BY DEF TermTypes, TermPages
<1>4. x \in Nat
  BY <1>3, StartIdxIs DEF Start
<1>5. Len(file) = output
  <2>1. 0 \in Nat /\ 0 <= output /\ output - 0 = output
    BY <1>3
  <2> QED
    BY <1>2, <1>3, <2>1, PiecesAre
<1>6. /\ \E throws \in Throws(file, x, output) :
           page' = IF throws THEN Loaded(page, FALSE)
                   ELSE [Write(page, Fetched(file, x, output), None) EXCEPT !.at = "writing", !.stat = None]
      /\ odd' = IF page.from < x THEN odd \cup {"lapped"} ELSE odd
      /\ UNCHANGED <<file, cache, rtinfo, infos, save, events, output>>
  BY <1>2, Zenon DEF ReadMain
<1>7. Throws(file, x, output) = {FALSE}
  BY <1>5 DEF Throws
<1>8. page' = [[page EXCEPT !.writes = Append(page.writes, v)] EXCEPT !.at = "writing", !.stat = None]
  BY <1>6, <1>7 DEF Write, Fetched
<1> HIDE DEF v
<1>9. /\ page'.at = "writing" /\ page'.from = page.from /\ page'.stat = None
      /\ page'.screen = page.screen /\ page'.ptyOffset = page.ptyOffset
      /\ page'.loaded = page.loaded /\ page'.status = page.status /\ page'.writes = Append(page.writes, v)
  BY <1>3, <1>8 DEF TermPages
<1> HIDE DEF x
<1> QED
  BY <1>1, <1>3, <1>4, <1>6, <1>9, Zenon DEF v, x

LEMMA ArrivesNext ==
  ASSUME TermTypes, Arrives, [TermNext]_termVars, Still'
  PROVE  Arrives'
<1>0. page \in TermPages /\ events \in Seq(TermEvents) /\ file \in Seq(Nat) /\ output \in Nat
  BY DEF TermTypes
<1>00. /\ page.writes \in Seq(TermWrites) /\ Len(page.writes) \in Nat /\ Len(events) \in Nat
       /\ DOMAIN page = {"at", "screen", "writes", "ptyOffset", "processed", "heldData", "loaded", "status",
                         "stat", "from", "caching"}
  BY <1>0, LenProperties DEF TermPages
<1>1. CASE AppendData
  <2>1. page.at = "open" \/ page.at = "closed"
    BY <1>1 DEF AppendData, Still, Loading
  <2>2. file' = Pieces(0, output') /\ output' = output + 1 /\ page' = page
    BY <1>0, <1>1, PiecesAppend DEF AppendData, Arrives
  <2>3. CASE page.at = "closed"
    BY <1>1, <2>2, <2>3 DEF AppendData, Arrives
  <2>4. CASE page.at = "open"
    <3> DEFINE e == [fileop |-> "append", data |-> output + 1]
    <3>1. events' = Append(events, e)
      BY <1>1, <2>4 DEF AppendData
    <3>2. e \in TermEvents
      BY <1>0 DEF TermEvents
    <3>3. /\ Len(events') = Len(events) + 1 /\ events'[Len(events) + 1] = e
          /\ \A i \in 1 .. Len(events) : events'[i] = events[i]
      <4> HIDE DEF e
      <4> QED
        BY <1>0, <3>1, <3>2, AppendProperties
    <3>4. output' - Len(events') = output - Len(events)
      BY <1>0, <1>00, <2>2, <3>3
    <3>5. Come' = Come
      BY <2>2, <3>4 DEF Come
    <3>6. ASSUME NEW i \in 1 .. Len(events')
          PROVE  events'[i] = [fileop |-> "append", data |-> output' - Len(events') + i]
      <4>1. CASE i = Len(events) + 1
        <5>1. output' - Len(events') + i = output + 1
          BY <1>0, <1>00, <3>4, <4>1
        <5> QED
          BY <3>3, <4>1, <5>1
      <4>2. CASE i # Len(events) + 1
        <5>1. i \in 1 .. Len(events)
          BY <1>00, <3>3, <4>2
        <5> QED
          BY <2>4, <3>3, <3>4, <5>1 DEF Arrives
      <4> QED
        BY <4>1, <4>2
    <3> QED
      BY <2>2, <2>4, <3>5, <3>6 DEF Arrives
  <2> QED
    BY <2>1, <2>3, <2>4
<1>2. CASE Truncate
  BY <1>2 DEF Truncate, Still
<1>3. CASE SaveState \/ SaveMeta \/ SetRTInfo
  <2>1. UNCHANGED <<file, page, output, events>>
    BY <1>3 DEF SaveState, SaveMeta, SetRTInfo
  <2> QED
    BY <2>1 DEF Arrives, Come
<1>4. CASE Quit \/ Dispose
  <2>1. UNCHANGED <<file, output>> /\ events' = <<>> /\ page' = ClosedPage
    BY <1>4 DEF Quit, Dispose
  <2> QED
    BY <2>1 DEF Arrives, ClosedPage, NewPage
<1>5. CASE InitTerminal
  <2>1. UNCHANGED <<file, output, events>> /\ page' = NewPage /\ page.at = "closed"
    BY <1>5 DEF InitTerminal
  <2> QED
    BY <2>1 DEF Arrives, NewPage
<1>6. CASE GetRTInfo
  <2>1. UNCHANGED <<file, output, events>> /\ page.at = "rtinfo"
    BY <1>6 DEF GetRTInfo
  <2>2. page' = [page EXCEPT !.at = "cache", !.status = rtinfo]
    BY <1>6 DEF GetRTInfo
  <2>3. /\ page'.at = "cache" /\ page'.writes = page.writes /\ page'.screen = page.screen
        /\ page'.ptyOffset = page.ptyOffset /\ page'.from = page.from /\ page'.loaded = page.loaded
    BY <1>00, <2>2
  <2> QED
    BY <2>1, <2>3 DEF Arrives
<1>7. CASE StatCache
  <2>1. UNCHANGED <<file, output, events>> /\ page.at = "cache" /\ page.stat = None
    BY <1>7 DEF StatCache
  <2>2. /\ page'.at \in {"main", "cache"} /\ page'.writes = page.writes /\ page'.screen = page.screen
        /\ page'.ptyOffset = page.ptyOffset /\ page'.from = page.from /\ page'.loaded = page.loaded
        /\ page'.at = "main" => page'.stat = None
    BY <1>00, <1>7 DEF StatCache
  <2> QED
    BY <2>1, <2>2 DEF Arrives
<1>8. CASE ReadCache
  <2> DEFINE size == page.stat.size
             data == IF cache = None THEN <<>> ELSE cache.data
             p == [page EXCEPT !.at = "main", !.from = page.stat.ptyOffset, !.stat = None]
  <2>1. UNCHANGED <<file, output, events>> /\ page.at = "cache" /\ page.stat # None
    BY <1>8 DEF ReadCache
  <2>2. page.writes = <<>> /\ events = <<>> /\ page.loaded = FALSE
    BY <2>1 DEF Arrives
  <2>3. \/ page' = Loaded(page, FALSE)
        \/ page' = Write(p, Fetched(data, 0, size), page.stat.ptyOffset)
        \/ page' = p
    BY <1>8, Zenon DEF ReadCache
  <2>4. CASE page' = Loaded(page, FALSE)
    <3>1. page'.at = "open" /\ page'.writes = <<>> /\ page'.loaded = TRUE
      BY <1>00, <2>2, <2>4 DEF Loaded
    <3>2. output' \in Nat /\ file' = Pieces(0, output') /\ events' = <<>>
      BY <1>0, <2>1, <2>2 DEF Arrives
    <3> QED
      BY <3>1, <3>2, ArrivesOpened
  <2>5. CASE page' = p \/ page' = Write(p, Fetched(data, 0, size), page.stat.ptyOffset)
    <3>1. /\ p.at = "main" /\ p.loaded = FALSE /\ p.stat = None
          /\ DOMAIN p = {"at", "screen", "writes", "ptyOffset", "processed", "heldData", "loaded", "status",
                         "stat", "from", "caching"}
      BY <1>00, <2>2
    <3> HIDE DEF p, data, size
    <3>2. page'.at = "main" /\ page'.loaded = FALSE /\ page'.stat = None
      BY <2>5, <3>1 DEF Write
    <3> QED
      BY <2>1, <2>2, <3>2 DEF Arrives
  <2> QED
    BY <2>3, <2>4, <2>5
<1>9. CASE StatMain
  <2>1. UNCHANGED <<file, output, events>> /\ page.at = "main"
    BY <1>9 DEF StatMain
  <2>2. page' = [page EXCEPT !.stat = Stat(Len(file), 0)]
    BY <1>9 DEF StatMain
  <2>3. page'.at = "main" /\ page'.loaded = page.loaded /\ page'.stat.size = Len(file)
    BY <1>00, <2>1, <2>2 DEF Stat
  <2>4. Len(file) = output
    <3>1. 0 \in Nat /\ 0 <= output /\ output - 0 = output
      BY <1>0
    <3> QED
      BY <1>0, <3>1, PiecesAre DEF Arrives
  <2> QED
    BY <2>1, <2>3, <2>4 DEF Arrives
<1>10. CASE ReadMain
  <2>1. page.at = "main" /\ page.stat # None
    BY <1>10 DEF ReadMain
  <2>2. events = <<>> /\ page.loaded = FALSE /\ file = Pieces(0, output)
    BY <2>1 DEF Arrives
  <2>3. /\ UNCHANGED <<file, output, events>>
        /\ page'.at = "writing" /\ page'.loaded = FALSE
    BY <1>10, <2>2, MainFetched, Zenon
  <2> QED
    BY <2>1, <2>2, <2>3 DEF Arrives
<1>11. CASE NewFileData
  <2> DEFINE e == Head(events)
  <2>1. /\ events # <<>> /\ events' = Tail(events) /\ UNCHANGED <<file, output>>
        /\ page.at = "open" /\ page.loaded = TRUE
    BY <1>11 DEF NewFileData, Arrives
  <2>2. /\ Len(events) > 0 /\ Len(Tail(events)) = Len(events) - 1
        /\ e = events[1] /\ \A i \in 1 .. Len(events) - 1 : Tail(events)[i] = events[i + 1]
    BY <1>0, <1>00, <2>1, HeadTailProperties
  <2>3. e = [fileop |-> "append", data |-> output - Len(events) + 1]
    <3>1. 1 \in 1 .. Len(events)
      BY <1>00, <2>2
    <3> QED
      BY <2>1, <2>2, <3>1 DEF Arrives
  <2>4. page' = Write(page, <<e.data>>, None)
    BY <2>1, <2>3, <1>11 DEF NewFileData
  <2> DEFINE c == output - Len(events) - Len(page.writes)
             v == [data |-> <<e.data>>, set |-> None]
  <2>5. /\ c \in Nat /\ e.data = c + (Len(page.writes) + 1)
        /\ \A i \in 1 .. Len(page.writes) : page.writes[i] = [data |-> <<c + i>>, set |-> None]
    BY <1>0, <1>00, <2>1, <2>3 DEF Arrives, Come
  <2>6. v \in TermWrites
    <3>1. <<e.data>> \in Seq(Nat)
      BY <1>00, <2>5
    <3> QED
      BY <3>1 DEF TermWrites
  <2>7. /\ page'.at = "open" /\ page'.loaded = TRUE /\ page'.writes = Append(page.writes, v)
        /\ page'.stat = page.stat
    BY <1>00, <2>1, <2>4 DEF Write
  <2>8. v = [data |-> <<c + (Len(page.writes) + 1)>>, set |-> None]
    BY <2>5
  <2> HIDE DEF e, c, v
  <2>9. /\ Len(page'.writes) = Len(page.writes) + 1 /\ page'.writes[Len(page.writes) + 1] = v
        /\ \A i \in 1 .. Len(page.writes) : page'.writes[i] = page.writes[i]
    BY <1>00, <2>6, <2>7, AppendProperties
  <2>10. Come' = c
    BY <1>0, <1>00, <2>1, <2>2, <2>9 DEF Come, c
  <2>11. ASSUME NEW i \in 1 .. Len(page'.writes)
         PROVE  page'.writes[i] = [data |-> <<c + i>>, set |-> None]
    <3>1. CASE i = Len(page.writes) + 1
      BY <2>8, <2>9, <3>1
    <3>2. CASE i # Len(page.writes) + 1
      <4>1. i \in 1 .. Len(page.writes)
        BY <1>00, <2>9, <3>2
      <4> QED
        BY <2>5, <2>9, <4>1
    <3> QED
      BY <3>1, <3>2
  <2>12. ASSUME NEW i \in 1 .. Len(events')
         PROVE  events'[i] = [fileop |-> "append", data |-> output' - Len(events') + i]
    <3>1. i \in 1 .. Len(events) - 1 /\ i + 1 \in 1 .. Len(events)
      BY <1>00, <2>1, <2>2
    <3>2. output - Len(events) + (i + 1) = output' - Len(events') + i
      BY <1>0, <1>00, <2>1, <2>2, <3>1
    <3>3. events[i + 1] = [fileop |-> "append", data |-> output - Len(events) + (i + 1)]
      BY <2>1, <3>1 DEF Arrives
    <3> QED
      BY <2>1, <2>2, <3>1, <3>2, <3>3
  <2> QED
    BY <2>1, <2>5, <2>7, <2>10, <2>11, <2>12 DEF Arrives
<1>12. CASE Parse
  <2>1. PICK w : w = Head(page.writes)
    OBVIOUS
  <2> DEFINE done == page.at = "writing" /\ Tail(page.writes) = <<>>
  <2>2. /\ page.writes # <<>> /\ page.writes \in Seq(TermWrites)
        /\ page'.writes = Tail(page.writes)
        /\ page'.at = IF done THEN "open" ELSE page.at
        /\ page'.loaded = IF done THEN TRUE ELSE page.loaded
        /\ page'.stat = IF done THEN None ELSE page.stat
        /\ UNCHANGED <<file, cache, rtinfo, save, events, output, odd>>
    BY <1>12, <2>1, ParseDoes
  <2>3. page.at \in {"main", "writing", "open"}
    BY <1>0, <2>2 DEF Arrives, TermPages
  <2>4. CASE page.at \in {"main", "writing"} /\ ~done
    BY <2>2, <2>4 DEF Arrives
  <2>5. CASE done
    <3>1. events' = <<>> /\ page'.writes = <<>> /\ page'.at = "open" /\ page'.loaded = TRUE
      BY <2>2, <2>5 DEF Arrives
    <3>2. output' \in Nat /\ file' = Pieces(0, output')
      BY <1>0, <2>2 DEF Arrives
    <3> QED
      BY <3>1, <3>2, ArrivesOpened
  <2>6. CASE page.at = "open"
    <3>1. page'.at = "open" /\ page'.loaded = page.loaded
      BY <2>2, <2>6
    <3>2. /\ Len(page'.writes) = Len(page.writes) - 1 /\ Len(page.writes) > 0
          /\ \A i \in 1 .. Len(page.writes) - 1 : page'.writes[i] = page.writes[i + 1]
      BY <1>00, <2>2, HeadTailProperties
    <3> DEFINE c == output - Len(events) - Len(page.writes)
    <3>3. /\ c \in Nat
          /\ \A i \in 1 .. Len(page.writes) : page.writes[i] = [data |-> <<c + i>>, set |-> None]
      BY <2>6 DEF Arrives, Come
    <3>4. Come' = c + 1
      BY <1>0, <1>00, <2>2, <3>2 DEF Come
    <3> HIDE DEF c
    <3>5. ASSUME NEW i \in 1 .. Len(page'.writes)
          PROVE  page'.writes[i] = [data |-> <<Come' + i>>, set |-> None]
      <4>1. i \in 1 .. Len(page.writes) - 1 /\ i + 1 \in 1 .. Len(page.writes) /\ c + (i + 1) = Come' + i
        BY <1>00, <3>2, <3>3, <3>4
      <4>2. page.writes[i + 1] = [data |-> <<c + (i + 1)>>, set |-> None]
        BY <3>3, <4>1
      <4> QED
        BY <3>2, <4>1, <4>2
    <3> QED
      BY <2>2, <2>6, <3>1, <3>3, <3>4, <3>5 DEF Arrives
  <2> QED
    BY <2>3, <2>4, <2>5, <2>6
<1>13. CASE ProcessAndCacheData
  <2>1. UNCHANGED <<file, output, events>> /\ page.at = "open"
    BY <1>13 DEF ProcessAndCacheData
  <2>2. page' = [page EXCEPT !.processed = 0]
    BY <1>13 DEF ProcessAndCacheData
  <2>3. page'.at = page.at /\ page'.loaded = page.loaded /\ page'.writes = page.writes
    BY <1>00, <2>2
  <2>4. Come' = Come
    BY <2>1, <2>3 DEF Come
  <2> QED
    BY <2>1, <2>3, <2>4 DEF Arrives
<1>14. CASE UNCHANGED termVars
  BY <1>14 DEF termVars, Arrives, Come
<1> QED
  BY <1>1, <1>2, <1>3, <1>4, <1>5, <1>6, <1>7, <1>8, <1>9, <1>10, <1>11, <1>12, <1>13, <1>14 DEF TermNext, Load

-----------------------------------------------------------------------------
\* What was cached.

LEMMA ShowsLater ==
  ASSUME NEW o, NEW q, Later(o, q)
  PROVE  /\ \A t : \A k \in Nat : Shows(o, t, k) => Shows(q, t, k)
         /\ \A t : \A k \in Nat : Covers(t, Lost(o), k) => Covers(t, Lost(q), k)
         /\ \A n, k : Counts(o, n, k) => Counts(q, n, k)
         /\ \A w : \A from \in Nat : Cached(o, w, from) => Cached(q, w, from)
<1>1. Lost(o) \in Nat /\ Lost(q) \in Nat /\ Lost(o) <= Lost(q) /\ (Exact(q) => Exact(o))
  BY DEF Later
<1>2. ASSUME NEW t, NEW k \in Nat, Covers(t, Lost(o), k)  PROVE  Covers(t, Lost(q), k)
  <2>1. k <= k
    OBVIOUS
  <2> QED
    BY <1>1, <1>2, <2>1, CoversLess
<1>3. ASSUME NEW t, NEW k \in Nat, Shows(o, t, k)  PROVE  Shows(q, t, k)
  BY <1>1, <1>2, <1>3 DEF Shows
<1>4. ASSUME NEW n, NEW k, Counts(o, n, k)  PROVE  Counts(q, n, k)
  BY <1>1, <1>4 DEF Counts
<1> QED
  BY <1>2, <1>3, <1>4 DEF Cached

\* A screen shows less, too, when it is counted as less.
LEMMA ShowsLess ==
  ASSUME NEW o, NEW t, NEW k \in Nat, NEW n \in Nat, Lost(o) \in Nat, Shows(o, t, k), Counts(o, n, k)
  PROVE  Shows(o, t, n)
<1>1. n <= k /\ Lost(o) <= Lost(o)
  BY DEF Counts
<1>2. Covers(t, Lost(o), n)
  BY <1>1, CoversLess DEF Shows
<1> QED
  BY <1>2 DEF Shows, Counts

LEMMA ShowsOn ==
  ASSUME NEW o, NEW t \in Seq(Nat), NEW k \in Nat, NEW m \in Nat, NEW x \in Nat, NEW n \in Nat,
         Lost(o) \in Nat, x <= m, x = k \/ (x <= Lost(o) /\ ~Exact(o)), k <= x,
         Shows(o, t, k), Counts(o, n, k)
  PROVE  /\ Shows(o, t \o Pieces(x, m), m)
         /\ Counts(o, n + Len(Pieces(x, m)), m)
<1>1. Covers(t \o Pieces(x, m), Lost(o), m)
  <2>1. x <= k \/ x <= Lost(o)
    OBVIOUS
  <2> QED
    BY <2>1, CoversOn DEF Shows
<1>2. ASSUME Exact(o)  PROVE  t \o Pieces(x, m) = Pieces(0, m)
  <2>1. 0 \in Nat /\ 0 <= k /\ x = k /\ k <= m
    BY <1>2
  <2>2. t = Pieces(0, k)
    BY <1>2 DEF Shows
  <2> QED
    BY <2>1, <2>2, PiecesJoin
<1>3. Len(Pieces(x, m)) = m - x
  BY PiecesAre
<1> QED
  BY <1>1, <1>2, <1>3 DEF Shows, Counts

LEMMA PastIs ==
  ASSUME TermTypes
  PROVE  Lost(Past) \in Nat /\ Past.output = output /\ Past.odd = odd
BY StartIdxIs DEF TermTypes, Past, Lost

LEMMA LaterNext ==
  ASSUME TermTypes, [TermNext]_termVars
  PROVE  Later(Past, Past')
<1>1. output \in Nat /\ odd \subseteq odd'
  BY OddGrows DEF TermTypes
<1>2. output' = output \/ output' = output + 1
  <2>1. CASE AppendData \/ Truncate \/ SaveState \/ SaveMeta
    BY <2>1 DEF AppendData, Truncate, SaveState, SaveMeta
  <2>2. CASE SetRTInfo \/ Quit \/ InitTerminal \/ NewFileData
    BY <2>2 DEF SetRTInfo, Quit, InitTerminal, NewFileData
  <2>3. CASE ProcessAndCacheData \/ Dispose \/ GetRTInfo \/ StatCache
    BY <2>3 DEF ProcessAndCacheData, Dispose, GetRTInfo, StatCache
  <2>4. CASE ReadCache \/ StatMain \/ ReadMain \/ Parse
    BY <2>4 DEF ReadCache, StatMain, ReadMain, Parse
  <2>5. CASE UNCHANGED termVars
    BY <2>5 DEF termVars
  <2> QED
    BY <2>1, <2>2, <2>3, <2>4, <2>5 DEF TermNext, Load
<1>3. /\ DataStartIdx(output) \in Nat /\ DataStartIdx(output') \in Nat
      /\ DataStartIdx(output) <= DataStartIdx(output')
  <2>1. output + 1 \in Nat
    BY <1>1
  <2> QED
    BY <1>1, <1>2, <2>1, StartIdxIs
<1>4. /\ Past.odd = odd /\ Past.output = output
      /\ Past'.odd = odd' /\ Past'.output = output'
  BY DEF Past
<1>5. Lost(Past) \in Nat /\ Lost(Past') \in Nat /\ Lost(Past) <= Lost(Past')
  BY <1>1, <1>3, <1>4 DEF Lost
<1>6. Exact(Past') => Exact(Past)
  BY <1>1, <1>4 DEF Exact
<1> QED
  BY <1>5, <1>6 DEF Later

LEMMA StillBefore ==
  ASSUME [TermNext]_termVars, Still'
  PROVE  Still
BY OddGrows DEF Still

LEMMA CalmBefore ==
  ASSUME [TermNext]_termVars, Calm'
  PROVE  Calm
BY OddGrows, StillBefore DEF Calm

LEMMA CacheNext ==
  ASSUME TermTypes, Arrives, CachePlace, OpenPlace, [TermNext]_termVars, Calm'
  PROVE  CachePlace'
<1>0. Later(Past, Past')
  BY LaterNext
<1>1. /\ output \in Nat /\ cache \in Caches \cup {None} /\ save \in Saves \cup {None}
      /\ page \in TermPages /\ Past'.output = output' /\ Past.output = output
      /\ Lost(Past) \in Nat /\ Lost(Past') \in Nat /\ Lost(Past) <= Lost(Past')
  BY <1>0 DEF TermTypes, Past, Later
<1>2. /\ cache # None => cache \in Caches /\ cache.ptyOffset \in Nat
      /\ save # None => save \in Saves /\ save.ptyOffset \in Nat
  BY <1>1 DEF Caches, Saves
<1>3. ASSUME UNCHANGED <<cache, save>>, output' = output \/ output' = output + 1
      PROVE  CachePlace'
  <2>1. output' \in Nat /\ output <= output'
    BY <1>1, <1>3
  <2>2. ASSUME NEW k \in Nat, k <= output  PROVE  k <= output'
    BY <1>1, <2>1, <2>2
  <2>3. ASSUME cache # None
        PROVE  /\ Covers(cache.data, Lost(Past'), cache.ptyOffset) /\ cache.ptyOffset <= output'
               /\ save = None \/ ~save.written => Shows(Past', cache.data, cache.ptyOffset)
    BY <1>0, <1>2, <2>2, <2>3, ShowsLater DEF CachePlace
  <2>4. ASSUME save # None  PROVE  \E c \in Nat : Saved(Past, save, c)'
    <3>1. PICK c \in Nat : Saved(Past, save, c)
      BY <2>4 DEF CachePlace
    <3>2. Saved(Past, save, c)'
      BY <1>0, <1>1, <1>3, <2>2, <3>1, ShowsLater DEF Saved
    <3> QED
      BY <3>2
  <2>5. save # None /\ save.written => cache # None /\ cache.data = save.data
    BY DEF CachePlace
  <2> QED
    BY <1>3, <2>3, <2>4, <2>5 DEF CachePlace
<1>4. CASE Truncate
  BY <1>4 DEF Truncate, Calm, Still
<1>5. CASE SaveState
  <2>1. /\ save \in Saves /\ ~save.written /\ UNCHANGED output
        /\ cache' = [data |-> save.data, ptyOffset |-> IF cache = None THEN 0 ELSE cache.ptyOffset]
        /\ save' = [save EXCEPT !.written = TRUE]
    BY <1>2, <1>5 DEF SaveState
  <2>2. /\ save'.data = save.data /\ save'.ptyOffset = save.ptyOffset /\ save'.written
        /\ save' \in Saves
    BY <2>1 DEF Saves
  <2>3. cache'.data = save.data /\ cache'.ptyOffset = IF cache = None THEN 0 ELSE cache.ptyOffset
    BY <2>1
  <2>4. cache' # None /\ save' # None /\ save # None
    <3>1. save.data \in Seq(Nat) /\ (IF cache = None THEN 0 ELSE cache.ptyOffset) \in Nat
      BY <1>2, <2>1 DEF Saves
    <3>2. cache' \in Caches
      BY <2>1, <3>1 DEF Caches
    <3> QED
      BY <1>5, <2>2, <3>2, TermAssumption DEF SaveState
  <2>5. PICK c \in Nat : Saved(Past, save, c)
    BY <2>4 DEF CachePlace
  <2>6. c <= output /\ Shows(Past', save.data, c) /\ Counts(Past', save.ptyOffset, c)
    BY <1>0, <1>1, <2>5, ShowsLater DEF Saved
  <2>7. cache'.ptyOffset \in Nat /\ cache'.ptyOffset <= c
    BY <1>2, <2>3, <2>5 DEF Saved
  <2>8. cache'.ptyOffset <= output
    BY <1>1, <2>6, <2>7
  <2>9. Covers(save.data, Lost(Past'), cache'.ptyOffset)
    <3>1. Lost(Past') <= Lost(Past')
      BY <1>1
    <3> QED
      BY <1>1, <2>6, <2>7, <3>1, CoversLess DEF Shows
  <2>10. Saved(Past, save, c)'
    BY <1>1, <2>1, <2>2, <2>6, <2>7 DEF Saved
  <2> QED
    BY <2>1, <2>2, <2>3, <2>4, <2>8, <2>9, <2>10 DEF CachePlace
<1>6. CASE SaveMeta
  <2>1. /\ save # None /\ save.written /\ save' = None /\ UNCHANGED output
        /\ cache' = IF cache = None THEN None ELSE [cache EXCEPT !.ptyOffset = save.ptyOffset]
    BY <1>6 DEF SaveMeta
  <2>2. cache # None /\ cache.data = save.data
    BY <2>1 DEF CachePlace
  <2>3. cache'.data = save.data /\ cache'.ptyOffset = save.ptyOffset
    BY <1>2, <2>1, <2>2 DEF Caches
  <2>4. PICK c \in Nat : Saved(Past, save, c)
    BY <2>1 DEF CachePlace
  <2>5. c <= output /\ Shows(Past', save.data, c) /\ Counts(Past', save.ptyOffset, c)
    BY <1>0, <1>1, <2>4, ShowsLater DEF Saved
  <2>6. Shows(Past', save.data, save.ptyOffset)
    BY <1>1, <1>2, <2>1, <2>5, ShowsLess
  <2>7. save.ptyOffset <= output
    BY <1>1, <1>2, <2>1, <2>5 DEF Counts
  <2> QED
    BY <2>1, <2>3, <2>6, <2>7 DEF CachePlace, Shows
<1>7. CASE Quit
  <2>1. /\ UNCHANGED <<cache, output>> /\ save' = None
        /\ save # None /\ save.written => "torn" \in odd'
    BY <1>7 DEF Quit
  <2>2. ASSUME cache # None
        PROVE  Shows(Past', cache.data, cache.ptyOffset) /\ cache.ptyOffset <= output
    <3>1. Covers(cache.data, Lost(Past'), cache.ptyOffset) /\ cache.ptyOffset <= output
      BY <1>0, <1>2, <2>2, ShowsLater DEF CachePlace
    <3>2. CASE save # None /\ save.written
      BY <2>1, <3>1, <3>2 DEF Shows, Exact, Past
    <3>3. CASE save = None \/ ~save.written
      BY <1>0, <1>2, <2>2, <3>1, <3>3, ShowsLater DEF CachePlace
    <3> QED
      BY <3>2, <3>3
  <2> QED
    BY <2>1, <2>2 DEF CachePlace, Shows
<1>8. CASE ProcessAndCacheData
  <2>1. /\ page.at = "open" /\ save = None /\ UNCHANGED <<cache, output>>
        /\ save' = [data |-> page.screen, ptyOffset |-> page.ptyOffset, written |-> FALSE]
    BY <1>8 DEF ProcessAndCacheData
  <2>2. save'.data = page.screen /\ save'.ptyOffset = page.ptyOffset /\ ~save'.written
    BY <2>1
  <2>3. /\ Come \in Nat /\ Counts(Past', page.ptyOffset, Come) /\ Shows(Past', page.screen, Come)
        /\ cache # None => cache.ptyOffset <= Come
    <3>1. Come \in Nat
      BY <2>1 DEF Arrives
    <3> QED
      BY <1>0, <2>1, <3>1, ShowsLater DEF OpenPlace
  <2>4. Come <= output
    <3>1. page.writes \in Seq(TermWrites) /\ events \in Seq(TermEvents)
      BY DEF TermTypes, TermPages
    <3>2. Len(page.writes) \in Nat /\ Len(events) \in Nat
      BY <3>1, LenProperties
    <3> QED
      BY <1>1, <3>2 DEF Come
  <2>5. ASSUME cache # None
        PROVE  /\ Covers(cache.data, Lost(Past'), cache.ptyOffset) /\ cache.ptyOffset <= output
               /\ Shows(Past', cache.data, cache.ptyOffset)
    BY <1>0, <1>2, <2>1, <2>5, ShowsLater DEF CachePlace
  <2>6. \E c \in Nat : Saved(Past, save, c)'
    <3>1. PICK c \in Nat : c = Come
      BY <2>3
    <3>2. Saved(Past, save, c)'
      BY <1>1, <2>1, <2>2, <2>3, <2>4, <3>1 DEF Saved
    <3> QED
      BY <3>2
  <2> QED
    BY <2>1, <2>2, <2>5, <2>6 DEF CachePlace
<1>9. CASE AppendData \/ SetRTInfo \/ InitTerminal \/ GetRTInfo \/ StatCache
  BY <1>3, <1>9 DEF AppendData, SetRTInfo, InitTerminal, GetRTInfo, StatCache
<1>10. CASE ReadCache \/ StatMain \/ ReadMain \/ NewFileData
  BY <1>3, <1>10 DEF ReadCache, StatMain, ReadMain, NewFileData
<1>11. CASE Parse \/ Dispose
  BY <1>3, <1>11 DEF Parse, Dispose
<1>12. CASE UNCHANGED termVars
  BY <1>3, <1>12 DEF termVars
<1> QED
  BY <1>4, <1>5, <1>6, <1>7, <1>8, <1>9, <1>10, <1>11, <1>12 DEF TermNext, Load

\* ReadCache and ReadMain, while the page is where it should be.
LEMMA ReadCacheDoes ==
  ASSUME TermTypes, Arrives, LoadPlace, ReadCache
  PROVE  LET w == [data |-> cache.data, set |-> page.stat.ptyOffset]
         IN /\ page.at = "cache" /\ page.stat # None /\ cache # None
            /\ page.stat.ptyOffset \in Nat /\ page.stat.ptyOffset <= output
            /\ Shows(Past, cache.data, page.stat.ptyOffset)
            /\ page'.at = "main" /\ page'.from = page.stat.ptyOffset /\ page'.stat = None
            /\ page'.screen = <<>> /\ page'.ptyOffset = 0 /\ page'.loaded = FALSE
            /\ page'.status = page.status
            /\ \/ w \in TermWrites /\ page'.writes = <<w>>
               \/ page'.writes = <<>> /\ cache.data = <<>>
            /\ UNCHANGED <<file, cache, rtinfo, infos, save, events, output, odd>>
<1> DEFINE size == page.stat.size
           p == [page EXCEPT !.at = "main", !.from = page.stat.ptyOffset, !.stat = None]
           w == [data |-> cache.data, set |-> page.stat.ptyOffset]
<1>1. /\ page.at = "cache" /\ page.stat # None
      /\ UNCHANGED <<file, cache, rtinfo, infos, save, events, output, odd>>
  BY DEF ReadCache
<1>2. /\ cache # None /\ size = Len(cache.data) /\ page.stat.ptyOffset <= output
      /\ Shows(Past, cache.data, page.stat.ptyOffset)
  BY <1>1 DEF LoadPlace
<1>3. page \in TermPages /\ page.stat \in Stats /\ cache.data \in Seq(Nat)
  BY <1>1, <1>2 DEF TermTypes, TermPages, Caches
<1>4. size \in Nat /\ page.stat.ptyOffset \in Nat
  BY <1>3 DEF Stats
<1>5. Throws(cache.data, 0, size) = {FALSE} /\ Fetched(cache.data, 0, size) = cache.data
  <2>1. 0 + 1 = 1 /\ SubSeq(cache.data, 1, size) = cache.data
    BY <1>2, <1>3, SubSeqFull
  <2> QED
    BY <1>2, <2>1 DEF Throws, Fetched
<1>6. page' = IF size > 0 THEN Write(p, cache.data, page.stat.ptyOffset) ELSE p
  <2>1. \E throws \in Throws(cache.data, 0, size) :
           page' = IF throws THEN Loaded(page, FALSE)
                   ELSE IF size > 0 THEN Write(p, Fetched(cache.data, 0, size), page.stat.ptyOffset)
                   ELSE p
    BY <1>2, Zenon DEF ReadCache
  <2> HIDE DEF p, size
  <2> QED
    BY <1>5, <2>1
<1>7. page.writes = <<>> /\ page.screen = <<>> /\ page.ptyOffset = 0 /\ page.loaded = FALSE
  BY <1>1 DEF Arrives
<1>8. /\ p.at = "main" /\ p.from = page.stat.ptyOffset /\ p.stat = None /\ p.screen = <<>>
      /\ p.ptyOffset = 0 /\ p.loaded = FALSE /\ p.writes = <<>> /\ p.status = page.status
      /\ DOMAIN p = {"at", "screen", "writes", "ptyOffset", "processed", "heldData", "loaded", "status",
                     "stat", "from", "caching"}
  BY <1>3, <1>7 DEF TermPages
<1> HIDE DEF p
<1>9. CASE size > 0
  <2>1. w \in TermWrites
    BY <1>3, <1>4 DEF TermWrites
  <2> HIDE DEF w
  <2>2. page' = [p EXCEPT !.writes = Append(p.writes, w)]
    BY <1>6, <1>9 DEF Write, w
  <2>3. Append(p.writes, w) = <<w>>
    BY <1>8
  <2>4. /\ page'.at = "main" /\ page'.from = page.stat.ptyOffset /\ page'.stat = None
        /\ page'.screen = <<>> /\ page'.ptyOffset = 0 /\ page'.loaded = FALSE
        /\ page'.status = page.status /\ page'.writes = <<w>>
    BY <1>8, <2>2, <2>3
  <2> QED
    BY <1>1, <1>2, <1>4, <2>1, <2>4 DEF w
<1>10. CASE ~(size > 0)
  <2>1. cache.data = <<>>
    BY <1>2, <1>3, <1>4, <1>10, EmptySeq
  <2>2. page' = p
    BY <1>6, <1>10
  <2> QED
    BY <1>1, <1>2, <1>4, <1>8, <2>1, <2>2
<1> QED
  BY <1>9, <1>10

LEMMA ReadMainDoes ==
  ASSUME TermTypes, Arrives, LoadPlace, ReadMain
  PROVE  /\ page.at = "main" /\ page.from \in Nat /\ page.from <= output
         /\ \E v \in TermWrites, x \in Nat :
              /\ Follows(Past', page.from, x) /\ v = [data |-> Pieces(x, output), set |-> None]
              /\ page'.writes = Append(page.writes, v)
         /\ page'.at = "writing" /\ page'.from = page.from /\ page'.stat = None
         /\ page'.screen = page.screen /\ page'.ptyOffset = page.ptyOffset
         /\ page'.loaded = FALSE /\ page'.status = page.status
         /\ UNCHANGED <<file, cache, rtinfo, infos, save, events, output>>
<1> DEFINE x == Start(page.from, output)
           v == [data |-> SubSeq(file, x + 1, output), set |-> None]
<1>1. /\ page.at = "main" /\ page.from \in Nat /\ x \in Nat
      /\ page'.at = "writing" /\ page'.from = page.from /\ page'.stat = None
      /\ page'.screen = page.screen /\ page'.ptyOffset = page.ptyOffset
      /\ page'.loaded = page.loaded /\ page'.status = page.status
      /\ page'.writes = Append(page.writes, v)
      /\ odd' = IF page.from < x THEN odd \cup {"lapped"} ELSE odd
      /\ UNCHANGED <<file, cache, rtinfo, infos, save, events, output>>
  BY MainFetched
<1>2. page.from <= output /\ page.loaded = FALSE /\ file = Pieces(0, output) /\ output \in Nat
  BY <1>1 DEF LoadPlace, Arrives, TermTypes
<1>3. page.from <= x /\ x <= output /\ (page.from < x => x = DataStartIdx(output))
  BY <1>1, <1>2, StartIs
<1> HIDE DEF x
<1>4. v = [data |-> Pieces(x, output), set |-> None]
  BY <1>1, <1>2, <1>3, PiecesPart
<1>5. v \in TermWrites
  BY <1>1, <1>2, <1>3, <1>4, PiecesAre DEF TermWrites
<1>6. Follows(Past', page.from, x)
  <2>1. Past'.odd = odd' /\ Past'.output = output
    BY <1>1 DEF Past
  <2>2. CASE page.from < x
    <3>1. "lapped" \in odd'
      BY <1>1, <2>2
    <3>2. x <= Lost(Past') /\ ~Exact(Past')
      BY <1>1, <1>3, <2>1, <2>2, <3>1 DEF Lost, Exact
    <3> QED
      BY <1>1, <1>3, <2>1, <3>2 DEF Follows
  <2>3. CASE ~(page.from < x)
    BY <1>1, <1>3, <2>1, <2>3 DEF Follows
  <2> QED
    BY <2>2, <2>3
<1> HIDE DEF v
<1> QED
  BY <1>1, <1>2, <1>4, <1>5, <1>6

\* Parse, while a page loads: it ends with what there is of the file on the screen.
LEMMA LoadParses ==
  ASSUME TermTypes, Arrives, LoadPlace, Parse, page.at \in {"main", "writing"}
  PROVE  /\ page'.from = page.from /\ page'.status = page.status
         /\ UNCHANGED <<file, cache, rtinfo, infos, save, events, output, odd>>
         /\ \/ page.at = "main" /\ page'.at = "main" /\ page'.writes = <<>> /\ Parsed(Past, page') /\ page'.stat = page.stat
            \/ /\ page.at = "writing" /\ page'.at = "writing" /\ Parsed(Past, page')
               /\ \E v \in TermWrites, x \in Nat :
                    /\ Follows(Past, page.from, x) /\ v = [data |-> Pieces(x, output), set |-> None]
                    /\ page'.writes = <<v>>
            \/ /\ page.at = "writing" /\ page'.at = "open" /\ page'.loaded = TRUE /\ page'.writes = <<>>
               /\ Counts(Past, page'.ptyOffset, output) /\ Shows(Past, page'.screen, output)
<1> DEFINE done == page.at = "writing" /\ Tail(page.writes) = <<>>
<1>1. PICK w : w = Head(page.writes)
  OBVIOUS
<1>2. /\ page.loaded = FALSE /\ page.writes # <<>>
      /\ w \in TermWrites /\ w.data \in Seq(Nat) /\ w.set \in Nat \cup {None}
      /\ page'.writes = Tail(page.writes)
      /\ page'.screen = page.screen \o w.data
      /\ page'.ptyOffset = IF w.set # None THEN w.set ELSE page.ptyOffset + Len(w.data)
      /\ page'.status = page.status
      /\ page'.at = IF done THEN "open" ELSE page.at
      /\ page'.loaded = IF done THEN TRUE ELSE page.loaded
      /\ page'.stat = IF done THEN None ELSE page.stat
      /\ page'.from = page.from
      /\ UNCHANGED <<file, cache, rtinfo, infos, save, events, output, odd>>
  <2>1. page.loaded = FALSE
    BY DEF Arrives
  <2> QED
    BY <1>1, <2>1, ParseDoes
<1>3. /\ page.from \in Nat /\ page.from <= output /\ output \in Nat /\ page.screen \in Seq(Nat)
      /\ page.ptyOffset \in Nat /\ Lost(Past) \in Nat /\ Past.output = output
  BY PastIs DEF TermTypes, TermPages, LoadPlace
\* The cached screen comes first.
<1>4. ASSUME page.screen = <<>>, Cached(Past, w, page.from)  PROVE  Parsed(Past, page')
  <2>1. w.set = page.from /\ w.set # None
    BY <1>3, <1>4, TermAssumption DEF Cached
  <2>2. page'.screen = w.data
    BY <1>2, <1>4, ConcatEmptySeq
  <2>3. page'.ptyOffset = page.from /\ page.from <= page.from
    BY <1>2, <1>3, <2>1
  <2> QED
    BY <1>2, <1>4, <2>2, <2>3 DEF Cached, Parsed, Counts
<1>5. CASE page.at = "main"
  <2>1. page.screen = <<>> /\ \E y \in TermWrites : page.writes = <<y>> /\ Cached(Past, y, page.from)
    BY <1>2, <1>5 DEF LoadPlace
  <2>2. PICK y \in TermWrites : page.writes = <<y>> /\ Cached(Past, y, page.from)
    BY <2>1
  <2>3. w = y /\ page'.writes = <<>>
    BY <1>1, <1>2, <2>2
  <2>4. Parsed(Past, page')
    BY <1>4, <2>1, <2>2, <2>3
  <2> QED
    BY <1>2, <1>5, <2>3, <2>4
<1>6. CASE page.at = "writing"
  <2>1. PICK v \in TermWrites, x \in Nat :
          /\ Follows(Past, page.from, x) /\ v = [data |-> Pieces(x, output), set |-> None]
          /\ \/ page.writes = <<v>> /\ Parsed(Past, page)
             \/ page.screen = <<>> /\ \E y \in TermWrites : page.writes = <<y, v>> /\ Cached(Past, y, page.from)
    BY <1>6 DEF LoadPlace
  <2>2. CASE page.writes = <<v>> /\ Parsed(Past, page)
    <3>1. w = v /\ page'.writes = <<>> /\ done
      BY <1>1, <1>2, <1>6, <2>2
    <3>2. w.set = None /\ w.data = Pieces(x, output)
      BY <2>1, <3>1
    <3>3. /\ page.from <= x /\ x <= output /\ (x = page.from \/ (x <= Lost(Past) /\ ~Exact(Past)))
          /\ Shows(Past, page.screen, page.from) /\ Counts(Past, page.ptyOffset, page.from)
      BY <1>3, <2>1, <2>2 DEF Follows, Parsed
    <3>4. /\ Shows(Past, page.screen \o Pieces(x, output), output)
          /\ Counts(Past, page.ptyOffset + Len(Pieces(x, output)), output)
      BY <1>3, <3>3, ShowsOn
    <3>5. Shows(Past, page'.screen, output) /\ Counts(Past, page'.ptyOffset, output)
      BY <1>2, <3>2, <3>4
    <3> QED
      BY <1>2, <1>6, <3>1, <3>5
  <2>3. CASE page.screen = <<>> /\ \E y \in TermWrites : page.writes = <<y, v>> /\ Cached(Past, y, page.from)
    <3>1. PICK y \in TermWrites : page.writes = <<y, v>> /\ Cached(Past, y, page.from)
      BY <2>3
    <3>2. w = y /\ page'.writes = <<v>> /\ ~done
      BY <1>1, <1>2, <3>1
    <3>3. Parsed(Past, page')
      BY <1>4, <2>3, <3>1, <3>2
    <3> HIDE DEF done
    <3>4. page'.at = "writing"
      BY <1>2, <1>6, <3>2
    <3> QED
      BY <1>2, <1>6, <2>1, <3>2, <3>3, <3>4
  <2> QED
    BY <2>1, <2>2, <2>3
<1> QED
  BY <1>5, <1>6

LEMMA AppendIs ==
  ASSUME NEW S, NEW s \in Seq(S), NEW y \in S, NEW t \in Seq(S),
         Len(t) = Len(s) + 1, t[Len(s) + 1] = y, \A i \in 1 .. Len(s) : t[i] = s[i]
  PROVE  Append(s, y) = t
<1> DEFINE u == Append(s, y)
<1>1. /\ u \in Seq(S) /\ Len(u) = Len(s) + 1 /\ u[Len(s) + 1] = y
      /\ \A i \in 1 .. Len(s) : u[i] = s[i]
  BY AppendProperties
<1> HIDE DEF u
<1>2. Len(s) \in Nat
  OBVIOUS
<1>3. \A i \in 1 .. Len(u) : u[i] = t[i]
  BY <1>1, <1>2
<1>4. u = t
  BY <1>1, <1>3, SeqEqual
<1> QED
  BY <1>4 DEF u

LEMMA AppendTwo ==
  \A S : \A x, y \in S : Append(<<x>>, y) = <<x, y>>
<1> SUFFICES ASSUME NEW S, NEW x \in S, NEW y \in S  PROVE  Append(<<x>>, y) = <<x, y>>
  OBVIOUS
<1> DEFINE s == <<x>>  t == <<x, y>>
<1>1. s \in Seq(S) /\ Len(s) = 1 /\ s[1] = x
  OBVIOUS
<1>2. t \in Seq(S) /\ Len(t) = 2 /\ t[1] = x /\ t[2] = y
  OBVIOUS
<1> HIDE DEF s, t
<1>3. Len(t) = Len(s) + 1 /\ t[Len(s) + 1] = y /\ \A i \in 1 .. Len(s) : t[i] = s[i]
  BY <1>1, <1>2
<1>4. Append(s, y) = t
  BY <1>1, <1>2, <1>3, AppendIs, Zenon
<1> QED
  BY <1>4 DEF s, t

\* What a page is about to read still follows what it has.
LEMMA FollowsLater ==
  ASSUME NEW o, NEW q, NEW from, NEW x, Later(o, q), q.output = o.output, Follows(o, from, x)
  PROVE  Follows(q, from, x)
<1>1. x \in Nat /\ Lost(o) \in Nat /\ Lost(q) \in Nat /\ Lost(o) <= Lost(q) /\ (Exact(q) => Exact(o))
  BY DEF Later, Follows
<1> QED
  BY <1>1 DEF Follows

LEMMA LoadNext ==
  ASSUME TermTypes, Arrives, CachePlace, LoadPlace, [TermNext]_termVars, Calm'
  PROVE  LoadPlace'
<1>0. Still' /\ Still /\ Later(Past, Past')
  BY LaterNext, StillBefore DEF Calm
<1>1. /\ output \in Nat /\ page \in TermPages /\ page.from \in Nat /\ page.ptyOffset \in Nat
      /\ Past.output = output /\ Past'.output = output'
      /\ DOMAIN page = {"at", "screen", "writes", "ptyOffset", "processed", "heldData", "loaded", "status",
                        "stat", "from", "caching"}
  BY DEF TermTypes, TermPages, Past
<1>2. ASSUME page'.at \notin {"cache", "main", "writing"}  PROVE  LoadPlace'
  BY <1>2 DEF LoadPlace
\* The page, the output and the cached screen stay.
<1>3. ASSUME page'.at = page.at, page'.from = page.from, page'.writes = page.writes,
             page'.screen = page.screen, page'.ptyOffset = page.ptyOffset, output' = output,
             page.at = "cache" => /\ page'.stat = page.stat
                                  /\ page.stat # None /\ cache # None => cache' # None /\ cache'.data = cache.data
      PROVE  LoadPlace'
  <2>1. ASSUME page.at = "cache", page.stat # None
        PROVE  /\ cache' # None /\ page.stat.size = Len(cache'.data) /\ page.stat.ptyOffset <= output
               /\ Shows(Past', cache'.data, page.stat.ptyOffset)
    <3>1. page.stat.ptyOffset \in Nat
      BY <1>1, <2>1 DEF TermPages, Stats
    <3> QED
      BY <1>0, <1>3, <2>1, <3>1, ShowsLater DEF LoadPlace
  <2>2. Parsed(Past, page) => Parsed(Past', page')
    BY <1>0, <1>1, <1>3, ShowsLater DEF Parsed
  <2>3. ASSUME NEW w, Cached(Past, w, page.from)  PROVE  Cached(Past', w, page.from)
    BY <1>0, <1>1, <2>3, ShowsLater
  <2>4. ASSUME NEW x, Follows(Past, page.from, x)  PROVE  Follows(Past', page.from, x)
    BY <1>0, <1>1, <1>3, <2>4, FollowsLater
  <2>5. page.at \in {"main", "writing"} => page.from <= output
    BY DEF LoadPlace
  <2>6. ASSUME page.at = "main"
        PROVE  \/ page.writes = <<>> /\ Parsed(Past', page')
               \/ page.screen = <<>> /\ \E w \in TermWrites : page.writes = <<w>> /\ Cached(Past', w, page.from)
    BY <2>2, <2>3, <2>6, Zenon DEF LoadPlace
  <2>7. ASSUME page.at = "writing"
        PROVE  \E v \in TermWrites, x \in Nat :
                 /\ Follows(Past', page.from, x) /\ v = [data |-> Pieces(x, output), set |-> None]
                 /\ \/ page.writes = <<v>> /\ Parsed(Past', page')
                    \/ page.screen = <<>> /\ \E w \in TermWrites : page.writes = <<w, v>> /\ Cached(Past', w, page.from)
    BY <2>2, <2>3, <2>4, <2>7, Zenon DEF LoadPlace
  <2> QED
    BY <1>3, <2>1, <2>5, <2>6, <2>7, Zenon DEF LoadPlace
<1>4. CASE AppendData
  BY <1>0, <1>2, <1>4 DEF AppendData, Still, Loading
<1>5. CASE Truncate
  BY <1>0, <1>5 DEF Truncate, Still
<1>6. CASE Quit \/ Dispose
  <2>1. page'.at = "closed"
    BY <1>6 DEF Quit, Dispose, ClosedPage, NewPage
  <2> QED
    BY <1>2, <2>1
<1>7. CASE InitTerminal
  <2>1. page'.at = "rtinfo"
    BY <1>7 DEF InitTerminal, NewPage
  <2> QED
    BY <1>2, <2>1
<1>8. CASE NewFileData
  <2>1. page.at = "open" /\ page.loaded = TRUE
    BY <1>8 DEF NewFileData, Arrives
  <2>2. page'.at = "open"
    BY <1>1, <1>8, <2>1 DEF NewFileData, Write
  <2> QED
    BY <1>2, <2>2
<1>9. CASE ProcessAndCacheData
  <2>1. page'.at = "open"
    BY <1>1, <1>9 DEF ProcessAndCacheData
  <2> QED
    BY <1>2, <2>1
<1>10. CASE GetRTInfo
  <2>1. page.stat = None
    BY <1>10 DEF GetRTInfo, Arrives
  <2>2. page'.at = "cache" /\ page'.stat = None
    BY <1>1, <1>10, <2>1 DEF GetRTInfo
  <2> QED
    BY <2>2 DEF LoadPlace
<1>12. CASE SaveState
  <2>1. ~(page.at = "cache" /\ page.stat # None) /\ page' = page /\ output' = output
    BY <1>12 DEF SaveState, Calm
  <2> QED
    BY <1>3, <2>1
<1>13. CASE SaveMeta
  <2>1. page' = page /\ output' = output /\ save # None
    BY <1>13 DEF SaveMeta
  <2>2. ASSUME cache # None  PROVE  cache' # None /\ cache'.data = cache.data
    <3>1. cache' = [cache EXCEPT !.ptyOffset = save.ptyOffset] /\ cache \in Caches /\ save \in Saves
      BY <1>13, <2>1, <2>2 DEF SaveMeta, TermTypes
    <3>2. cache' \in Caches /\ cache'.data = cache.data
      BY <3>1 DEF Caches, Saves
    <3> QED
      BY <3>2, TermAssumption
  <2> QED
    BY <1>3, <2>1, <2>2
<1>14. CASE StatCache
  <2>1. /\ page.at = "cache" /\ page.stat = None /\ UNCHANGED <<cache, output, save>>
        /\ save # None /\ save.written => "torn" \in odd'
    BY <1>14 DEF StatCache
  <2>2. /\ page.writes = <<>> /\ page.screen = <<>> /\ page.ptyOffset = 0 /\ page.from = 0
    BY <2>1 DEF Arrives
  <2>3. CASE cache = None
    <3>1. page' = [page EXCEPT !.at = "main"]
      BY <1>14, <2>3 DEF StatCache
    <3>2. /\ page'.at = "main" /\ page'.writes = <<>> /\ page'.screen = <<>>
          /\ page'.ptyOffset = 0 /\ page'.from = 0
      BY <1>1, <2>2, <3>1
    <3>3. Pieces(0, 0) = <<>> /\ Lost(Past') \in Nat
      BY <1>0, PiecesOne DEF Later
    <3>4. Covers(<<>>, Lost(Past'), 0)
      BY <3>3 DEF Covers
    <3>5. Parsed(Past', page')
      BY <3>2, <3>3, <3>4 DEF Parsed, Shows, Counts
    <3> QED
      BY <1>1, <2>1, <3>2, <3>5 DEF LoadPlace
  <2>4. CASE cache # None
    <3> DEFINE st == Stat(Len(cache.data), cache.ptyOffset)
    <3>1. page' = [page EXCEPT !.stat = st]
      BY <1>14, <2>4 DEF StatCache
    <3>2. page'.at = "cache" /\ page'.stat = st
      BY <1>1, <2>1, <3>1
    <3>3. st.size = Len(cache.data) /\ st.ptyOffset = cache.ptyOffset
      BY DEF Stat
    <3>4. cache.ptyOffset \in Nat
      BY <2>4 DEF TermTypes, Caches
    <3>5. Shows(Past', cache.data, cache.ptyOffset)
      <4>1. CASE save # None /\ save.written
        <5>1. ~Exact(Past')
          BY <2>1, <4>1 DEF Exact, Past
        <5>2. Covers(cache.data, Lost(Past'), cache.ptyOffset)
          BY <1>0, <2>4, <3>4, ShowsLater DEF CachePlace
        <5> QED
          BY <5>1, <5>2 DEF Shows
      <4>2. CASE save = None \/ ~save.written
        BY <1>0, <2>4, <3>4, <4>2, ShowsLater DEF CachePlace
      <4> QED
        BY <4>1, <4>2
    <3>6. cache.ptyOffset <= output
      BY <2>4 DEF CachePlace
    <3> HIDE DEF st
    <3>7. /\ cache' = cache /\ page'.stat.size = Len(cache'.data) /\ page'.stat.ptyOffset <= output'
          /\ Shows(Past', cache'.data, page'.stat.ptyOffset)
      BY <2>1, <3>2, <3>3, <3>5, <3>6
    <3> QED
      BY <2>4, <3>2, <3>7, Zenon DEF LoadPlace
  <2> QED
    BY <2>3, <2>4
<1>15. CASE ReadCache
  <2> DEFINE w == [data |-> cache.data, set |-> page.stat.ptyOffset]
  <2>1. /\ page.stat.ptyOffset \in Nat /\ page.stat.ptyOffset <= output
        /\ Shows(Past, cache.data, page.stat.ptyOffset)
        /\ page'.at = "main" /\ page'.from = page.stat.ptyOffset
        /\ page'.screen = <<>> /\ page'.ptyOffset = 0
        /\ \/ w \in TermWrites /\ page'.writes = <<w>>
           \/ page'.writes = <<>> /\ cache.data = <<>>
        /\ UNCHANGED <<output, odd>>
    BY <1>15, ReadCacheDoes
  <2>2. page'.from \in Nat /\ page'.from <= output'
    BY <2>1
  <2>3. Shows(Past', cache.data, page'.from)
    BY <1>0, <2>1, ShowsLater
  <2>4. CASE w \in TermWrites /\ page'.writes = <<w>>
    <3>1. Cached(Past', w, page'.from)
      BY <2>1, <2>3 DEF Cached
    <3> HIDE DEF w
    <3>2. \E y \in TermWrites : page'.writes = <<y>> /\ Cached(Past', y, page'.from)
      BY <2>4, <3>1
    <3> QED
      BY <2>1, <2>2, <3>2 DEF LoadPlace
  <2>5. CASE page'.writes = <<>> /\ cache.data = <<>>
    <3>1. page'.screen = cache.data /\ page'.ptyOffset = 0
      BY <2>1, <2>5
    <3>2. Counts(Past', 0, page'.from)
      <4>1. ASSUME Exact(Past')  PROVE  page'.from = 0
        <5>1. <<>> = Pieces(0, page'.from)
          BY <2>3, <2>5, <4>1 DEF Shows
        <5>2. 0 \in Nat /\ 0 <= page'.from
          BY <2>2
        <5>3. Len(Pieces(0, page'.from)) = page'.from - 0
          BY <2>2, <5>2, PiecesAre
        <5>4. page'.from - 0 = 0
          BY <5>1, <5>3, EmptySeq
        <5> QED
          BY <2>2, <5>4
      <4> QED
        BY <2>2, <4>1 DEF Counts
    <3>3. Parsed(Past', page')
      BY <2>3, <3>1, <3>2 DEF Parsed
    <3> QED
      BY <2>1, <2>2, <2>5, <3>3 DEF LoadPlace
  <2> QED
    BY <2>1, <2>4, <2>5
<1>16. CASE StatMain
  <2>1. page.at = "main" /\ UNCHANGED output /\ page' = [page EXCEPT !.stat = Stat(Len(file), 0)]
    BY <1>16 DEF StatMain
  <2>2. /\ page'.at = "main" /\ page'.from = page.from /\ page'.writes = page.writes
        /\ page'.screen = page.screen /\ page'.ptyOffset = page.ptyOffset
    BY <1>1, <2>1
  <2> QED
    BY <1>3, <2>1, <2>2
<1>17. CASE ReadMain
  <2>1. /\ page.at = "main" /\ page.from <= output
        /\ page'.at = "writing" /\ page'.from = page.from
        /\ page'.screen = page.screen /\ page'.ptyOffset = page.ptyOffset
        /\ UNCHANGED output
    BY <1>17, ReadMainDoes
  <2>2. PICK v \in TermWrites, x \in Nat :
          /\ Follows(Past', page.from, x) /\ v = [data |-> Pieces(x, output), set |-> None]
          /\ page'.writes = Append(page.writes, v)
    BY <1>17, ReadMainDoes
  <2>3. Follows(Past', page'.from, x) /\ v = [data |-> Pieces(x, output'), set |-> None]
    BY <2>1, <2>2
  <2>4. CASE page.writes = <<>> /\ Parsed(Past, page)
    <3>1. page'.writes = <<v>>
      BY <2>2, <2>4
    <3>2. Parsed(Past', page')
      BY <1>0, <1>1, <2>1, <2>4, ShowsLater DEF Parsed
    <3> QED
      BY <2>1, <2>3, <3>1, <3>2 DEF LoadPlace
  <2>5. CASE page.screen = <<>> /\ \E w \in TermWrites : page.writes = <<w>> /\ Cached(Past, w, page.from)
    <3>1. PICK w \in TermWrites : page.writes = <<w>> /\ Cached(Past, w, page.from)
      BY <2>5
    <3>2. page'.writes = <<w, v>> /\ Cached(Past', w, page'.from)
      <4>1. Cached(Past', w, page.from)
        BY <1>0, <1>1, <3>1, ShowsLater
      <4>2. page'.writes = Append(<<w>>, v)
        BY <2>2, <3>1
      <4>3. Append(<<w>>, v) = <<w, v>>
        BY AppendTwo
      <4> QED
        BY <2>1, <4>1, <4>2, <4>3
    <3>3. page'.screen = <<>> /\ page'.at = "writing" /\ page'.from <= output'
      BY <2>1, <2>5
    <3>4. \E y \in TermWrites : page'.writes = <<y, v>> /\ Cached(Past', y, page'.from)
      BY <3>2
    <3> QED
      BY <2>3, <3>3, <3>4 DEF LoadPlace
  <2> QED
    BY <2>1, <2>4, <2>5 DEF LoadPlace
<1>18. CASE Parse
  <2>1. page.at \in {"main", "writing", "open"}
    BY <1>1, <1>18 DEF Parse, Arrives, TermPages
  <2>2. CASE page.at = "open"
    <3>1. page'.at = "open"
      BY <1>18, <2>2, ParseDoes
    <3> QED
      BY <1>2, <3>1
  <2>3. CASE page.at \in {"main", "writing"}
    <3>1. page'.from = page.from /\ UNCHANGED <<output, odd>>
      BY <1>18, <2>3, LoadParses
    <3>2. page.from <= output /\ Past' = Past
      BY <2>3, <3>1 DEF LoadPlace, Past
    <3>3. \/ page'.at = "main" /\ page'.writes = <<>> /\ Parsed(Past, page')
          \/ /\ page'.at = "writing" /\ Parsed(Past, page')
             /\ \E v \in TermWrites, x \in Nat :
                  /\ Follows(Past, page.from, x) /\ v = [data |-> Pieces(x, output), set |-> None]
                  /\ page'.writes = <<v>>
          \/ page'.at = "open"
      BY <1>18, <2>3, LoadParses
    <3>4. CASE page'.at = "main" /\ page'.writes = <<>> /\ Parsed(Past, page')
      BY <3>1, <3>2, <3>4 DEF LoadPlace
    <3>5. CASE page'.at = "writing" /\ Parsed(Past, page')
      <4>1. PICK v \in TermWrites, x \in Nat :
              /\ Follows(Past, page.from, x) /\ v = [data |-> Pieces(x, output), set |-> None]
              /\ page'.writes = <<v>>
        BY <3>3, <3>5
      <4> QED
        BY <3>1, <3>2, <3>5, <4>1 DEF LoadPlace
    <3> QED
      BY <1>2, <3>3, <3>4, <3>5
  <2> QED
    BY <2>1, <2>2, <2>3
<1>19. CASE SetRTInfo
  BY <1>3, <1>19 DEF SetRTInfo
<1>20. CASE UNCHANGED termVars
  BY <1>3, <1>20 DEF termVars
<1> QED
  BY <1>4, <1>5, <1>6, <1>7, <1>8, <1>9, <1>10, <1>12, <1>13, <1>14, <1>15, <1>16, <1>17, <1>18, <1>19,
     <1>20 DEF TermNext, Load

\* What an open page parses comes next, and is a mark it hears.
LEMMA OpenParses ==
  ASSUME TermTypes, Arrives, Parse, page.at = "open"
  PROVE  /\ Come \in Nat /\ Come + 1 \in Nat /\ Come + 1 <= output
         /\ page'.at = "open" /\ Come' = Come + 1
         /\ page'.screen = page.screen \o Pieces(Come, Come + 1)
         /\ page'.ptyOffset = page.ptyOffset + 1
         /\ page'.status = Mark(Come + 1) /\ infos' = Append(infos, Mark(Come + 1))
         /\ UNCHANGED <<file, cache, rtinfo, save, events, output, odd>>
<1>1. PICK w : w = Head(page.writes)
  OBVIOUS
<1>2. page.loaded = TRUE
  BY DEF Arrives
<1>3. /\ page.writes # <<>> /\ page.writes \in Seq(TermWrites)
      /\ page'.writes = Tail(page.writes)
      /\ page'.screen = page.screen \o w.data
      /\ page'.ptyOffset = IF w.set # None THEN w.set ELSE page.ptyOffset + Len(w.data)
      /\ page'.at = "open"
      /\ w.set = None /\ w.data # <<>> =>
           page'.status = Mark(Last(w.data)) /\ infos' = Append(infos, Mark(Last(w.data)))
      /\ UNCHANGED <<file, cache, rtinfo, save, events, output, odd>>
  BY <1>1, <1>2, ParseDoes
<1>4. /\ Len(page.writes) \in Nat /\ Len(page.writes) > 0 /\ Len(page'.writes) = Len(page.writes) - 1
      /\ w = page.writes[1] /\ events \in Seq(TermEvents) /\ Len(events) \in Nat
  BY <1>1, <1>3, HeadTailProperties DEF TermTypes
<1>5. Come \in Nat /\ output \in Nat
  BY DEF Arrives, TermTypes
<1>6. Come + 1 \in Nat /\ Come + 1 <= output /\ Come' = Come + 1
  <2> DEFINE a == Len(events)  b == Len(page.writes)
  <2>1. Come = output - a - b /\ Come' = output - a - Len(page'.writes)
    BY <1>3, Zenon DEF Come
  <2>2. a \in Nat /\ b \in Nat /\ b > 0 /\ Len(page'.writes) = b - 1
    BY <1>4, Zenon
  <2> HIDE DEF a, b
  <2> QED
    BY <1>5, <2>1, <2>2
<1>7. w = [data |-> <<Come + 1>>, set |-> None]
  <2>1. 1 \in 1 .. Len(page.writes)
    BY <1>4
  <2> QED
    BY <1>4, <2>1 DEF Arrives
<1>8. w.data = <<Come + 1>> /\ w.set = None
  BY <1>7
<1>9. /\ <<Come + 1>> = Pieces(Come, Come + 1) /\ Len(<<Come + 1>>) = 1 /\ <<Come + 1>> # <<>>
      /\ Last(<<Come + 1>>) = Come + 1
  BY <1>5, PiecesOne DEF Last
<1> QED
  BY <1>3, <1>5, <1>6, <1>8, <1>9

LEMMA OpenNext ==
  ASSUME TermTypes, Arrives, Arrives', CachePlace, LoadPlace, OpenPlace, [TermNext]_termVars, Calm'
  PROVE  OpenPlace'
<1>0. Still' /\ Still /\ Later(Past, Past') /\ Lost(Past) \in Nat /\ Past.output = output
  BY LaterNext, StillBefore, PastIs DEF Calm
<1>1. /\ output \in Nat /\ page \in TermPages /\ page.ptyOffset \in Nat /\ events \in Seq(TermEvents) /\ page.writes \in Seq(TermWrites)
      /\ Len(events) \in Nat /\ Len(page.writes) \in Nat
      /\ cache # None => cache.ptyOffset \in Nat
      /\ save # None => save.ptyOffset \in Nat
      /\ DOMAIN page = {"at", "screen", "writes", "ptyOffset", "processed", "heldData", "loaded", "status",
                        "stat", "from", "caching"}
  BY LenProperties DEF TermTypes, TermPages, Caches, Saves
<1>2. ASSUME page'.at # "open"  PROVE  OpenPlace'
  BY <1>2 DEF OpenPlace
\* The page goes on as it was.
<1>3. ASSUME page'.at = "open" => page.at = "open" /\ Come' = Come /\ page'.ptyOffset = page.ptyOffset
                                  /\ page'.screen = page.screen,
             page.at = "open" => (cache' # None => cache'.ptyOffset <= Come) /\ (save' # None => save'.ptyOffset <= Come)
      PROVE  OpenPlace'
  <2> SUFFICES ASSUME page'.at = "open"  PROVE  OpenPlace'
    BY <1>2
  <2>1. Come \in Nat
    BY <1>3 DEF Arrives
  <2>2. Counts(Past', page.ptyOffset, Come) /\ Shows(Past', page.screen, Come)
    BY <1>0, <1>3, <2>1, ShowsLater DEF OpenPlace
  <2> QED
    BY <1>3, <2>2 DEF OpenPlace
<1>4. CASE AppendData
  <2>1. page' = page /\ UNCHANGED <<cache, save>> /\ output' = output + 1
    BY <1>4 DEF AppendData
  <2>2. ASSUME page.at = "open"  PROVE  Come' = Come
    <3>1. events' = Append(events, [fileop |-> "append", data |-> output + 1])
      BY <1>4, <2>2 DEF AppendData
    <3>2. Len(events') = Len(events) + 1
      BY <1>1, <3>1
    <3> QED
      BY <1>1, <2>1, <3>2 DEF Come
  <2> QED
    BY <1>3, <2>1, <2>2 DEF OpenPlace
<1>5. CASE Truncate
  BY <1>0, <1>5 DEF Truncate, Still
<1>6. CASE SaveState
  <2>1. /\ UNCHANGED <<page, output, events>> /\ save # None
        /\ cache' = [data |-> save.data, ptyOffset |-> IF cache = None THEN 0 ELSE cache.ptyOffset]
        /\ save' = [save EXCEPT !.written = TRUE]
    BY <1>6 DEF SaveState
  <2>2. Come' = Come
    BY <2>1 DEF Come
  <2>3. save'.ptyOffset = save.ptyOffset /\ cache'.ptyOffset = IF cache = None THEN 0 ELSE cache.ptyOffset
    BY <2>1 DEF TermTypes, Saves
  <2>4. ASSUME page.at = "open"  PROVE  cache'.ptyOffset <= Come /\ save'.ptyOffset <= Come
    <3>1. Come \in Nat /\ save.ptyOffset <= Come /\ (cache # None => cache.ptyOffset <= Come)
      BY <2>1, <2>4 DEF OpenPlace, Arrives
    <3>2. 0 <= Come
      BY <3>1
    <3> QED
      BY <2>3, <3>1, <3>2
  <2> QED
    BY <1>3, <2>1, <2>2, <2>4
<1>7. CASE SaveMeta
  <2>1. /\ UNCHANGED <<page, output, events>> /\ save # None /\ save' = None
        /\ cache' = IF cache = None THEN None ELSE [cache EXCEPT !.ptyOffset = save.ptyOffset]
    BY <1>7 DEF SaveMeta
  <2>2. Come' = Come
    BY <2>1 DEF Come
  <2>3. cache' # None => cache'.ptyOffset = save.ptyOffset
    BY <2>1 DEF TermTypes, Caches
  <2>4. page.at = "open" => save.ptyOffset <= Come
    BY <2>1 DEF OpenPlace
  <2> QED
    BY <1>3, <2>1, <2>2, <2>3, <2>4
<1>8. CASE Quit \/ Dispose
  <2>1. page'.at = "closed"
    BY <1>8 DEF Quit, Dispose, ClosedPage, NewPage
  <2> QED
    BY <1>2, <2>1
<1>9. CASE InitTerminal
  <2>1. page'.at = "rtinfo"
    BY <1>9 DEF InitTerminal, NewPage
  <2> QED
    BY <1>2, <2>1
<1>10. CASE GetRTInfo
  <2>1. page'.at = "cache"
    BY <1>1, <1>10 DEF GetRTInfo
  <2> QED
    BY <1>2, <2>1
<1>11. CASE StatCache
  <2>1. page'.at \in {"cache", "main"}
    BY <1>1, <1>11 DEF StatCache
  <2> QED
    BY <1>2, <2>1
<1>12. CASE ReadCache
  BY <1>2, <1>12, ReadCacheDoes
<1>13. CASE StatMain
  <2>1. page'.at = "main"
    BY <1>1, <1>13 DEF StatMain
  <2> QED
    BY <1>2, <2>1
<1>14. CASE ReadMain
  BY <1>2, <1>14, ReadMainDoes
<1>15. CASE NewFileData
  <2> DEFINE e == Head(events)
  <2>1. /\ events # <<>> /\ events' = Tail(events) /\ UNCHANGED <<output, cache, save>>
        /\ page.at = "open" /\ page.loaded = TRUE
    BY <1>15 DEF NewFileData, Arrives
  <2>2. e = events[1] /\ Len(events') = Len(events) - 1 /\ Len(events) > 0
    BY <1>1, <2>1, HeadTailProperties
  <2>3. e = [fileop |-> "append", data |-> output - Len(events) + 1]
    <3>1. 1 \in 1 .. Len(events)
      BY <1>1, <2>2
    <3> QED
      BY <2>1, <2>2, <3>1 DEF Arrives
  <2>4. page' = Write(page, <<e.data>>, None)
    BY <2>1, <2>3, <1>15 DEF NewFileData
  <2>5. /\ page'.at = "open" /\ page'.screen = page.screen /\ page'.ptyOffset = page.ptyOffset
        /\ page'.writes = Append(page.writes, [data |-> <<e.data>>, set |-> None])
    BY <1>1, <2>1, <2>4 DEF Write
  <2>6. Len(page'.writes) = Len(page.writes) + 1
    BY <1>1, <2>5
  <2>7. Come' = Come
    BY <1>1, <2>1, <2>2, <2>6 DEF Come
  <2> QED
    BY <1>3, <2>1, <2>5, <2>7 DEF OpenPlace
<1>16. CASE Parse
  <2>1. page.at \in {"main", "writing", "open"}
    BY <1>1, <1>16 DEF Parse, Arrives, TermPages
  <2>2. CASE page.at = "open"
    <3>1. /\ Come \in Nat /\ Come + 1 \in Nat /\ Come' = Come + 1
          /\ page'.screen = page.screen \o Pieces(Come, Come + 1)
          /\ page'.ptyOffset = page.ptyOffset + 1
          /\ UNCHANGED <<cache, save, odd>>
      BY <1>16, <2>2, OpenParses
    <3>2. /\ Counts(Past, page.ptyOffset, Come) /\ Shows(Past, page.screen, Come)
          /\ cache # None => cache.ptyOffset <= Come
          /\ save # None => save.ptyOffset <= Come
      BY <2>2 DEF OpenPlace
    <3>3. /\ page.screen \in Seq(Nat) /\ Come <= Come + 1 /\ Come <= Come
          /\ Len(Pieces(Come, Come + 1)) = 1
      <4>1. page.screen \in Seq(Nat) /\ Come <= Come + 1 /\ Come <= Come /\ (Come + 1) - Come = 1
        BY <1>1, <3>1 DEF TermPages
      <4>2. Len(Pieces(Come, Come + 1)) = (Come + 1) - Come
        BY <3>1, <4>1, PiecesAre, Zenon
      <4> QED
        BY <4>1, <4>2
    <3>4. /\ Shows(Past, page.screen \o Pieces(Come, Come + 1), Come + 1)
          /\ Counts(Past, page.ptyOffset + Len(Pieces(Come, Come + 1)), Come + 1)
      BY <1>0, <1>1, <3>1, <3>2, <3>3, ShowsOn
    <3>5. Shows(Past', page'.screen, Come + 1) /\ Counts(Past', page'.ptyOffset, Come + 1)
      <4>1. Shows(Past, page'.screen, Come + 1) /\ Counts(Past, page'.ptyOffset, Come + 1)
        BY <3>1, <3>3, <3>4
      <4>2. Later(Past, Past')
        BY <1>0
      <4>3. Shows(Past', page'.screen, Come + 1)
        BY <3>1, <4>1, <4>2, ShowsLater
      <4>4. Counts(Past', page'.ptyOffset, Come + 1)
        BY <3>1, <4>1, <4>2, ShowsLater
      <4> QED
        BY <4>3, <4>4
    <3>6. /\ cache # None => cache.ptyOffset <= Come + 1
          /\ save # None => save.ptyOffset <= Come + 1
      BY <1>1, <3>1, <3>2
    <3> QED
      BY <3>1, <3>5, <3>6 DEF OpenPlace
  <2>3. CASE page.at \in {"main", "writing"}
    <3>1. CASE page'.at = "open"
      <4>1. /\ page.at = "writing" /\ page'.loaded = TRUE /\ page'.writes = <<>>
            /\ Counts(Past, page'.ptyOffset, output) /\ Shows(Past, page'.screen, output)
            /\ UNCHANGED <<file, cache, save, events, output, odd>>
        BY <1>16, <2>3, <3>1, LoadParses
      <4>2. events' = <<>> /\ file' = Pieces(0, output')
        BY <4>1 DEF Arrives
      <4>3. Come' = output'
        BY <1>1, <3>1, <4>1, <4>2, ArrivesOpened
      <4>4. cache # None => cache.ptyOffset <= output
        BY DEF CachePlace
      <4>5. ASSUME save # None  PROVE  save.ptyOffset <= output
        <5>1. PICK c \in Nat : Saved(Past, save, c)
          BY <4>5 DEF CachePlace
        <5> QED
          BY <1>0, <1>1, <4>5, <5>1 DEF Saved, Counts
      <4>6. Counts(Past', page'.ptyOffset, output) /\ Shows(Past', page'.screen, output)
        BY <1>0, <1>1, <4>1, ShowsLater
      <4> QED
        BY <4>1, <4>3, <4>4, <4>5, <4>6 DEF OpenPlace
    <3> QED
      BY <1>2, <3>1
  <2> QED
    BY <2>1, <2>2, <2>3
<1>17. CASE ProcessAndCacheData
  <2>1. /\ UNCHANGED <<output, events, cache>> /\ page.at = "open"
        /\ page' = [page EXCEPT !.processed = 0]
        /\ save' = [data |-> page.screen, ptyOffset |-> page.ptyOffset, written |-> FALSE]
    BY <1>17 DEF ProcessAndCacheData
  <2>2. /\ page'.at = "open" /\ page'.screen = page.screen /\ page'.ptyOffset = page.ptyOffset
        /\ page'.writes = page.writes /\ save'.ptyOffset = page.ptyOffset
    BY <1>1, <2>1
  <2>3. Come' = Come
    BY <2>1, <2>2 DEF Come
  <2>4. page.ptyOffset <= Come /\ (cache # None => cache.ptyOffset <= Come)
    BY <2>1 DEF OpenPlace, Counts
  <2> QED
    BY <1>3, <2>1, <2>2, <2>3, <2>4
<1>18. CASE SetRTInfo \/ UNCHANGED termVars
  <2>1. UNCHANGED <<page, output, events, cache, save>>
    BY <1>18 DEF SetRTInfo, termVars
  <2>2. Come' = Come
    BY <2>1 DEF Come
  <2> QED
    BY <1>3, <2>1, <2>2 DEF OpenPlace
<1> QED
  BY <1>4, <1>5, <1>6, <1>7, <1>8, <1>9, <1>10, <1>11, <1>12, <1>13, <1>14, <1>15, <1>16, <1>17, <1>18
     DEF TermNext, Load

\* The state of the shell is that of the last mark.
LEMMA StatusNext ==
  ASSUME TermTypes, Arrives, StatusPlace, [TermNext]_termVars, Heard'
  PROVE  StatusPlace'
<1> DEFINE h == IF page.at = "open" THEN Come ELSE output
           reads(at) == at \in {"cache", "main", "writing", "open"}
<1>0. odd \subseteq odd' /\ Still' /\ Still /\ "unheard" \notin odd'
  BY OddGrows, StillBefore DEF Heard
<1>1. /\ output \in Nat /\ page \in TermPages /\ events \in Seq(TermEvents) /\ page.writes \in Seq(TermWrites)
      /\ Len(events) \in Nat /\ Len(page.writes) \in Nat /\ infos \in Seq(Statuses) /\ file = Pieces(0, output)
      /\ DOMAIN page = {"at", "screen", "writes", "ptyOffset", "processed", "heldData", "loaded", "status",
                        "stat", "from", "caching"}
  BY LenProperties DEF TermTypes, TermPages, Arrives
<1>2. ASSUME UNCHANGED <<infos, rtinfo>>, h' = h,
             reads(page'.at) => page'.status = page.status /\ reads(page.at)
      PROVE  StatusPlace'
  BY <1>2, Zenon DEF StatusPlace
<1>3. CASE AppendData
  <2>1. UNCHANGED <<page, infos, rtinfo>> /\ output' = output + 1 /\ page.at = "open"
    BY <1>0, <1>3 DEF AppendData
  <2>2. events' = Append(events, [fileop |-> "append", data |-> output + 1])
    BY <1>3, <2>1 DEF AppendData
  <2>3. Len(events') = Len(events) + 1
    BY <1>1, <2>2
  <2>4. Come' = Come
    BY <1>1, <2>1, <2>3 DEF Come
  <2> QED
    BY <1>2, <2>1, <2>4
<1>4. CASE Truncate \/ Quit
  BY <1>0, <1>4 DEF Truncate, Quit, Still
<1>5. CASE SaveState \/ SaveMeta \/ UNCHANGED termVars
  <2>1. UNCHANGED <<page, output, events, infos, rtinfo>>
    BY <1>5 DEF SaveState, SaveMeta, termVars
  <2>2. h' = h
    BY <2>1 DEF Come
  <2> QED
    BY <1>2, <2>1, <2>2
<1>6. CASE SetRTInfo
  <2>1. /\ UNCHANGED <<page, output, events>> /\ infos # <<>>
        /\ rtinfo' = Head(infos) /\ infos' = Tail(infos)
    BY <1>6 DEF SetRTInfo
  <2>2. h' = h
    BY <2>1 DEF Come
  <2>3. /\ infos[Len(infos)] = MarkOf(h)
        /\ reads(page.at) => page.status = MarkOf(h)
    BY <2>1 DEF StatusPlace
  <2>4. /\ Len(infos) \in Nat /\ Len(infos) > 0 /\ Head(infos) = infos[1] /\ Tail(infos) \in Seq(Statuses)
        /\ Len(Tail(infos)) = Len(infos) - 1
        /\ \A i \in 1 .. Len(infos) - 1 : Tail(infos)[i] = infos[i + 1]
    BY <1>1, <2>1, HeadTailProperties
  <2> HIDE DEF h
  <2>5. infos' = <<>> => rtinfo' = MarkOf(h)
    <3>1. infos' = <<>> => Len(infos) = 1
      <4>1. Len(<<>>) = 0
        BY EmptySeq
      <4>2. infos' = <<>> => Len(infos) - 1 = 0
        BY <2>1, <2>4, <4>1, Zenon
      <4>3. \A n \in Nat : n - 1 = 0 => n = 1
        OBVIOUS
      <4> QED
        BY <2>4, <4>2, <4>3, Zenon
    <3> QED
      BY <2>1, <2>3, <2>4, <3>1
  <2>6. infos' # <<>> => infos'[Len(infos')] = MarkOf(h)
    <3> SUFFICES ASSUME Tail(infos) # <<>>  PROVE  Tail(infos)[Len(Tail(infos))] = MarkOf(h)
      BY <2>1
    <3>1. Len(Tail(infos)) # 0
      BY <2>4, EmptySeq
    <3>2. Len(infos) - 1 \in 1 .. Len(infos) - 1 /\ (Len(infos) - 1) + 1 = Len(infos)
      BY <2>4, <3>1
    <3> QED
      BY <2>3, <2>4, <3>2
  <2> QED
    BY <2>1, <2>2, <2>3, <2>5, <2>6, Zenon DEF StatusPlace, h
<1>7. CASE InitTerminal
  <2>1. /\ UNCHANGED <<infos, rtinfo, output>> /\ page.at = "closed" /\ page'.at = "rtinfo"
    BY <1>7 DEF InitTerminal, NewPage
  <2> QED
    BY <1>2, <2>1
<1>8. CASE GetRTInfo
  <2>1. /\ UNCHANGED <<infos, rtinfo, output>> /\ page.at = "rtinfo" /\ infos = <<>>
        /\ page' = [page EXCEPT !.at = "cache", !.status = rtinfo]
    BY <1>0, <1>8 DEF GetRTInfo
  <2>2. page'.at = "cache" /\ page'.status = rtinfo
    BY <1>1, <2>1
  <2>3. rtinfo = MarkOf(output)
    BY <2>1 DEF StatusPlace
  <2> QED
    BY <2>1, <2>2, <2>3 DEF StatusPlace
<1>9. CASE StatCache \/ StatMain
  <2>1. /\ UNCHANGED <<infos, rtinfo, output>> /\ page.at \in {"cache", "main"}
        /\ page'.at \in {"cache", "main"} /\ page'.status = page.status
    BY <1>1, <1>9 DEF StatCache, StatMain
  <2> QED
    BY <1>2, <2>1
<1>10. CASE ReadCache
  <2> DEFINE p == [page EXCEPT !.at = "main", !.from = page.stat.ptyOffset, !.stat = None]
             data == IF cache = None THEN <<>> ELSE cache.data
             size == page.stat.size
  <2>1. UNCHANGED <<infos, rtinfo, output, file, events>> /\ page.at = "cache"
    BY <1>10 DEF ReadCache
  <2>2. page.writes = <<>> /\ events = <<>>
    BY <2>1 DEF Arrives
  <2>3. \/ page' = Loaded(page, FALSE)
        \/ page' = p
        \/ page' = Write(p, Fetched(data, 0, size), page.stat.ptyOffset)
    BY <1>10, Zenon DEF ReadCache
  <2>4. CASE page' = Loaded(page, FALSE)
    <3>1. page'.at = "open" /\ page'.writes = <<>> /\ page'.loaded = TRUE /\ page'.status = page.status
      BY <1>1, <2>2, <2>4 DEF Loaded
    <3>2. Come' = output'
      BY <1>1, <2>1, <2>2, <3>1, ArrivesOpened
    <3> QED
      BY <1>2, <2>1, <3>1, <3>2
  <2>5. CASE page' = p \/ page' = Write(p, Fetched(data, 0, size), page.stat.ptyOffset)
    <3>1. /\ p.at = "main" /\ p.status = page.status
          /\ DOMAIN p = {"at", "screen", "writes", "ptyOffset", "processed", "heldData", "loaded", "status",
                         "stat", "from", "caching"}
      BY <1>1
    <3> HIDE DEF p, data, size
    <3>2. page'.at = "main" /\ page'.status = page.status
      BY <2>5, <3>1 DEF Write
    <3> QED
      BY <1>2, <2>1, <3>2
  <2> QED
    BY <2>3, <2>4, <2>5
<1>11. CASE ReadMain
  <2>1. /\ UNCHANGED <<infos, rtinfo, output>> /\ page.at = "main"
        /\ page'.at = "writing" /\ page'.status = page.status
    BY <1>11, MainFetched, Zenon
  <2> QED
    BY <1>2, <2>1
<1>12. CASE NewFileData
  <2> DEFINE e == Head(events)
  <2>1. /\ events # <<>> /\ events' = Tail(events) /\ UNCHANGED <<output, infos, rtinfo>>
        /\ page.at = "open" /\ page.loaded = TRUE
    BY <1>12 DEF NewFileData, Arrives
  <2>2. e = events[1] /\ Len(events') = Len(events) - 1 /\ Len(events) > 0
    BY <1>1, <2>1, HeadTailProperties
  <2>3. e = [fileop |-> "append", data |-> output - Len(events) + 1]
    <3>1. 1 \in 1 .. Len(events)
      BY <1>1, <2>2
    <3> QED
      BY <2>1, <2>2, <3>1 DEF Arrives
  <2>4. page' = Write(page, <<e.data>>, None)
    BY <2>1, <2>3, <1>12 DEF NewFileData
  <2>5. /\ page'.at = "open" /\ page'.status = page.status
        /\ page'.writes = Append(page.writes, [data |-> <<e.data>>, set |-> None])
    BY <1>1, <2>1, <2>4 DEF Write
  <2>6. Len(page'.writes) = Len(page.writes) + 1
    BY <1>1, <2>5
  <2>7. Come' = Come
    BY <1>1, <2>1, <2>2, <2>6 DEF Come
  <2> QED
    BY <1>2, <2>1, <2>5, <2>7
<1>13. CASE Parse
  <2>1. page.at \in {"main", "writing", "open"}
    BY <1>1, <1>13 DEF Parse, Arrives, TermPages
  <2>2. CASE page.at = "open"
    <3>1. /\ Come \in Nat /\ Come' = Come + 1 /\ page'.at = "open"
          /\ page'.status = Mark(Come + 1) /\ infos' = Append(infos, Mark(Come + 1))
      BY <1>13, <2>2, OpenParses
    <3>2. MarkOf(Come + 1) = Mark(Come + 1) /\ Mark(Come + 1) \in Statuses
      <4>1. Come + 1 # 0
        BY <3>1
      <4> QED
        BY <4>1 DEF MarkOf, Mark, Statuses
    <3>3. infos' # <<>> /\ infos'[Len(infos')] = Mark(Come + 1)
      <4> DEFINE m == Mark(Come + 1)
      <4>1. m \in Statuses /\ infos' = Append(infos, m)
        BY <3>1, <3>2
      <4> HIDE DEF m
      <4>2. infos' # <<>> /\ infos'[Len(infos')] = m
        BY <1>1, <4>1, AppendProperties
      <4> QED
        BY <4>2 DEF m
    <3>4. h' = Come + 1
      BY <3>1
    <3> HIDE DEF h
    <3> QED
      BY <3>1, <3>2, <3>3, <3>4, Zenon DEF StatusPlace, h
  <2>3. CASE page.at \in {"main", "writing"}
    <3>1. page.loaded = FALSE
      BY <2>3 DEF Arrives
    <3>2. PICK w : w = Head(page.writes)
      OBVIOUS
    <3> DEFINE done == page.at = "writing" /\ Tail(page.writes) = <<>>
    <3>3. /\ page'.writes = Tail(page.writes) /\ page'.status = page.status
          /\ page'.at = IF done THEN "open" ELSE page.at
          /\ page'.loaded = IF done THEN TRUE ELSE page.loaded
          /\ UNCHANGED <<file, infos, rtinfo, events, output>>
      BY <1>13, <3>1, <3>2, ParseDoes
    <3>4. CASE done
      <4>1. events' = <<>>
        BY <2>3, <3>3 DEF Arrives
      <4>2. page'.at = "open" /\ page'.loaded = TRUE /\ page'.writes = <<>>
        BY <3>3, <3>4
      <4>3. Come' = output'
        BY <1>1, <3>3, <4>1, <4>2, ArrivesOpened
      <4> QED
        BY <1>2, <2>3, <3>3, <4>2, <4>3
    <3>5. CASE ~done
      BY <1>2, <2>3, <3>3, <3>5
    <3> QED
      BY <3>4, <3>5
  <2> QED
    BY <2>1, <2>2, <2>3
<1>14. CASE ProcessAndCacheData
  <2>1. UNCHANGED <<output, events, infos, rtinfo>> /\ page' = [page EXCEPT !.processed = 0]
    BY <1>14 DEF ProcessAndCacheData
  <2>2. page'.at = page.at /\ page'.status = page.status /\ page'.writes = page.writes
    BY <1>1, <2>1
  <2>3. h' = h
    BY <2>1, <2>2 DEF Come
  <2> QED
    BY <1>2, <2>1, <2>2, <2>3
<1>15. CASE Dispose
  <2>1. /\ UNCHANGED <<output, infos, rtinfo>> /\ page'.at = "closed"
        /\ events = <<>> /\ page.writes = <<>>
    BY <1>0, <1>15 DEF Dispose, ClosedPage, NewPage
  <2>2. Come = output
    <3>1. Len(events) = 0 /\ Len(page.writes) = 0
      BY <2>1
    <3>2. Come = output - Len(events) - Len(page.writes)
      BY Zenon DEF Come
    <3> QED
      BY <1>1, <3>1, <3>2
  <2> QED
    BY <1>2, <2>1, <2>2
<1> QED
  BY <1>3, <1>4, <1>5, <1>6, <1>7, <1>8, <1>9, <1>10, <1>11, <1>12, <1>13, <1>14, <1>15 DEF TermNext, Load

LEMMA TermInvInit == TermInit => TermInv
<1> SUFFICES ASSUME TermInit  PROVE  TermInv
  OBVIOUS
<1>1. /\ file = <<>> /\ cache = None /\ rtinfo = None /\ infos = <<>> /\ save = None /\ events = <<>>
      /\ output = 0 /\ page.at = "closed" /\ page.loaded = FALSE /\ page.writes = <<>> /\ page.screen = <<>>
      /\ page.ptyOffset = 0 /\ page.from = 0 /\ page.stat = None
  BY DEF TermInit, ClosedPage, NewPage
<1>2. file = Pieces(0, output)
  BY <1>1, PiecesOne
<1>3. Arrives
  BY <1>1, <1>2 DEF Arrives
<1>4. CachePlace /\ LoadPlace /\ OpenPlace
  BY <1>1 DEF CachePlace, LoadPlace, OpenPlace
<1>5. StatusPlace
  BY <1>1 DEF StatusPlace, MarkOf
<1> QED
  BY <1>3, <1>4, <1>5, TermTypesInit DEF TermInv

LEMMA TermInvNext == TermInv /\ [TermNext]_termVars => TermInv'
<1> SUFFICES ASSUME TermInv, [TermNext]_termVars  PROVE  TermInv'
  OBVIOUS
<1>1. TermTypes /\ TermTypes'
  BY TermTypesNext DEF TermInv
<1>2. Still' => Still /\ Arrives /\ Arrives'
  BY <1>1, StillBefore, ArrivesNext DEF TermInv
<1>3. ASSUME Calm'  PROVE  CachePlace' /\ LoadPlace' /\ OpenPlace'
  <2>1. Calm /\ Still'
    BY <1>3, CalmBefore DEF Calm
  <2>2. CachePlace /\ LoadPlace /\ OpenPlace
    BY <2>1 DEF TermInv
  <2> QED
    BY <1>1, <1>2, <1>3, <2>1, <2>2, CacheNext, LoadNext, OpenNext
<1>4. ASSUME Heard'  PROVE  StatusPlace'
  <2>1. Still' /\ Heard
    BY <1>4, OddGrows, StillBefore DEF Heard
  <2>2. StatusPlace
    BY <2>1 DEF TermInv
  <2> QED
    BY <1>1, <1>2, <1>4, <2>1, <2>2, StatusNext
<1> QED
  BY <1>1, <1>2, <1>3, <1>4 DEF TermInv

LEMMA TermInvShows == TermInv => ShowsFile
<1> SUFFICES ASSUME TermInv  PROVE  ShowsFile
  OBVIOUS
<1>1. TermTypes /\ output \in Nat
  BY DEF TermInv, TermTypes
<1>2. ASSUME Settled, Still  PROVE  Come = output /\ file = Pieces(0, output)
  <2>1. Len(events) = 0 /\ Len(page.writes) = 0
    BY <1>2 DEF Settled
  <2>2. Come = output - Len(events) - Len(page.writes)
    BY Zenon DEF Come
  <2> QED
    BY <1>1, <1>2, <2>1, <2>2 DEF TermInv, Arrives
<1>3. 0 \in Nat /\ 0 <= output /\ output - 0 = output
  BY <1>1
<1>4. ScreenIsFile
  <2> SUFFICES ASSUME Settled, odd \cap {"raced", "truncated", "torn", "swapped", "lapped"} = {}
               PROVE  page.screen = file
    BY DEF ScreenIsFile
  <2>1. Still /\ Calm /\ Exact(Past)
    BY DEF Still, Calm, Exact, Past
  <2>2. page.at = "open"
    BY DEF Settled
  <2> QED
    BY <1>2, <2>1, <2>2 DEF TermInv, OpenPlace, Shows
<1>5. NothingHidden
  <2> DEFINE left == IF "lapped" \in odd THEN Kept(file) ELSE file
  <2> SUFFICES ASSUME Settled, odd \cap {"raced", "truncated", "swapped"} = {}, NEW x \in ToSet(left)
               PROVE  x \in ToSet(page.screen)
    BY DEF NothingHidden
  <2>1. Still /\ Calm /\ page.at = "open"
    BY DEF Still, Calm, Settled
  <2>2. Covers(page.screen, Lost(Past), output)
    BY <1>2, <2>1 DEF TermInv, OpenPlace, Shows
  <2>3. page.screen \in Seq(Nat) /\ DOMAIN page.screen = 1 .. Len(page.screen)
    BY <1>1, LenProperties DEF TermTypes, TermPages
  <2>4. file = Pieces(0, output) /\ Len(file) = output
    BY <1>1, <1>2, <1>3, <2>1, PiecesAre
  <2>5. left = Pieces(Lost(Past), output) /\ Lost(Past) \in Nat /\ Lost(Past) <= output
    <3>1. DataStartIdx(output) \in Nat /\ DataStartIdx(output) <= output
      BY <1>1, StartIdxIs
    <3>2. SubSeq(file, DataStartIdx(output) + 1, output) = Pieces(DataStartIdx(output), output)
      BY <1>1, <2>4, <3>1, PiecesPart
    <3>3. Kept(file) = Pieces(DataStartIdx(output), output)
      BY <2>4, <3>2 DEF Kept
    <3> QED
      BY <1>1, <2>4, <3>1, <3>3 DEF Lost, Past
  <2> HIDE DEF left
  <2>6. x \in Lost(Past) + 1 .. output
    <3>1. /\ left \in Seq(Nat) /\ Len(left) = output - Lost(Past)
          /\ \A i \in 1 .. output - Lost(Past) : left[i] = Lost(Past) + i
      BY <1>1, <2>5, PiecesAre
    <3>2. DOMAIN left = 1 .. output - Lost(Past)
      BY <3>1, LenProperties
    <3>3. PICK i \in 1 .. output - Lost(Past) : x = left[i]
      BY <3>2 DEF ToSet
    <3> QED
      BY <1>1, <2>5, <3>1, <3>3
  <2>7. PICK i \in 1 .. Len(page.screen) : page.screen[i] = x
    BY <2>2, <2>6 DEF Covers
  <2> QED
    BY <2>3, <2>7 DEF ToSet
<1>6. CountsShown
  <2> SUFFICES ASSUME page.at = "open", odd \cap {"raced", "truncated", "torn", "swapped", "lapped"} = {}
               PROVE  page.ptyOffset <= Len(file) /\ page.screen = SubSeq(file, 1, page.ptyOffset)
    BY DEF CountsShown
  <2>1. Still /\ Calm /\ Exact(Past)
    BY DEF Still, Calm, Exact, Past
  <2>2. page.ptyOffset = Come /\ page.screen = Pieces(0, Come) /\ Come \in Nat /\ file = Pieces(0, output)
    BY <2>1 DEF TermInv, OpenPlace, Shows, Counts, Arrives
  <2>3. Come <= output
    <3> DEFINE a == Len(events)  b == Len(page.writes)
    <3>1. page.writes \in Seq(TermWrites) /\ events \in Seq(TermEvents)
      BY <1>1 DEF TermTypes, TermPages
    <3>2. a \in Nat /\ b \in Nat
      BY <3>1, LenProperties
    <3>3. Come = output - a - b
      BY Zenon DEF Come
    <3> HIDE DEF a, b
    <3> QED
      BY <1>1, <3>2, <3>3
  <2>4. Len(file) = output
    BY <1>1, <1>3, <2>2, PiecesAre
  <2> QED
    BY <1>1, <2>2, <2>3, <2>4, PiecesPart
<1>7. StatusFresh
  <2> SUFFICES ASSUME Settled, infos = <<>>, odd \cap {"raced", "unheard", "truncated"} = {}, file # <<>>
               PROVE  page.status = Mark(Last(file)) /\ rtinfo = page.status
    BY DEF StatusFresh
  <2>1. Still /\ Heard /\ page.at = "open"
    BY DEF Still, Heard, Settled
  <2>2. Come = output /\ file = Pieces(0, output)
    BY <1>2, <2>1
  <2>3. page.status = MarkOf(output) /\ rtinfo = MarkOf(output)
    BY <2>1, <2>2 DEF TermInv, StatusPlace
  <2>4. output # 0
    BY <2>2, PiecesOne
  <2>5. Last(file) = output
    <3>1. output \in 1 .. output - 0 /\ 0 + output = output
      BY <1>1, <2>4
    <3>2. Len(file) = output - 0 /\ \A i \in 1 .. output - 0 : file[i] = 0 + i
      BY <1>1, <1>3, <2>2, PiecesAre, Zenon
    <3> QED
      BY <1>3, <3>1, <3>2 DEF Last
  <2> QED
    BY <2>3, <2>4, <2>5 DEF MarkOf
<1> QED
  BY <1>4, <1>5, <1>6, <1>7 DEF ShowsFile

\* What an open terminal shows is the output of its block, the whole of it once
\* everything has arrived, and the state of the shell is that of its last mark:
\* whatever pages came and went, cached their screens and died; and of a circular
\* file that has gone past the end of the cache, at least what it still has
\* (termwrap.ts, blockstore.go).
THEOREM TerminalShowsFile == TermSpec => []ShowsFile
<1>1. TermSpec => []TermInv
  BY TermInvInit, TermInvNext, PTL DEF TermSpec
<1> QED
  BY <1>1, TermInvShows, PTL

=============================================================================
