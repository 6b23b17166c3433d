---------------------------- MODULE StreamReader ----------------------------
(***************************************************************************)
(* The receiving end of a stream (pkg/streamclient/streamreader.go): it     *)
(* puts packets back in order, hands their bytes to Read, and acknowledges  *)
(* them with the window it has left.  Every method runs under r.lock; only  *)
(* RecvData is more than one step, one per packet it delivers.              *)
(*                                                                          *)
(* The network is external: it may deliver a packet late, more than once or *)
(* never.  The source sends within the window of the latest ack.  A byte is *)
(* represented by its position in the stream.                               *)
(***************************************************************************)
EXTENDS Integers, Sequences

CONSTANTS
  ReadWindow,   \* readWindow: bytes the reader is ready to buffer
  PacketSizes,  \* sizes of the source's data packets
  ReadSizes,    \* lengths of the slices Read is called with
  StreamEnd,    \* bound: bytes of the stream
  Starts        \* where the source's bytes start; the reader expects 0

ASSUME ReaderAssumption ==
  /\ ReadWindow \in Nat \ {0}
  /\ PacketSizes \subseteq Nat \ {0} /\ ReadSizes \subseteq Nat \ {0}
  /\ StreamEnd \in Nat /\ Starts \subseteq 0 .. StreamEnd

VARIABLES
  nextSeq, buffer, eof, err, closed, lastRwndSent,
  oooPackets,   \* the slice, sorted before it is used and without equal Seqs: a set
  delivering,   \* RecvData holds the lock and is delivering packets
  ack,          \* the last ack sent
  received,     \* all the bytes Read has returned
  start, synced, sent, ended, packets

fields == <<nextSeq, buffer, eof, err, closed, lastRwndSent, oooPackets, delivering>>
source == <<start, sent, ended, packets>>
vars   == <<fields, ack, received, synced, source>>

Data(seq, len) == [kind |-> "data", seq |-> seq, len |-> len]
End(kind, seq) == [kind |-> kind, seq |-> seq, len |-> 0]
Bytes(seq, len) == [i \in 1 .. len |-> seq + i - 1]
WindowOneMore(free) == free + 1                                    \* mutation
WindowWhole(free) == ReadWindow                                    \* mutation
Window(free) == IF free < 0 THEN 0 ELSE free

Init ==
  /\ nextSeq = 0 /\ buffer = <<>> /\ eof = FALSE /\ err = "none" /\ closed = FALSE
  /\ lastRwndSent = ReadWindow
  /\ oooPackets = {} /\ delivering = FALSE
  /\ start \in Starts
  /\ ack = [seq |-> 0, rwnd |-> ReadWindow, fin |-> FALSE, cancel |-> FALSE]
  /\ received = <<>>
  /\ synced = (start = 0) /\ sent = start /\ ended = "none" /\ packets = {}

\* sendAckLocked, with the values the fields have at the call.
SendAck(seq, held, fin, cancel) ==
  LET rwnd == Window(ReadWindow - held) IN
  /\ ack' = [seq |-> seq, rwnd |-> rwnd, fin |-> fin, cancel |-> cancel]
  /\ lastRwndSent' = rwnd

LockFree == ~delivering
Open == ~closed /\ ~eof /\ err = "none"

-----------------------------------------------------------------------------
(* RecvData                                                                *)

\* An error ends the stream whatever its sequence.
RecvError(pk) ==
  /\ LockFree /\ Open /\ pk.kind = "error"
  /\ err' = "stream"
  /\ SendAck(nextSeq, Len(buffer), TRUE, FALSE)
  /\ UNCHANGED <<nextSeq, buffer, eof, closed, oooPackets, delivering, received, synced, source>>

addOOOPacketAgain(pk) == oooPackets' = {p \in oooPackets : p.seq # pk.seq} \cup {pk}   \* mutation
addOOOPacket(pk) ==
  oooPackets' = IF \E p \in oooPackets : p.seq = pk.seq THEN oooPackets ELSE oooPackets \cup {pk}

RecvEarly(pk) ==
  /\ LockFree /\ Open /\ pk.kind # "error" /\ pk.seq > nextSeq
  /\ addOOOPacket(pk)
  /\ UNCHANGED <<nextSeq, buffer, eof, err, closed, lastRwndSent, delivering, ack, received, synced, source>>

recvDataUncounted(pk) ==                                           \* mutation
  /\ buffer' = buffer \o Bytes(pk.seq, pk.len)
  /\ nextSeq' = nextSeq
  /\ eof' = (eof \/ pk.kind = "eof")
\* recvDataOrderedLocked
recvDataOrdered(pk) ==
  /\ buffer' = buffer \o Bytes(pk.seq, pk.len)
  /\ nextSeq' = nextSeq + pk.len
  /\ eof' = (eof \/ pk.kind = "eof")

ExpectedOrEarlier(pk) == pk.seq <= nextSeq                         \* mutation
ExpectedOrLater(pk) == pk.seq >= nextSeq                           \* mutation
Expected(pk) == pk.seq = nextSeq

RecvInOrder(pk) ==
  /\ LockFree /\ Open /\ pk.kind # "error" /\ Expected(pk)
  /\ recvDataOrdered(pk)
  /\ delivering' = TRUE
  /\ UNCHANGED <<err, closed, lastRwndSent, oooPackets, ack, received, synced, source>>

\* processOOOPacketsLocked, one round of its loop.
LastPending(pk) == pk \in oooPackets /\ \A p \in oooPackets : p.seq <= pk.seq   \* mutation
FirstPending(pk) == pk \in oooPackets /\ \A p \in oooPackets : pk.seq <= p.seq
NextPending(pk) == FirstPending(pk) /\ pk.seq = nextSeq

DeliverPending(pk) ==
  /\ delivering /\ ~eof /\ NextPending(pk)
  /\ recvDataOrdered(pk)
  /\ oooPackets' = oooPackets \ {pk}
  /\ UNCHANGED <<err, closed, lastRwndSent, delivering, ack, received, synced, source>>

\* Nothing more to deliver: RecvData acks and returns.
Delivered ==
  /\ delivering /\ (eof \/ ~\E pk \in oooPackets : NextPending(pk))
  /\ delivering' = FALSE
  /\ oooPackets' = IF eof THEN {} ELSE oooPackets
  /\ SendAck(nextSeq, Len(buffer), eof, FALSE)
  /\ UNCHANGED <<nextSeq, buffer, eof, err, closed, received, synced, source>>

-----------------------------------------------------------------------------
(* Read, UpdateNextSeq, Close                                              *)

\* A window update is worth an ack when the buffer is empty or a fifth of the
\* window has come free since the last one.
ReadableWhenGrown(held) ==                                         \* mutation
  Window(ReadWindow - held) - lastRwndSent > ReadWindow \div 5 + 1
NeverWorthAnAck(held) == FALSE                                     \* mutation
WorthAnAck(held) ==
  held = 0 \/ Window(ReadWindow - held) - lastRwndSent >= ReadWindow \div 5

Read(size) ==
  LET n == IF size < Len(buffer) THEN size ELSE Len(buffer) IN
  /\ LockFree /\ ~closed /\ err = "none" /\ buffer # <<>>
  /\ received' = received \o SubSeq(buffer, 1, n)
  /\ buffer' = SubSeq(buffer, n + 1, Len(buffer))
  /\ IF WorthAnAck(Len(buffer) - n) THEN SendAck(nextSeq, Len(buffer) - n, FALSE, FALSE)
                                    ELSE UNCHANGED <<ack, lastRwndSent>>
  /\ UNCHANGED <<nextSeq, eof, err, closed, oooPackets, delivering, synced, source>>

\* restartStreaming tells the reader that the source starts further on.
UpdateNextSeq ==
  /\ LockFree /\ ~synced
  /\ nextSeq' = start /\ synced' = TRUE
  /\ UNCHANGED <<buffer, eof, err, closed, lastRwndSent, oooPackets, delivering, ack, received, source>>

CloseReader ==
  /\ LockFree /\ ~closed
  /\ closed' = TRUE
  /\ err' = IF err = "none" THEN "closed" ELSE err
  /\ SendAck(nextSeq, Len(buffer), FALSE, TRUE)
  /\ UNCHANGED <<nextSeq, buffer, eof, oooPackets, delivering, received, synced, source>>

-----------------------------------------------------------------------------
(* The source (external): it sends its bytes once the reader is in step,    *)
(* each once and within the window, which is the whole one before the first *)
(* ack; it ends after the last of them.                                     *)

SourceSends(n) ==
  /\ synced /\ ended = "none"
  /\ sent + n <= StreamEnd
  /\ sent + n <= start + ReadWindow \/ sent + n <= ack.seq + ack.rwnd
  /\ packets' = packets \cup {Data(sent, n)}
  /\ sent' = sent + n
  /\ UNCHANGED <<fields, ack, received, synced, start, ended>>

\* A corked source still sends the end if it has no bytes left.
SourceEnds(kind) ==
  /\ ended = "none" /\ (synced \/ sent = StreamEnd)
  /\ ended' = kind
  /\ packets' = packets \cup {End(kind, sent)}
  /\ UNCHANGED <<fields, ack, received, synced, start, sent>>

RecvData == \E pk \in packets : RecvError(pk) \/ RecvEarly(pk) \/ RecvInOrder(pk)
Deliver == (\E pk \in oooPackets : DeliverPending(pk)) \/ Delivered

Next ==
  \/ RecvData \/ Deliver
  \/ \E size \in ReadSizes : Read(size)
  \/ UpdateNextSeq \/ CloseReader
  \/ \E n \in PacketSizes : SourceSends(n)
  \/ \E kind \in {"eof", "error"} : SourceEnds(kind)

\* RecvData's loop runs to its end; the network delivers a packet it keeps being
\* asked for; the output loop keeps reading and the reconnect completes.
Fairness ==
  /\ WF_vars(Deliver) /\ WF_vars(RecvData) /\ WF_vars(UpdateNextSeq)
  /\ WF_vars(\E size \in ReadSizes : Read(size))
  /\ WF_vars(\E n \in PacketSizes : SourceSends(n))

Spec == Init /\ [][Next]_vars
FairSpec == Spec /\ Fairness

-----------------------------------------------------------------------------
(* Properties                                                              *)

PacketsOfStream == [kind : {"data", "eof", "error"}, seq : Nat, len : Nat]

\* Type correctness: the fields of Reader, the last ack and the source.
TypeOK ==
  /\ nextSeq \in Nat /\ buffer \in Seq(Nat) /\ eof \in BOOLEAN
  /\ err \in {"none", "stream", "closed"} /\ closed \in BOOLEAN
  /\ lastRwndSent \in 0 .. ReadWindow
  /\ oooPackets \subseteq PacketsOfStream /\ delivering \in BOOLEAN
  /\ ack \in [seq : Nat, rwnd : 0 .. ReadWindow, fin : BOOLEAN, cancel : BOOLEAN]
  /\ received \in Seq(Nat)
  /\ start \in Nat /\ synced \in BOOLEAN /\ sent \in Nat
  /\ ended \in {"none", "eof", "error"} /\ packets \subseteq PacketsOfStream

\* However packets are delayed, repeated and reordered, what Read has returned and
\* what it will return next is the stream from its start, every byte once.
InOrderExactlyOnce ==
  received \o buffer = Bytes(start, IF synced THEN nextSeq - start ELSE 0)

\* An end of file is only reported behind the last byte of the stream.
EofBehindLastByte == eof => ended = "eof" /\ nextSeq = sent

\* A source that respects the acked windows never overfills the reader.
BufferWithinWindow == Len(buffer) <= ReadWindow

\* A data packet whose turn has come does not stay among the out of order ones.
DataNotStuck ==
  LockFree /\ Open => \A pk \in oooPackets : pk.kind = "data" => pk.seq > nextSeq

\* The window the source was told is never a fifth of the whole behind the real
\* one, and not behind at all when the reader is empty: a closed window reopens.
WindowReopens ==
  LockFree /\ Open =>
    /\ Window(ReadWindow - Len(buffer)) - lastRwndSent < (IF ReadWindow < 5 THEN 1 ELSE ReadWindow \div 5)
    /\ buffer = <<>> => lastRwndSent = ReadWindow

\* The acked sequence and the end of the acked window only move forward, so an ack
\* never takes back what an earlier one allowed.
WindowNeverShrinks ==
  [][ack'.seq >= ack.seq /\ ack'.seq + ack'.rwnd >= ack.seq + ack.rwnd]_vars

\* What makes these inductive.  The packets under way, and those kept for later,
\* cut the stream up without overlap; an end lies behind all its bytes.
PacketPlace ==
  /\ oooPackets \subseteq packets /\ \A pk \in oooPackets : pk.kind # "error"
  /\ \A pk \in packets :
       IF pk.kind = "data" THEN pk.len > 0 /\ start <= pk.seq /\ pk.seq + pk.len <= sent
                           ELSE pk.len = 0 /\ pk.seq = sent /\ pk.kind = ended
  /\ \A p, q \in packets : p.kind = "data" /\ q.kind = "data" =>
       p = q \/ p.seq + p.len <= q.seq \/ q.seq + q.len <= p.seq

\* Until it is told where the source starts the reader has nothing; then it is
\* somewhere between the start and the last byte sent, before what it keeps.
ReaderPlace ==
  /\ start <= sent
  /\ IF synced THEN start <= nextSeq /\ nextSeq <= sent
     ELSE /\ nextSeq = 0 /\ start > 0 /\ sent = start /\ ~eof /\ ~delivering
          /\ ack.seq = 0 /\ ack.rwnd = ReadWindow
  /\ \A pk \in oooPackets : pk.kind = "data" => pk.seq >= nextSeq

\* What was sent, and what the last ack allows, fits a window after the last byte read.
WindowPlace ==
  /\ sent <= start + Len(received) + ReadWindow
  /\ ack.seq <= nextSeq
  /\ ack.seq + ack.rwnd <= start + Len(received) + ReadWindow

Inv ==
  /\ TypeOK /\ PacketPlace /\ ReaderPlace /\ WindowPlace
  /\ InOrderExactlyOnce /\ EofBehindLastByte /\ BufferWithinWindow /\ DataNotStuck /\ WindowReopens

\* The stream gets through: its bytes are all sent and all read, unless it ends
\* early or fails.  No window stays closed with the source waiting for it.
AllBytesArrive ==
  <>(\/ err # "none"
     \/ /\ sent = StreamEnd \/ ended # "none"
        /\ received = Bytes(start, sent - start))

\* An end of file whose turn has come does not stay among the out of order packets.
EofNotStuck ==
  LockFree /\ Open => \A pk \in oooPackets : pk.kind = "eof" => pk.seq # nextSeq
=============================================================================
