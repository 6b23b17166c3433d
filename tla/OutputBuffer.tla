---------------------------- MODULE OutputBuffer ----------------------------
(***************************************************************************)
(* What the job manager's output buffer promises its users, without the    *)
(* ring: a job's output is one stream of bytes numbered from 0, and the     *)
(* buffer holds the contiguous stretch head .. total-1 of it.  A byte is    *)
(* represented by its position in the stream, so a byte that is lost,       *)
(* repeated or misplaced is visible.  CirBuf implements this specification. *)
(***************************************************************************)
EXTENDS Integers, Sequences

CONSTANT MaxSize        \* capacity of the buffer, len(cb.buf)

VARIABLES
  head,         \* position of the oldest byte held
  total,        \* number of bytes ever written
  syncMode,     \* TRUE: a full buffer refuses bytes; FALSE: it drops the oldest
  windowSize,   \* how many bytes may be held
  waiting,      \* the writer was refused and has not been released
  out           \* the bytes the last peek returned

abstractVars == <<head, total, syncMode, windowSize, waiting, out>>

Held == total - head
Full == syncMode /\ Held >= windowSize

Init ==
  /\ head = 0 /\ total = 0
  /\ syncMode \in BOOLEAN
  /\ windowSize = MaxSize
  /\ waiting = FALSE
  /\ out = <<>>

\* A refused writer may be released at any time, and must be once there is room.
Release == waiting' => waiting /\ Full'

\* One byte goes in.  Only the asynchronous mode gives up a byte for it.
Write ==
  /\ ~Full
  /\ total' = total + 1
  /\ head' = IF Held < windowSize THEN head ELSE head + 1
  /\ UNCHANGED <<syncMode, windowSize, waiting, out>>

Refuse ==
  /\ Full /\ ~waiting
  /\ waiting' = TRUE
  /\ UNCHANGED <<head, total, syncMode, windowSize, out>>

Consume ==
  /\ head' \in head .. total
  /\ UNCHANGED <<total, syncMode, windowSize, out>>
  /\ Release

SetEffectiveWindow ==
  /\ syncMode' \in BOOLEAN
  /\ windowSize' \in 0 .. MaxSize
  /\ head' = IF ~syncMode' /\ Held > windowSize' THEN total - windowSize' ELSE head
  /\ UNCHANGED <<total, out>>
  /\ Release

\* A peek returns consecutive bytes of the stream and changes nothing.
Peek ==
  /\ \E first \in head .. total : \E n \in 0 .. (total - first) :
        out' = [i \in 1 .. n |-> first + i - 1]
  /\ UNCHANGED <<head, total, syncMode, windowSize, waiting>>

Next == Write \/ Refuse \/ Consume \/ SetEffectiveWindow \/ Peek

Spec == Init /\ [][Next]_abstractVars
=============================================================================
