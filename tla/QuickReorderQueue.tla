------------------------- MODULE QuickReorderQueue -------------------------
(***************************************************************************)
(* The queue that puts a job's input back in order                          *)
(* (pkg/utilds/quickreorderqueue.go, as the job manager uses it).  The main *)
(* server numbers the inputs of a session from 1; they arrive in any order, *)
(* or never.  Each method runs under q.lock; the timer's callbacks wait for *)
(* it, so a callback may run although its timer was stopped or replaced.    *)
(*                                                                          *)
(* Time is counted in ticks: an item has an age, a timer has ticks left.    *)
(* Items are distinct, and sessions are first seen at different times.      *)
(***************************************************************************)
EXTENDS Integers, Sequences, FiniteSets

CONSTANTS
  Sessions,    \* session ids
  MaxSeqNum,   \* bound: inputs per session
  Cap,         \* capacity of outCh
  Timeout,     \* the timeout, in ticks
  Off          \* no timer, no session

ASSUME QueueAssumption ==
  /\ Off \notin Sessions /\ Off \notin Int
  /\ MaxSeqNum \in Nat /\ Cap \in Nat \ {0} /\ Timeout \in Nat \ {0}

VARIABLES
  sessionOrder, currentSessionId, nextSeqNum,
  buffer,      \* the items, each with its age: the slice is sorted before every use
  out,         \* all the items ever put into outCh, and why each of them was
  taken,       \* how many of them the consumer has received
  timer,       \* ticks left of q.timer
  stale,       \* ticks left -> how many callbacks that q.timer no longer stands for
  closed,
  toCome,      \* items not queued yet
  accepted     \* items QueueItem took

vars == <<sessionOrder, currentSessionId, nextSeqNum, buffer, out, taken, timer, stale,
          closed, toCome, accepted>>

Items == [session : Sessions, seq : 1 .. MaxSeqNum]
Item(b) == [session |-> b.session, seq |-> b.seq]
Largest(S) == CHOOSE n \in S : \A m \in S : m <= n

Init ==
  /\ sessionOrder = [s \in Sessions |-> 0]
  /\ currentSessionId = Off /\ nextSeqNum = 1
  /\ buffer = {} /\ out = <<>> /\ taken = 0
  /\ timer = Off /\ stale = [t \in 0 .. Timeout |-> 0]
  /\ closed = FALSE /\ toCome = Items /\ accepted = {}

Before(a, b) ==
  \/ sessionOrder[a.session] < sessionOrder[b.session]
  \/ sessionOrder[a.session] = sessionOrder[b.session] /\ a.seq < b.seq

\* What the sorted items S look like in outCh: the item after i - 1 others is the ith.
Sorted(S, i) == CHOOSE b \in S : Cardinality({c \in S : Before(c, b)}) = i - 1
Sent(S, why) == [i \in 1 .. Cardinality(S) |-> [item |-> Item(Sorted(S, i)), why |-> why]]
SentOne(item, why) == <<[item |-> item, why |-> why]>>

ensureTimer(left) == timer' = IF left = Off THEN Timeout ELSE left

\* timer.Stop: a timer that has run down may already have started its callback.
StopTimer ==
  \/ UNCHANGED stale
  \/ timer = 0 /\ stale' = [stale EXCEPT ![0] = @ + 1]

-----------------------------------------------------------------------------
(* QueueItem                                                               *)

RoomForOneMore == Cardinality(buffer) + Len(out) - taken <= Cap     \* mutation
Room == Cardinality(buffer) + Len(out) - taken < Cap
Seen(s) == sessionOrder[s] > 0

\* A closed or full queue returns an error and the input is lost.
Refuse(it) ==
  /\ it \in toCome /\ (closed \/ ~Room)
  /\ toCome' = toCome \ {it}
  /\ UNCHANGED <<sessionOrder, currentSessionId, nextSeqNum, buffer, out, taken, timer,
                 stale, closed, accepted>>

Take(it) ==
  /\ it \in toCome /\ ~closed /\ Room
  /\ toCome' = toCome \ {it} /\ accepted' = accepted \cup {it}
  /\ UNCHANGED <<taken, closed>>

Old(it) ==
  \/ sessionOrder[it.session] < sessionOrder[currentSessionId]
  \/ it.session = currentSessionId /\ it.seq < nextSeqNum

QueueOld(it) ==
  /\ Take(it) /\ Seen(it.session) /\ Old(it)
  /\ out' = out \o SentOne(it, IF it.session = currentSessionId THEN "late" ELSE "old")
  /\ UNCHANGED <<sessionOrder, currentSessionId, nextSeqNum, buffer, timer, stale>>

\* processBuffer_withlock: the buffered items that follow on without a gap.
FollowsAnyway(b, seq) == b.session = currentSessionId              \* mutation
Follows(b, seq) ==
  /\ b.session = currentSessionId /\ seq < b.seq
  /\ \A n \in seq + 1 .. b.seq :
       \E c \in buffer : c.session = currentSessionId /\ c.seq = n

QueueNext(it) ==
  LET run == {b \in buffer : Follows(b, it.seq)} IN
  /\ Take(it) /\ it.session = currentSessionId /\ it.seq = nextSeqNum
  /\ out' = out \o SentOne(it, "next") \o Sent(run, "next")
  /\ buffer' = buffer \ run
  /\ nextSeqNum' = nextSeqNum + 1 + Cardinality(run)
  /\ UNCHANGED <<sessionOrder, currentSessionId, timer, stale>>

QueueAhead(it) ==
  /\ Take(it) /\ Seen(it.session) /\ ~Old(it) /\ it.seq # nextSeqNum
  /\ buffer' = buffer \cup {[session |-> it.session, seq |-> it.seq, age |-> 0]}
  /\ ensureTimer(timer)
  /\ UNCHANGED <<sessionOrder, currentSessionId, nextSeqNum, out, stale>>

\* ensureSessionTs_withlock flushes what earlier sessions left behind.
FlushedNothing(S) == {}                                            \* mutation
Flushed(S) == S

QueueNewSession(it) ==
  LET flushed == Flushed(buffer)
      left == IF flushed = {} THEN timer ELSE Off IN
  /\ Take(it) /\ ~Seen(it.session)
  /\ sessionOrder' =
       [sessionOrder EXCEPT ![it.session] = 1 + Cardinality({s \in Sessions : Seen(s)})]
  /\ currentSessionId' = it.session
  /\ IF flushed = {} THEN UNCHANGED stale ELSE StopTimer
  /\ \/ /\ it.seq = 1
        /\ out' = out \o Sent(flushed, "session") \o SentOne(it, "next")
        /\ nextSeqNum' = 2 /\ buffer' = buffer \ flushed /\ timer' = left
     \/ /\ it.seq # 1
        /\ out' = out \o Sent(flushed, "session")
        /\ nextSeqNum' = 1
        /\ buffer' = (buffer \ flushed)
                       \cup {[session |-> it.session, seq |-> it.seq, age |-> 0]}
        /\ ensureTimer(left)

-----------------------------------------------------------------------------
(* onTimeout, Close, the consumer and the clock                            *)

TimedOut(b) == b.age = Timeout
Due == {b \in buffer : \E t \in buffer : TimedOut(t) /\ (b = t \/ Before(b, t))}
RemainingYoung(S) == {b \in S : ~TimedOut(b)}                      \* mutation
Remaining(S) == S \ Due

NextAfterSum(seqs) == nextSeqNum + Largest(seqs \cup {0})            \* mutation
NextAfter(seqs) == Largest({nextSeqNum} \cup {n + 1 : n \in seqs})

RearmFully(S) == IF S = {} THEN Off ELSE Timeout                   \* mutation
RearmNever(S) == Off                                               \* mutation
Rearm(S) == IF S = {} THEN Off ELSE Timeout - Largest({b.age : b \in S})

onTimeout ==
  /\ ~closed
  /\ out' = out \o Sent(Due, "timeout")
  /\ nextSeqNum' = NextAfter({b.seq : b \in {d \in Due : d.session = currentSessionId}})
  /\ buffer' = Remaining(buffer)
  /\ timer' = Rearm(Remaining(buffer))
  /\ UNCHANGED <<sessionOrder, currentSessionId, taken, closed, toCome, accepted>>

TimerFires == timer = 0 /\ onTimeout /\ UNCHANGED stale

\* A callback whose timer was stopped too late, or replaced, replaces q.timer again.
StaleTimerFires ==
  /\ stale[0] > 0
  /\ onTimeout
  /\ LET rest == [stale EXCEPT ![0] = @ - 1] IN
     stale' = IF timer = Off THEN rest ELSE [rest EXCEPT ![timer] = @ + 1]

\* After Close the callbacks return at once.
Close ==
  /\ ~closed /\ closed' = TRUE
  /\ timer' = Off /\ stale' = [t \in 0 .. Timeout |-> 0]
  /\ UNCHANGED <<sessionOrder, currentSessionId, nextSeqNum, buffer, out, taken, toCome, accepted>>

\* processInputQueue receives from C().
Receive ==
  /\ taken < Len(out) /\ taken' = taken + 1
  /\ UNCHANGED <<sessionOrder, currentSessionId, nextSeqNum, buffer, out, timer, stale,
                 closed, toCome, accepted>>

RunDown(left) == IF left \in {0, Off} THEN left ELSE left - 1
Tick ==
  /\ timer # Off \/ \E t \in 1 .. Timeout : stale[t] > 0
  /\ timer' = RunDown(timer)
  /\ stale' = [t \in 0 .. Timeout |->
                 (IF t = Timeout THEN 0 ELSE stale[t + 1]) + (IF t = 0 THEN stale[0] ELSE 0)]
  /\ buffer' = {[b EXCEPT !.age = IF @ = Timeout THEN @ ELSE @ + 1] : b \in buffer}
  /\ UNCHANGED <<sessionOrder, currentSessionId, nextSeqNum, out, taken, closed, toCome, accepted>>

QueueItem(it) == Refuse(it) \/ QueueOld(it) \/ QueueNext(it) \/ QueueAhead(it) \/ QueueNewSession(it)

Next ==
  \/ \E it \in Items : QueueItem(it)
  \/ TimerFires \/ StaleTimerFires \/ Close \/ Receive \/ Tick

\* The clock runs, a timer that has run down gets to run its callback, and the
\* input goroutine drains the channel.  Inputs may never arrive.
Fairness == WF_vars(Tick) /\ WF_vars(TimerFires) /\ WF_vars(StaleTimerFires) /\ WF_vars(Receive)

Spec == Init /\ [][Next]_vars
FairSpec == Spec /\ Fairness

-----------------------------------------------------------------------------
(* Properties                                                              *)

\* Type correctness.
TypeOK ==
  /\ sessionOrder \in [Sessions -> 0 .. Cardinality(Sessions)]
  /\ currentSessionId \in Sessions \cup {Off}
  /\ nextSeqNum \in 1 .. MaxSeqNum + 1
  /\ buffer \subseteq [session : Sessions, seq : 1 .. MaxSeqNum, age : 0 .. Timeout]
  /\ \A i \in 1 .. Len(out) : out[i].item \in Items
  /\ taken \in 0 .. Len(out)
  /\ timer \in {Off} \cup 0 .. Timeout /\ stale \in [0 .. Timeout -> Nat]
  /\ closed \in BOOLEAN /\ toCome \subseteq Items /\ accepted \subseteq Items \ toCome

\* The queue sends to outCh with the lock held, also from the timer: there is
\* always room for every buffered item, so that send never blocks.
SendNeverBlocks == Cardinality(buffer) + Len(out) - taken <= Cap

\* Whatever order inputs, timers and new sessions come in, an input the queue has
\* accepted is in the buffer or has been passed on, once.
AcceptedOnce ==
  LET passed == {out[i].item : i \in 1 .. Len(out)}
      held   == {Item(b) : b \in buffer} IN
  /\ accepted = passed \cup held
  /\ Len(out) + Cardinality(buffer) = Cardinality(accepted)

\* While its session lasts an input is only overtaken if one behind it could not
\* wait any longer: that one had timed out, or the next session had begun.
OvertakenOnlyAfterWaiting ==
  \A j \in 1 .. Len(out) : \A i \in 1 .. j - 1 :
    (out[i].item.session = out[j].item.session /\ out[i].item.seq > out[j].item.seq) =>
      \/ out[i].why = "old"
      \/ \E k \in 1 .. i :
           /\ out[k].why \in {"timeout", "session"}
           /\ out[k].item.session = out[j].item.session /\ out[k].item.seq > out[j].item.seq

\* What had arrived when a session began comes out before anything of it.
SessionsApart ==
  \A j \in 1 .. Len(out) : \A i \in 1 .. j - 1 :
    sessionOrder[out[i].item.session] > sessionOrder[out[j].item.session] => out[j].why = "old"

\* No buffered item outlives its timeout unnoticed: whatever callbacks were stopped
\* too late or replaced one another, q.timer runs down in time for every item.
TimerInTime ==
  ~closed => \A b \in buffer : timer # Off /\ timer <= Timeout - b.age

\* No input stays in the queue for ever.
EveryItemGetsOut ==
  \A it \in Items : it \in accepted ~> closed \/ (\E i \in 1 .. taken : out[i].item = it)

\* An input whose turn has come is passed on, not kept in the buffer.
TurnIsTaken ==
  ~closed => ~\E b \in buffer : b.session = currentSessionId /\ b.seq = nextSeqNum
=============================================================================
