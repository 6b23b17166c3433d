---------------------- MODULE QuickReorderQueueProofs ----------------------
(***************************************************************************)
(* Proofs about QuickReorderQueue, for any sessions, inputs, capacity and  *)
(* timeout: what the queue accepts it passes on once or still holds, the   *)
(* send to outCh never blocks, the sessions come out one after the other,  *)
(* an input is overtaken only after one behind it could not wait longer,   *)
(* and the timer runs down in time for every item.                         *)
(***************************************************************************)
EXTENDS QuickReorderQueue, SequenceTheorems, FiniteSetTheorems, TLAPS

Reasons == {"late", "old", "next", "timeout", "session"}
Entry == [item : Items, why : Reasons]
Held == [session : Sessions, seq : 1 .. MaxSeqNum, age : 0 .. Timeout]
SeenSessions == {s \in Sessions : Seen(s)}

Types ==
  /\ sessionOrder \in [Sessions -> Nat]
  /\ currentSessionId \in Sessions \cup {Off}
  /\ nextSeqNum \in 1 .. MaxSeqNum + 1
  /\ buffer \subseteq Held /\ IsFiniteSet(buffer)
  /\ out \in Seq(Entry) /\ taken \in 0 .. Len(out)
  /\ timer \in {Off} \cup 0 .. Timeout /\ stale \in [0 .. Timeout -> Nat]
  /\ closed \in BOOLEAN /\ toCome \subseteq Items

\* The current session is the one first seen last, and the buffer holds
\* nothing of an earlier one.
SessionPlace ==
  /\ IsFiniteSet(SeenSessions)
  /\ \A s \in Sessions : sessionOrder[s] <= Cardinality(SeenSessions)
  /\ currentSessionId = Off => SeenSessions = {}
  /\ currentSessionId # Off =>
       /\ Seen(currentSessionId)
       /\ \A s \in Sessions \ {currentSessionId} : sessionOrder[s] < sessionOrder[currentSessionId]
  /\ \A b \in buffer : b.session = currentSessionId
  /\ \A i \in 1 .. Len(out) : Seen(out[i].item.session)

\* An input is in one place.
Places ==
  /\ \A a, b \in buffer : a.seq = b.seq => a = b
  /\ \A i, j \in 1 .. Len(out) : out[i].item = out[j].item => i = j
  /\ \A b \in buffer, i \in 1 .. Len(out) : out[i].item # Item(b)
  /\ accepted = {out[i].item : i \in 1 .. Len(out)} \cup {Item(b) : b \in buffer}
  /\ accepted \cap toCome = {}

\* What answers for number n of session s at place k of o: it is there, or one
\* behind it that waited no longer.
Answers(o, k, s, n) ==
  \/ o[k].item = [session |-> s, seq |-> n]
  \/ o[k].why \in {"timeout", "session"} /\ o[k].item.session = s /\ o[k].item.seq > n

\* No number below nextSeqNum has just been passed over, nor has one below an
\* item that was sent because its turn had come.
PassedOver(o, s, bound) == \A n \in 1 .. bound - 1 : \E k \in 1 .. Len(o) : Answers(o, k, s, n)
Behind(o) ==
  \A i \in 1 .. Len(o) : o[i].why \in {"next", "late"} =>
    \A n \in 1 .. o[i].item.seq - 1 : \E k \in 1 .. i : Answers(o, k, o[i].item.session, n)

Inv == /\ Types /\ SessionPlace /\ Places
       /\ PassedOver(out, currentSessionId, nextSeqNum) /\ Behind(out)
       /\ SessionsApart /\ SendNeverBlocks /\ TimerInTime

-----------------------------------------------------------------------------
(* Lemmas about finite sets and about what is sent. *)

\* What is under x in S by the order R.
Under(S, R, x) == {c \in S : <<c, x>> \in R}

\* In a finite set with a total order R, the element after k others is there
\* for every k, and it is one.
LEMMA Ranks ==
  ASSUME NEW S, IsFiniteSet(S), NEW R,
         \A x \in S : <<x, x>> \notin R,
         \A x, y, z \in S : <<x, y>> \in R /\ <<y, z>> \in R => <<x, z>> \in R,
         \A x, y \in S : x = y \/ <<x, y>> \in R \/ <<y, x>> \in R
  PROVE  /\ Cardinality(S) \in Nat
         /\ \A x \in S : Cardinality(Under(S, R, x)) \in 0 .. Cardinality(S) - 1
         /\ \A x, y \in S : <<x, y>> \in R =>
              Cardinality(Under(S, R, x)) < Cardinality(Under(S, R, y))
         /\ \A k \in 0 .. Cardinality(S) - 1 : \E x \in S : Cardinality(Under(S, R, x)) = k
<1> DEFINE n == Cardinality(S)
           rank == [x \in S |-> Cardinality(Under(S, R, x))]
<1>1. n \in Nat
  BY FS_CardinalityType
<1>2. ASSUME NEW x \in S PROVE IsFiniteSet(Under(S, R, x)) /\ Cardinality(Under(S, R, x)) \in 0 .. n - 1
  <2>1. Under(S, R, x) \in SUBSET S /\ Under(S, R, x) # S
    BY DEF Under
  <2>2. /\ IsFiniteSet(Under(S, R, x)) /\ Cardinality(Under(S, R, x)) <= n
        /\ n = Cardinality(Under(S, R, x)) => S = Under(S, R, x)
    BY <2>1, FS_Subset
  <2>3. Cardinality(Under(S, R, x)) \in Nat
    BY <2>2, FS_CardinalityType
  <2> QED BY <1>1, <2>1, <2>2, <2>3
<1>3. ASSUME NEW x \in S, NEW y \in S, <<x, y>> \in R
      PROVE  Cardinality(Under(S, R, x)) < Cardinality(Under(S, R, y))
  <2>1. Under(S, R, x) \in SUBSET Under(S, R, y) /\ x \in Under(S, R, y) /\ x \notin Under(S, R, x)
    BY <1>3 DEF Under
  <2>2. /\ Cardinality(Under(S, R, x)) <= Cardinality(Under(S, R, y))
        /\ Cardinality(Under(S, R, y)) = Cardinality(Under(S, R, x)) => Under(S, R, y) = Under(S, R, x)
    BY <1>2, <2>1, FS_Subset
  <2> HIDE DEF n
  <2> QED BY <1>1, <1>2, <2>1, <2>2
<1>4. rank \in Injection(S, 0 .. n - 1)
  <2>1. rank \in [S -> 0 .. n - 1]
    BY <1>2
  <2>2. \A x, y \in S : rank[x] = rank[y] => x = y
    <3> SUFFICES ASSUME NEW x \in S, NEW y \in S, rank[x] = rank[y], x # y PROVE FALSE
      OBVIOUS
    <3>1. Cardinality(Under(S, R, x)) = Cardinality(Under(S, R, y))
      OBVIOUS
    <3>2. <<x, y>> \in R \/ <<y, x>> \in R
      OBVIOUS
    <3> HIDE DEF rank, n
    <3> QED BY <1>1, <1>2, <1>3, <3>1, <3>2
  <2> QED BY <2>1, <2>2 DEF Injection, IsInjective
<1>5. IsFiniteSet(0 .. n - 1) /\ Cardinality(0 .. n - 1) = n
  <2> HIDE DEF n
  <2>1. 0 \in Int /\ n - 1 \in Int
    BY <1>1
  <2>2. /\ IsFiniteSet(0 .. n - 1)
        /\ Cardinality(0 .. n - 1) = IF 0 > n - 1 THEN 0 ELSE n - 1 - 0 + 1
    BY <2>1, FS_Interval
  <2> QED BY <1>1, <2>2
<1>6. rank \in Surjection(S, 0 .. n - 1)
  <2> HIDE DEF rank
  <2> QED BY <1>4, <1>5, FS_Injection
<1>7. \A k \in 0 .. n - 1 : \E x \in S : rank[x] = k
  BY <1>6 DEF Surjection
<1> QED BY <1>1, <1>2, <1>3, <1>7

\* A finite set of integers has a largest one.
LEMMA LargestProperty ==
  ASSUME NEW S \in SUBSET Int, IsFiniteSet(S), S # {}
  PROVE  Largest(S) \in S /\ \A m \in S : m <= Largest(S)
<1> DEFINE R == {p \in S \X S : p[1] < p[2]}
<1>1. \A x, y \in S : <<x, y>> \in R <=> x < y
  OBVIOUS
<1>2. /\ \A x \in S : <<x, x>> \notin R
      /\ \A x, y, z \in S : <<x, y>> \in R /\ <<y, z>> \in R => <<x, z>> \in R
      /\ \A x, y \in S : x = y \/ <<x, y>> \in R \/ <<y, x>> \in R
  BY <1>1
<1>3. Cardinality(S) \in Nat /\ Cardinality(S) # 0
  BY FS_CardinalityType, FS_EmptySet
<1> HIDE DEF R
<1>4. /\ \A x \in S : Cardinality(Under(S, R, x)) \in 0 .. Cardinality(S) - 1
      /\ \A x, y \in S : <<x, y>> \in R => Cardinality(Under(S, R, x)) < Cardinality(Under(S, R, y))
      /\ \A k \in 0 .. Cardinality(S) - 1 : \E x \in S : Cardinality(Under(S, R, x)) = k
  BY <1>2, Ranks
<1>5. PICK n \in S : Cardinality(Under(S, R, n)) = Cardinality(S) - 1
  BY <1>3, <1>4
<1>6. \A m \in S : m <= n
  <2> SUFFICES ASSUME NEW m \in S, n < m PROVE FALSE
    OBVIOUS
  <2>1. Cardinality(Under(S, R, n)) < Cardinality(Under(S, R, m))
    BY <1>1, <1>4
  <2>2. Cardinality(Under(S, R, m)) \in 0 .. Cardinality(S) - 1
    BY <1>4
  <2> QED BY <1>3, <1>5, <2>1, <2>2
<1> QED BY <1>5, <1>6 DEF Largest

\* Items of one session: Sorted puts them in a sequence without loss.
LEMMA SortedItems ==
  ASSUME sessionOrder \in [Sessions -> Nat], NEW S \in SUBSET Held, IsFiniteSet(S), NEW s \in Sessions,
         \A b \in S : b.session = s, \A a, b \in S : a.seq = b.seq => a = b
  PROVE  /\ Cardinality(S) \in Nat
         /\ \A i \in 1 .. Cardinality(S) :
              Sorted(S, i) \in S /\ Cardinality({c \in S : c.seq < Sorted(S, i).seq}) = i - 1
         /\ \A i, j \in 1 .. Cardinality(S) : Sorted(S, i) = Sorted(S, j) => i = j
         /\ \A b \in S : \E i \in 1 .. Cardinality(S) : Sorted(S, i) = b
<1> DEFINE R == {p \in S \X S : p[1].seq < p[2].seq}
           n == Cardinality(S)
<1>1. \A b \in S : b.seq \in Nat
  BY DEF Held
<1>2. \A x, y \in S : <<x, y>> \in R <=> x.seq < y.seq
  OBVIOUS
<1>3. /\ \A x \in S : <<x, x>> \notin R
      /\ \A x, y, z \in S : <<x, y>> \in R /\ <<y, z>> \in R => <<x, z>> \in R
      /\ \A x, y \in S : x = y \/ <<x, y>> \in R \/ <<y, x>> \in R
  BY <1>1, <1>2
<1>4. \A x \in S, c \in S : Before(c, x) <=> c.seq < x.seq
  <2>1. sessionOrder[s] \in Nat
    OBVIOUS
  <2> QED BY <2>1 DEF Before
<1>5. ASSUME NEW x \in S
      PROVE  {c \in S : Before(c, x)} = Under(S, R, x) /\ {c \in S : c.seq < x.seq} = Under(S, R, x)
  BY <1>2, <1>4 DEF Under
<1> HIDE DEF R
<1>6. /\ n \in Nat
      /\ \A x \in S : Cardinality(Under(S, R, x)) \in 0 .. n - 1
      /\ \A x, y \in S : <<x, y>> \in R => Cardinality(Under(S, R, x)) < Cardinality(Under(S, R, y))
      /\ \A k \in 0 .. n - 1 : \E x \in S : Cardinality(Under(S, R, x)) = k
  BY <1>3, Ranks
<1> HIDE DEF n
<1>7. \A x, y \in S : Cardinality(Under(S, R, x)) = Cardinality(Under(S, R, y)) => x = y
  <2> SUFFICES ASSUME NEW x \in S, NEW y \in S, x # y,
                      Cardinality(Under(S, R, x)) = Cardinality(Under(S, R, y))
               PROVE  FALSE
    OBVIOUS
  <2>1. <<x, y>> \in R \/ <<y, x>> \in R
    BY <1>3
  <2>2. Cardinality(Under(S, R, x)) \in 0 .. n - 1
    BY <1>6
  <2> QED BY <1>6, <2>1, <2>2
<1>8. ASSUME NEW i \in 1 .. n
      PROVE  Sorted(S, i) \in S /\ Cardinality(Under(S, R, Sorted(S, i))) = i - 1
  <2>1. i - 1 \in 0 .. n - 1
    BY <1>6
  <2>2. PICK x \in S : Cardinality(Under(S, R, x)) = i - 1
    BY <1>6, <2>1
  <2>3. Cardinality({c \in S : Before(c, x)}) = i - 1
    BY <1>5, <2>2
  <2>4. Sorted(S, i) \in S /\ Cardinality({c \in S : Before(c, Sorted(S, i))}) = i - 1
    BY <2>3 DEF Sorted
  <2> QED BY <1>5, <2>4
<1>9. \A i, j \in 1 .. n : Sorted(S, i) = Sorted(S, j) => i = j
  BY <1>8, <1>6
<1>10. \A b \in S : \E i \in 1 .. n : Sorted(S, i) = b
  <2> SUFFICES ASSUME NEW b \in S PROVE \E i \in 1 .. n : Sorted(S, i) = b
    OBVIOUS
  <2> DEFINE i == Cardinality(Under(S, R, b)) + 1
  <2>1. i \in 1 .. n /\ i - 1 = Cardinality(Under(S, R, b))
    BY <1>6
  <2> HIDE DEF i
  <2>2. Sorted(S, i) = b
    BY <1>7, <1>8, <2>1
  <2> QED BY <2>1, <2>2
<1>11. \A i \in 1 .. n : Cardinality({c \in S : c.seq < Sorted(S, i).seq}) = i - 1
  BY <1>5, <1>8
<1> QED BY <1>6, <1>8, <1>9, <1>10, <1>11 DEF n

LEMMA SentItems ==
  ASSUME sessionOrder \in [Sessions -> Nat], NEW S \in SUBSET Held, IsFiniteSet(S), NEW s \in Sessions,
         \A b \in S : b.session = s, \A a, b \in S : a.seq = b.seq => a = b, NEW why \in Reasons
  PROVE  /\ Sent(S, why) \in Seq(Entry) /\ Len(Sent(S, why)) = Cardinality(S) /\ Cardinality(S) \in Nat
         /\ \A i \in 1 .. Cardinality(S) :
              /\ Sent(S, why)[i].why = why /\ Sent(S, why)[i].item = Item(Sorted(S, i))
              /\ Sorted(S, i) \in S /\ Item(Sorted(S, i)) \in Items
         /\ \A i, j \in 1 .. Cardinality(S) : Sorted(S, i) = Sorted(S, j) => i = j
         /\ \A b \in S : \E i \in 1 .. Cardinality(S) : Sorted(S, i) = b
<1>1. /\ Cardinality(S) \in Nat
      /\ \A i \in 1 .. Cardinality(S) : Sorted(S, i) \in S
      /\ \A i, j \in 1 .. Cardinality(S) : Sorted(S, i) = Sorted(S, j) => i = j
      /\ \A b \in S : \E i \in 1 .. Cardinality(S) : Sorted(S, i) = b
  BY SortedItems
<1>2. \A b \in S : Item(b) \in Items
  BY DEF Held, Item, Items
<1>3. \A i \in 1 .. Cardinality(S) : [item |-> Item(Sorted(S, i)), why |-> why] \in Entry
  BY <1>1, <1>2 DEF Entry
<1>4. Sent(S, why) \in Seq(Entry) /\ Len(Sent(S, why)) = Cardinality(S)
  BY <1>1, <1>3 DEF Sent
<1> QED BY <1>1, <1>2, <1>4 DEF Sent

\* The sequence that is left when more is put behind out.
LEMMA OutGrows ==
  ASSUME NEW o \in Seq(Entry), NEW more \in Seq(Entry)
  PROVE  /\ o \o more \in Seq(Entry) /\ Len(o \o more) = Len(o) + Len(more)
         /\ Len(o) \in Nat /\ Len(more) \in Nat
         /\ \A i \in 1 .. Len(o) : i \in 1 .. Len(o \o more) /\ (o \o more)[i] = o[i]
         /\ \A i \in 1 .. Len(more) :
              Len(o) + i \in 1 .. Len(o \o more) /\ (o \o more)[Len(o) + i] = more[i]
         /\ \A i \in 1 .. Len(o \o more) : i \in 1 .. Len(o) \/ \E j \in 1 .. Len(more) : i = Len(o) + j
<1>1. /\ o \o more \in Seq(Entry) /\ Len(o \o more) = Len(o) + Len(more)
      /\ \A i \in 1 .. Len(o) + Len(more) : (o \o more)[i] = IF i <= Len(o) THEN o[i] ELSE more[i - Len(o)]
  BY ConcatProperties
<1>2. Len(o) \in Nat /\ Len(more) \in Nat
  BY LenProperties
<1>3. \A i \in 1 .. Len(o) + Len(more) :
        i \in 1 .. Len(o) \/ (i - Len(o) \in 1 .. Len(more) /\ i = Len(o) + (i - Len(o)))
  BY <1>2
<1> QED BY <1>1, <1>2, <1>3

\* What has answered once answers ever after.
LEMMA StillPassedOver ==
  ASSUME NEW o \in Seq(Entry), NEW more \in Seq(Entry), NEW s, NEW bound, PassedOver(o, s, bound)
  PROVE  PassedOver(o \o more, s, bound)
<1> SUFFICES ASSUME NEW n \in 1 .. bound - 1 PROVE \E k \in 1 .. Len(o \o more) : Answers(o \o more, k, s, n)
  BY DEF PassedOver
<1>1. PICK k \in 1 .. Len(o) : Answers(o, k, s, n)
  BY DEF PassedOver
<1>2. k \in 1 .. Len(o \o more) /\ (o \o more)[k] = o[k]
  BY OutGrows
<1> QED BY <1>1, <1>2 DEF Answers

\* Behind, for what is new.
LEMMA StillBehind ==
  ASSUME NEW o \in Seq(Entry), NEW more \in Seq(Entry), Behind(o),
         \A i \in 1 .. Len(more) : more[i].why \in {"next", "late"} =>
           \A n \in 1 .. more[i].item.seq - 1 :
             \/ \E k \in 1 .. Len(o) : Answers(o, k, more[i].item.session, n)
             \/ \E k \in 1 .. i : Answers(more, k, more[i].item.session, n)
  PROVE  Behind(o \o more)
<1> DEFINE p == o \o more
<1>1. /\ Len(p) = Len(o) + Len(more) /\ Len(o) \in Nat /\ Len(more) \in Nat
      /\ \A i \in 1 .. Len(o) : p[i] = o[i]
      /\ \A i \in 1 .. Len(more) : p[Len(o) + i] = more[i]
      /\ \A i \in 1 .. Len(p) : i \in 1 .. Len(o) \/ \E j \in 1 .. Len(more) : i = Len(o) + j
  BY OutGrows
<1> HIDE DEF p
<1>2. /\ \A k \in 1 .. Len(o) : \A s, n : Answers(o, k, s, n) => Answers(p, k, s, n)
      /\ \A k \in 1 .. Len(more) : \A s, n : Answers(more, k, s, n) => Answers(p, Len(o) + k, s, n)
  BY <1>1 DEF Answers
<1> SUFFICES ASSUME NEW i \in 1 .. Len(p), p[i].why \in {"next", "late"}, NEW n \in 1 .. p[i].item.seq - 1
             PROVE  \E k \in 1 .. i : Answers(p, k, p[i].item.session, n)
  BY DEF Behind, p
<1>3. CASE i \in 1 .. Len(o)
  <2>1. PICK k \in 1 .. i : Answers(o, k, o[i].item.session, n)
    BY <1>1, <1>3 DEF Behind
  <2>2. k \in 1 .. Len(o)
    BY <1>3, <1>1
  <2> QED BY <1>1, <1>2, <1>3, <2>1, <2>2
<1>4. CASE \E j \in 1 .. Len(more) : i = Len(o) + j
  <2>1. PICK j \in 1 .. Len(more) : i = Len(o) + j
    BY <1>4
  <2>2. p[i] = more[j]
    BY <1>1, <2>1
  <2>3. CASE \E k \in 1 .. Len(o) : Answers(o, k, more[j].item.session, n)
    <3>1. PICK k \in 1 .. Len(o) : Answers(o, k, more[j].item.session, n)
      BY <2>3
    <3>2. k \in 1 .. i
      BY <1>1, <2>1
    <3> QED BY <1>2, <2>2, <3>1, <3>2
  <2>4. CASE \E k \in 1 .. j : Answers(more, k, more[j].item.session, n)
    <3>1. PICK k \in 1 .. j : Answers(more, k, more[j].item.session, n)
      BY <2>4
    <3>2. k \in 1 .. Len(more) /\ Len(o) + k \in 1 .. i
      BY <1>1, <2>1
    <3> QED BY <1>2, <2>2, <3>1, <3>2
  <2> QED BY <2>2, <2>3, <2>4
<1> QED BY <1>1, <1>3, <1>4

-----------------------------------------------------------------------------
(* What the steps have in common. *)

LEMMA ItemFacts ==
  /\ \A b \in Held : Item(b) \in Items /\ Item(b).session = b.session /\ Item(b).seq = b.seq
  /\ \A it \in Items : /\ it.session \in Sessions /\ it.seq \in 1 .. MaxSeqNum
                       /\ it = [session |-> it.session, seq |-> it.seq]
  /\ \A it \in Items, b \in Held : Item(b) = it <=> b.session = it.session /\ b.seq = it.seq
BY DEF Held, Item, Items

\* Of the buffer gone leaves for outCh and come is put in; more is what outCh
\* gets: gone, and of the inputs to come sent.
Moves(more, gone, come, sent, s) ==
  /\ out' = out \o more
  /\ buffer' = (buffer \ gone) \cup come
  /\ gone \subseteq buffer /\ come \subseteq Held /\ sent \subseteq toCome
  /\ \A b \in buffer' : b.session = s
  /\ \A a, b \in come : a = b
  /\ \A b \in come : Item(b) \in toCome \ sent
  /\ \A i, j \in 1 .. Len(more) : more[i].item = more[j].item => i = j
  /\ {more[i].item : i \in 1 .. Len(more)} = sent \cup {Item(b) : b \in gone}
  /\ accepted' = accepted \cup sent \cup {Item(b) : b \in come}
  /\ toCome' = toCome \ (sent \cup {Item(b) : b \in come})

\* Each input is in one place then.
LEMMA PlacesAfter ==
  ASSUME Inv, NEW more \in Seq(Entry), NEW gone, NEW come, NEW sent, NEW s,
         Moves(more, gone, come, sent, s)
  PROVE  Places'
<1> USE DEF Moves
<1>1. /\ buffer \subseteq Held /\ out \in Seq(Entry)
      /\ \A a, b \in buffer : a.seq = b.seq => a = b
      /\ \A i, j \in 1 .. Len(out) : out[i].item = out[j].item => i = j
      /\ \A b \in buffer, i \in 1 .. Len(out) : out[i].item # Item(b)
      /\ accepted = {out[i].item : i \in 1 .. Len(out)} \cup {Item(b) : b \in buffer}
      /\ accepted \cap toCome = {}
  BY DEF Inv, Types, Places
<1>2. /\ \A i \in 1 .. Len(out) : i \in 1 .. Len(out') /\ out'[i] = out[i]
      /\ \A i \in 1 .. Len(more) : Len(out) + i \in 1 .. Len(out') /\ out'[Len(out) + i] = more[i]
      /\ \A i \in 1 .. Len(out') : i \in 1 .. Len(out) \/ \E j \in 1 .. Len(more) : i = Len(out) + j
  BY <1>1, OutGrows
<1>3. \A i \in 1 .. Len(more) :
        more[i].item \in sent \/ \E b \in gone : more[i].item = Item(b)
  OBVIOUS
<1>4. \A i \in 1 .. Len(more), j \in 1 .. Len(out) : more[i].item # out[j].item
  BY <1>1, <1>3
<1>5. \A a, b \in buffer' : a.seq = b.seq => a = b
  <2> SUFFICES ASSUME NEW a \in buffer', NEW b \in buffer', a.seq = b.seq, a # b PROVE FALSE
    OBVIOUS
  <2>1. Item(a) = Item(b)
    BY DEF Item
  <2>2. \A c \in buffer : Item(c) \notin toCome
    BY <1>1
  <2> QED BY <1>1, <2>1, <2>2
<1>6. \A i, j \in 1 .. Len(out') : out'[i].item = out'[j].item => i = j
  BY <1>1, <1>2, <1>4
<1>7. \A b \in buffer', i \in 1 .. Len(out') : out'[i].item # Item(b)
  <2>1. \A b \in buffer', i \in 1 .. Len(out) : out[i].item # Item(b)
    BY <1>1
  <2>2. ASSUME NEW b \in buffer', NEW i \in 1 .. Len(more), more[i].item = Item(b) PROVE FALSE
    <3>1. CASE b \in come
      <4>1. Item(b) \in toCome \ sent
        BY <3>1
      <4> QED BY <1>1, <1>3, <2>2, <4>1
    <3>2. CASE b \in buffer \ gone
      <4>1. \A c \in gone : Item(c) # Item(b)
        <5> SUFFICES ASSUME NEW c \in gone, Item(c) = Item(b) PROVE FALSE
          OBVIOUS
        <5>1. c.seq = b.seq
          BY DEF Item
        <5> QED BY <1>1, <3>2, <5>1
      <4> QED BY <1>1, <1>3, <2>2, <3>2, <4>1
    <3> QED BY <3>1, <3>2
  <2> QED BY <1>2, <2>1, <2>2
<1>8. accepted' = {out'[i].item : i \in 1 .. Len(out')} \cup {Item(b) : b \in buffer'}
  <2>1. {out'[i].item : i \in 1 .. Len(out')}
          = {out[i].item : i \in 1 .. Len(out)} \cup {more[i].item : i \in 1 .. Len(more)}
    BY <1>2
  <2>2. {Item(b) : b \in buffer'} \cup {Item(b) : b \in gone}
          = {Item(b) : b \in buffer} \cup {Item(b) : b \in come}
    OBVIOUS
  <2> QED BY <1>1, <2>1, <2>2
<1>9. accepted' \cap toCome' = {}
  BY <1>1
<1> QED BY <1>5, <1>6, <1>7, <1>8, <1>9 DEF Places

\* A step of the current session, or of one of the past that is sent at once.
LEMMA SameSession ==
  ASSUME Inv, UNCHANGED <<sessionOrder, currentSessionId>>,
         NEW more \in Seq(Entry), out' = out \o more,
         \A b \in buffer' : b.session = currentSessionId,
         \A i \in 1 .. Len(more) :
           /\ Seen(more[i].item.session) /\ more[i].item.session \in Sessions
           /\ more[i].why = "old" \/ more[i].item.session = currentSessionId
  PROVE  SessionPlace' /\ SessionsApart'
<1>1. out \in Seq(Entry) /\ sessionOrder \in [Sessions -> Nat]
  BY DEF Inv, Types
<1>2. /\ \A i \in 1 .. Len(out) : i \in 1 .. Len(out') /\ out'[i] = out[i]
      /\ \A i \in 1 .. Len(more) : Len(out) + i \in 1 .. Len(out') /\ out'[Len(out) + i] = more[i]
      /\ \A i \in 1 .. Len(out') : i \in 1 .. Len(out) \/ \E j \in 1 .. Len(more) : i = Len(out) + j
      /\ Len(out) \in Nat
  BY <1>1, OutGrows
<1>3. \A i \in 1 .. Len(out') : out'[i].item.session \in Sessions /\ Seen(out'[i].item.session)
  <2>1. \A i \in 1 .. Len(out) : out[i].item.session \in Sessions /\ Seen(out[i].item.session)
    <3>1. \A i \in 1 .. Len(out) : out[i] \in Entry
      BY <1>1, ElementOfSeq
    <3> QED BY <3>1 DEF Inv, SessionPlace, Entry, Items
  <2> QED BY <1>2, <2>1
<1>4. SessionPlace'
  BY <1>3 DEF Inv, SessionPlace, SeenSessions, Seen
<1>5. \A t \in Sessions : Seen(t) =>
        \A s \in Sessions : ~ (sessionOrder[s] > sessionOrder[currentSessionId])
  <2> SUFFICES ASSUME NEW t \in Sessions, Seen(t), NEW s \in Sessions
               PROVE  ~ (sessionOrder[s] > sessionOrder[currentSessionId])
    OBVIOUS
  <2>1. currentSessionId # Off /\ currentSessionId \in Sessions
    BY DEF Inv, Types, SessionPlace, SeenSessions
  <2> QED BY <1>1, <2>1 DEF Inv, SessionPlace
<1>6. SessionsApart'
  <2> SUFFICES ASSUME NEW j \in 1 .. Len(out'), NEW i \in 1 .. j - 1,
                      sessionOrder[out'[i].item.session] > sessionOrder[out'[j].item.session]
               PROVE  out'[j].why = "old"
    BY DEF SessionsApart
  <2>1. i \in 1 .. Len(out')
    OBVIOUS
  <2>2. CASE j \in 1 .. Len(out)
    <3>1. i \in 1 .. Len(out)
      BY <1>2, <2>2
    <3> QED BY <1>2, <2>2, <3>1 DEF Inv, SessionsApart
  <2>3. CASE \E k \in 1 .. Len(more) : j = Len(out) + k
    <3>1. PICK k \in 1 .. Len(more) : j = Len(out) + k
      BY <2>3
    <3>2. out'[j].why = "old" \/ out'[j].item.session = currentSessionId
      BY <1>2, <3>1
    <3>3. out'[i].item.session \in Sessions /\ Seen(out'[i].item.session)
      BY <1>3, <2>1
    <3> QED BY <1>5, <3>2, <3>3
  <2> QED BY <1>2, <2>2, <2>3
<1> QED BY <1>4, <1>6

\* Nothing moves between the places.
LEMMA SamePlaces ==
  ASSUME Inv, UNCHANGED <<sessionOrder, currentSessionId, nextSeqNum, buffer, out, accepted>>,
         toCome' \subseteq toCome
  PROVE  /\ SessionPlace' /\ Places' /\ SessionsApart'
         /\ PassedOver(out, currentSessionId, nextSeqNum)' /\ Behind(out)'
BY DEF Inv, SessionPlace, SeenSessions, Seen, Places, PassedOver, Behind, Answers, SessionsApart, Item

LEMMA RefuseInv ==
  ASSUME Inv, NEW it \in Items, Refuse(it)
  PROVE  Inv'
<1>1. /\ UNCHANGED <<sessionOrder, currentSessionId, nextSeqNum, buffer, out, taken, timer, stale, closed, accepted>>
      /\ toCome' \subseteq toCome
  BY DEF Refuse
<1>2. Types' /\ SendNeverBlocks' /\ TimerInTime'
  BY <1>1 DEF Inv, Types, SendNeverBlocks, TimerInTime
<1> QED BY <1>1, <1>2, SamePlaces DEF Inv

LEMMA CloseInv ==
  ASSUME Inv, Close
  PROVE  Inv'
<1>1. /\ UNCHANGED <<sessionOrder, currentSessionId, nextSeqNum, buffer, out, taken, toCome, accepted>>
      /\ closed' = TRUE /\ timer' = Off /\ stale' = [t \in 0 .. Timeout |-> 0]
  BY DEF Close
<1>2. Types' /\ SendNeverBlocks' /\ TimerInTime'
  BY <1>1 DEF Inv, Types, SendNeverBlocks, TimerInTime
<1> QED BY <1>1, <1>2, SamePlaces DEF Inv

LEMMA ReceiveInv ==
  ASSUME Inv, Receive
  PROVE  Inv'
<1>1. /\ UNCHANGED <<sessionOrder, currentSessionId, nextSeqNum, buffer, out, timer, stale, closed, toCome, accepted>>
      /\ taken < Len(out) /\ taken' = taken + 1
  BY DEF Receive
<1>2. Len(out) \in Nat /\ Cardinality(buffer) \in Nat /\ taken \in 0 .. Len(out) /\ Cap \in Nat
  BY LenProperties, FS_CardinalityType, QueueAssumption DEF Inv, Types
<1>3. Types'
  BY <1>1, <1>2 DEF Inv, Types
<1>4. SendNeverBlocks'
  BY <1>1, <1>2 DEF Inv, SendNeverBlocks
<1>5. TimerInTime'
  BY <1>1 DEF Inv, TimerInTime
<1> QED BY <1>1, <1>3, <1>4, <1>5, SamePlaces DEF Inv

\* The clock makes the buffered items older and changes nothing else about them.
LEMMA TickInv ==
  ASSUME Inv, Tick
  PROVE  Inv'
<1> DEFINE older(b) == [b EXCEPT !.age = IF @ = Timeout THEN @ ELSE @ + 1]
           f == [b \in buffer |-> older(b)]
<1>0. Timeout \in Nat /\ Off \notin Int
  BY QueueAssumption
<1>1. /\ UNCHANGED <<sessionOrder, currentSessionId, nextSeqNum, out, taken, closed, toCome, accepted>>
      /\ timer' = RunDown(timer)
      /\ buffer' = {older(b) : b \in buffer}
      /\ stale' = [t \in 0 .. Timeout |->
                     (IF t = Timeout THEN 0 ELSE stale[t + 1]) + (IF t = 0 THEN stale[0] ELSE 0)]
  BY DEF Tick
<1>2. ASSUME NEW b \in Held
      PROVE  /\ older(b) \in Held /\ Item(older(b)) = Item(b)
             /\ older(b).session = b.session /\ older(b).seq = b.seq
             /\ older(b).age = IF b.age = Timeout THEN b.age ELSE b.age + 1
  <2>1. b.age \in 0 .. Timeout
    BY DEF Held
  <2> QED BY <1>0, <2>1 DEF Held, Item
<1>3. buffer \subseteq Held /\ IsFiniteSet(buffer) /\ Cardinality(buffer) \in Nat
  BY FS_CardinalityType DEF Inv, Types
<1> HIDE DEF older
<1>4. IsFiniteSet(buffer') /\ Cardinality(buffer') <= Cardinality(buffer) /\ Cardinality(buffer') \in Nat
  <2>1. f \in Surjection(buffer, buffer')
    BY <1>1 DEF Surjection
  <2> HIDE DEF f
  <2> QED BY <1>3, <2>1, FS_Surjection, FS_CardinalityType
<1>5. Types'
  <2>1. timer' \in {Off} \cup 0 .. Timeout
    BY <1>0, <1>1 DEF RunDown, Inv, Types
  <2>2. stale' \in [0 .. Timeout -> Nat]
    <3>1. \A t \in 0 .. Timeout : t # Timeout => t + 1 \in 0 .. Timeout
      BY <1>0
    <3>2. stale \in [0 .. Timeout -> Nat] /\ 0 \in 0 .. Timeout
      BY <1>0 DEF Inv, Types
    <3>3. \A t \in 0 .. Timeout :
            (IF t = Timeout THEN 0 ELSE stale[t + 1]) + (IF t = 0 THEN stale[0] ELSE 0) \in Nat
      BY <3>1, <3>2
    <3> QED BY <1>1, <3>3
  <2>3. buffer' \subseteq Held
    BY <1>1, <1>2, <1>3
  <2> QED BY <1>1, <1>4, <2>1, <2>2, <2>3 DEF Inv, Types
<1>6. SessionPlace'
  <2>1. \A b \in buffer' : b.session = currentSessionId
    BY <1>1, <1>2, <1>3 DEF Inv, SessionPlace
  <2> QED BY <1>1, <2>1 DEF Inv, SessionPlace, SeenSessions, Seen
<1>7. Places'
  <2>1. {Item(b) : b \in buffer'} = {Item(b) : b \in buffer}
    BY <1>1, <1>2, <1>3
  <2>2. \A a, b \in buffer' : a.seq = b.seq => a = b
    BY <1>1, <1>2, <1>3 DEF Inv, Places
  <2>3. \A b \in buffer', i \in 1 .. Len(out) : out[i].item # Item(b)
    BY <1>1, <1>2, <1>3 DEF Inv, Places
  <2> QED BY <1>1, <2>1, <2>2, <2>3 DEF Inv, Places
<1>8. PassedOver(out, currentSessionId, nextSeqNum)' /\ Behind(out)' /\ SessionsApart'
  BY <1>1 DEF Inv, PassedOver, Behind, Answers, SessionsApart
<1>9. SendNeverBlocks'
  <2>1. Len(out) \in Nat /\ taken \in 0 .. Len(out) /\ Cap \in Nat
    BY LenProperties, QueueAssumption DEF Inv, Types
  <2> QED BY <1>1, <1>3, <1>4, <2>1 DEF Inv, SendNeverBlocks
<1>10. TimerInTime'
  <2> SUFFICES ASSUME ~closed, NEW b \in buffer PROVE timer' # Off /\ timer' <= Timeout - older(b).age
    BY <1>1 DEF TimerInTime
  <2>1. timer # Off /\ timer <= Timeout - b.age /\ timer \in 0 .. Timeout
    BY DEF Inv, TimerInTime, Types
  <2>2. b.age \in 0 .. Timeout
    BY <1>3 DEF Held
  <2>3. timer' = IF timer = 0 THEN 0 ELSE timer - 1
    BY <1>0, <1>1, <2>1 DEF RunDown
  <2>4. timer' \in Int /\ timer' <= Timeout - older(b).age
    BY <1>0, <1>2, <1>3, <2>1, <2>2, <2>3
  <2> QED BY <1>0, <2>4
<1> QED BY <1>5, <1>6, <1>7, <1>8, <1>9, <1>10 DEF Inv

\* What every accepted input finds.
LEMMA TakeFacts ==
  ASSUME Inv, NEW it \in Items, Take(it)
  PROVE  /\ it \in toCome /\ it \notin accepted /\ ~closed
         /\ toCome' = toCome \ {it} /\ accepted' = accepted \cup {it} /\ taken' = taken /\ closed' = closed
         /\ Len(out) \in Nat /\ Cardinality(buffer) \in Nat /\ taken \in 0 .. Len(out) /\ Cap \in Nat
         /\ Cardinality(buffer) + Len(out) - taken < Cap
         /\ (Seen(it.session) => currentSessionId \in Sessions /\ currentSessionId # Off)
BY LenProperties, FS_CardinalityType, QueueAssumption
   DEF Inv, Types, Places, SessionPlace, SeenSessions, Take, Room, Items

LEMMA SentOneItem ==
  ASSUME NEW it \in Items, NEW why \in Reasons
  PROVE  /\ SentOne(it, why) \in Seq(Entry) /\ Len(SentOne(it, why)) = 1
         /\ SentOne(it, why)[1].item = it /\ SentOne(it, why)[1].why = why
         /\ {SentOne(it, why)[i].item : i \in 1 .. Len(SentOne(it, why))} = {it}
<1> DEFINE e == [item |-> it, why |-> why]
<1>1. e \in Entry
  BY DEF Entry
<1> HIDE DEF e
<1>2. <<e>> \in Seq(Entry) /\ Len(<<e>>) = 1 /\ <<e>>[1] = e
  BY <1>1
<1>3. {<<e>>[i].item : i \in 1 .. Len(<<e>>)} = {e.item}
  BY <1>2
<1>4. e.item = it /\ e.why = why
  BY DEF e
<1> QED BY <1>2, <1>3, <1>4 DEF SentOne, e

LEMMA QueueOldInv ==
  ASSUME Inv, NEW it \in Items, QueueOld(it)
  PROVE  Inv'
<1> DEFINE why == IF it.session = currentSessionId THEN "late" ELSE "old"
           more == SentOne(it, why)
<1>1. /\ Take(it) /\ Seen(it.session) /\ Old(it) /\ out' = out \o more
      /\ UNCHANGED <<sessionOrder, currentSessionId, nextSeqNum, buffer, timer, stale>>
  BY DEF QueueOld
<1>2. /\ it \in toCome /\ ~closed
      /\ toCome' = toCome \ {it} /\ accepted' = accepted \cup {it} /\ taken' = taken /\ closed' = closed
      /\ Len(out) \in Nat /\ Cardinality(buffer) \in Nat /\ taken \in 0 .. Len(out) /\ Cap \in Nat
      /\ Cardinality(buffer) + Len(out) - taken < Cap
      /\ currentSessionId \in Sessions /\ currentSessionId # Off
  BY <1>1, TakeFacts
<1>3. why \in Reasons
  BY DEF Reasons
<1> HIDE DEF why
<1>4. /\ more \in Seq(Entry) /\ Len(more) = 1 /\ more[1].item = it /\ more[1].why = why
      /\ {more[i].item : i \in 1 .. Len(more)} = {it}
  BY <1>3, SentOneItem
<1> HIDE DEF more
<1>5. out \in Seq(Entry) /\ out' \in Seq(Entry) /\ Len(out') = Len(out) + 1
  <2>1. out \in Seq(Entry)
    BY DEF Inv, Types
  <2>2. out \o more \in Seq(Entry) /\ Len(out \o more) = Len(out) + Len(more)
    BY <1>4, <2>1, OutGrows
  <2> QED BY <1>1, <1>4, <2>1, <2>2
<1>6. Types'
  BY <1>1, <1>2, <1>5 DEF Inv, Types
<1>7. SessionPlace' /\ SessionsApart'
  <2>1. \A i \in 1 .. Len(more) :
           /\ Seen(more[i].item.session) /\ more[i].item.session \in Sessions
           /\ more[i].why = "old" \/ more[i].item.session = currentSessionId
    BY <1>1, <1>4, ItemFacts DEF why
  <2>2. \A b \in buffer' : b.session = currentSessionId
    BY <1>1 DEF Inv, SessionPlace
  <2> QED BY <1>1, <1>2, <1>4, <2>1, <2>2, SameSession
<1>8. Places'
  <2>1. \A b \in buffer' : b.session = currentSessionId
    BY <1>1 DEF Inv, SessionPlace
  <2>2. \A i, j \in 1 .. Len(more) : more[i].item = more[j].item => i = j
    BY <1>4
  <2>3. {more[i].item : i \in 1 .. Len(more)} = {it} \cup {Item(b) : b \in {}}
    BY <1>4
  <2>4. Moves(more, {}, {}, {it}, currentSessionId)
    BY <1>1, <1>2, <2>1, <2>2, <2>3 DEF Moves
  <2> QED BY <1>4, <2>4, PlacesAfter
<1>9. PassedOver(out, currentSessionId, nextSeqNum)'
  <2>1. PassedOver(out \o more, currentSessionId, nextSeqNum)
    BY <1>4, <1>5, StillPassedOver DEF Inv
  <2> QED BY <1>1, <2>1 DEF PassedOver, Answers
<1>10. Behind(out)'
  <2>1. ASSUME NEW i \in 1 .. Len(more), more[i].why \in {"next", "late"}, NEW n \in 1 .. more[i].item.seq - 1
        PROVE  \E k \in 1 .. Len(out) : Answers(out, k, more[i].item.session, n)
    <3>1. more[i].item = it /\ more[i].why = why
      BY <1>4
    <3>2. it.session = currentSessionId
      BY <2>1, <3>1 DEF why
    <3>3. it.seq < nextSeqNum
      <4>1. sessionOrder[currentSessionId] \in Nat
        BY <1>2 DEF Inv, Types
      <4> QED BY <1>1, <3>2, <4>1 DEF Old
    <3>4. n \in 1 .. nextSeqNum - 1
      BY <2>1, <3>1, <3>3, ItemFacts DEF Inv, Types
    <3> QED BY <3>1, <3>2, <3>4 DEF Inv, PassedOver
  <2>2. Behind(out \o more)
    BY <1>4, <1>5, <2>1, StillBehind DEF Inv
  <2> QED BY <1>1, <2>2
<1>11. SendNeverBlocks'
  BY <1>1, <1>2, <1>5 DEF SendNeverBlocks
<1>12. TimerInTime'
  BY <1>1, <1>2 DEF Inv, TimerInTime
<1> QED BY <1>6, <1>7, <1>8, <1>9, <1>10, <1>11, <1>12 DEF Inv

\* An input that must wait is the only thing that is new in the buffer.
LEMMA Buffered ==
  ASSUME NEW S, S \subseteq Held, IsFiniteSet(S), NEW it \in Items
  PROVE  LET b == [session |-> it.session, seq |-> it.seq, age |-> 0]
         IN  /\ b \in Held /\ Item(b) = it /\ b.session = it.session /\ b.seq = it.seq /\ b.age = 0
             /\ S \cup {b} \subseteq Held /\ IsFiniteSet(S \cup {b}) /\ {b} \subseteq Held
             /\ Cardinality(S \cup {b}) <= Cardinality(S) + 1
             /\ Cardinality(S \cup {b}) \in Nat /\ Cardinality(S) \in Nat
             /\ {Item(c) : c \in {b}} = {it}
<1> DEFINE b == [session |-> it.session, seq |-> it.seq, age |-> 0]
<1>1. b \in Held /\ b.session = it.session /\ b.seq = it.seq /\ b.age = 0
  BY QueueAssumption DEF Held, Items
<1>2. Item(b) = it
  BY <1>1, ItemFacts DEF Item
<1> HIDE DEF b
<1>3. IsFiniteSet(S \cup {b}) /\ Cardinality(S \cup {b}) <= Cardinality(S) + 1 /\ Cardinality(S) \in Nat
  BY FS_AddElement, FS_CardinalityType
<1>4. Cardinality(S \cup {b}) \in Nat
  BY <1>3, FS_CardinalityType
<1>5. {Item(c) : c \in {b}} = {it} /\ S \cup {b} \subseteq Held /\ {b} \subseteq Held
  BY <1>1, <1>2
<1> QED BY <1>1, <1>2, <1>3, <1>4, <1>5 DEF b

LEMMA QueueAheadInv ==
  ASSUME Inv, NEW it \in Items, QueueAhead(it)
  PROVE  Inv'
<1> DEFINE b == [session |-> it.session, seq |-> it.seq, age |-> 0]
<1>1. /\ Take(it) /\ Seen(it.session) /\ ~Old(it)
      /\ buffer' = buffer \cup {b}
      /\ timer' = IF timer = Off THEN Timeout ELSE timer
      /\ UNCHANGED <<sessionOrder, currentSessionId, nextSeqNum, out, stale>>
  BY DEF QueueAhead, ensureTimer
<1>2. /\ it \in toCome /\ ~closed
      /\ toCome' = toCome \ {it} /\ accepted' = accepted \cup {it} /\ taken' = taken /\ closed' = closed
      /\ Len(out) \in Nat /\ taken \in 0 .. Len(out) /\ Cap \in Nat
      /\ Cardinality(buffer) + Len(out) - taken < Cap
      /\ currentSessionId \in Sessions /\ currentSessionId # Off
  BY <1>1, TakeFacts
<1>3. /\ b \in Held /\ Item(b) = it /\ b.session = it.session /\ b.seq = it.seq /\ b.age = 0
      /\ buffer' \subseteq Held /\ IsFiniteSet(buffer') /\ {b} \subseteq Held
      /\ Cardinality(buffer') <= Cardinality(buffer) + 1
      /\ Cardinality(buffer') \in Nat /\ Cardinality(buffer) \in Nat
      /\ {Item(c) : c \in {b}} = {it}
  BY <1>1, Buffered DEF Inv, Types
<1> HIDE DEF b
<1>4. it.session = currentSessionId
  <2>1. it.session \in Sessions
    BY ItemFacts
  <2> QED BY <1>1, <1>2, <2>1 DEF Old, Inv, SessionPlace
<1>5. \A c \in buffer' : c.session = currentSessionId
  BY <1>1, <1>3, <1>4 DEF Inv, SessionPlace
<1>6. Timeout \in Nat /\ Off \notin Int
  BY QueueAssumption
<1>7. Types'
  BY <1>1, <1>2, <1>3, <1>6 DEF Inv, Types
<1>8. SessionPlace' /\ SessionsApart'
  BY <1>1, <1>5 DEF Inv, SessionPlace, SeenSessions, Seen, SessionsApart
<1>9. Places'
  <2>1. <<>> \in Seq(Entry) /\ Len(<<>>) = 0 /\ out \o <<>> = out
    BY EmptySeq, ConcatEmptySeq DEF Inv, Types
  <2>2. {<<>>[i].item : i \in 1 .. Len(<<>>)} = {} \cup {Item(c) : c \in {}}
    BY <2>1
  <2>3. accepted' = accepted \cup {} \cup {Item(c) : c \in {b}} /\ toCome' = toCome \ ({} \cup {Item(c) : c \in {b}})
    BY <1>2, <1>3
  <2>4. Moves(<<>>, {}, {b}, {}, currentSessionId)
    <3>1. out' = out \o <<>> /\ buffer' = (buffer \ {}) \cup {b}
      BY <1>1, <2>1
    <3>2. \A i, j \in 1 .. Len(<<>>) : <<>>[i].item = <<>>[j].item => i = j
      BY <2>1
    <3> QED BY <1>2, <1>3, <1>5, <2>2, <2>3, <3>1, <3>2 DEF Moves
  <2> QED BY <2>1, <2>4, PlacesAfter
<1>10. PassedOver(out, currentSessionId, nextSeqNum)' /\ Behind(out)'
  BY <1>1 DEF Inv, PassedOver, Behind, Answers
<1>11. SendNeverBlocks'
  BY <1>1, <1>2, <1>3 DEF SendNeverBlocks
<1>12. TimerInTime'
  <2> SUFFICES ASSUME NEW c \in buffer' PROVE timer' # Off /\ timer' <= Timeout - c.age
    BY DEF TimerInTime
  <2>1. CASE c \in buffer
    BY <1>1, <1>2, <2>1 DEF Inv, TimerInTime
  <2>2. CASE c = b
    <3>1. timer' \in 0 .. Timeout
      BY <1>1, <1>6 DEF Inv, Types
    <3> QED BY <1>3, <1>6, <2>2, <3>1
  <2> QED BY <1>1, <2>1, <2>2
<1> QED BY <1>7, <1>8, <1>9, <1>10, <1>11, <1>12 DEF Inv

-----------------------------------------------------------------------------
(* An input whose turn has come. *)

\* The items of run have the numbers after f, in the order in which they are sent.
Numbered(run, f) ==
  /\ run \subseteq buffer /\ run \in SUBSET Held /\ IsFiniteSet(run) /\ Cardinality(run) \in Nat
  /\ \A b \in run : b.session = currentSessionId
  /\ \A a, b \in run : a.seq = b.seq => a = b
  /\ \A i \in 1 .. Cardinality(run) : Sorted(run, i) \in run /\ Sorted(run, i).seq = f + i

\* So they do when they are what follows f without a gap.
LEMMA RunNumbers ==
  ASSUME Inv, currentSessionId \in Sessions, NEW f \in Nat, NEW run, run = {b \in buffer : Follows(b, f)}
  PROVE  Numbered(run, f)
<1>1. /\ buffer \subseteq Held /\ IsFiniteSet(buffer) /\ sessionOrder \in [Sessions -> Nat]
      /\ \A a, b \in buffer : a.seq = b.seq => a = b
      /\ \A b \in buffer : b.session = currentSessionId
  BY DEF Inv, Types, Places, SessionPlace
<1>2. run \subseteq buffer /\ run \in SUBSET Held
  BY <1>1
<1>3. IsFiniteSet(run)
  BY <1>1, <1>2, FS_Subset
<1>4. /\ Cardinality(run) \in Nat
      /\ \A i \in 1 .. Cardinality(run) :
           Sorted(run, i) \in run /\ Cardinality({c \in run : c.seq < Sorted(run, i).seq}) = i - 1
  BY <1>1, <1>2, <1>3, SortedItems
<1>5. ASSUME NEW r \in run
      PROVE  Cardinality({c \in run : c.seq < r.seq}) = r.seq - 1 - f
  <2> DEFINE under == {c \in run : c.seq < r.seq}
             numbers == f + 1 .. r.seq - 1
             g == [c \in under |-> c.seq]
  <2>0. \A c \in run : c.seq \in Nat
    BY <1>2 DEF Held
  <2>1. \A c \in run : f < c.seq
    BY DEF Follows
  <2>2. ASSUME NEW n \in numbers PROVE \E c \in under : c.seq = n
    <3>1. \A m \in f + 1 .. r.seq : \E c \in buffer : c.session = currentSessionId /\ c.seq = m
      BY DEF Follows
    <3>2. n \in Int /\ f < n /\ n < r.seq /\ n \in f + 1 .. r.seq
      BY <2>0
    <3>3. PICK c \in buffer : c.session = currentSessionId /\ c.seq = n
      BY <3>1, <3>2
    <3>4. \A m \in f + 1 .. c.seq : m \in f + 1 .. r.seq
      BY <2>0, <3>2, <3>3
    <3>5. Follows(c, f)
      BY <3>1, <3>2, <3>3, <3>4 DEF Follows
    <3> QED BY <3>2, <3>3, <3>5
  <2>3. \A c \in under : c.seq \in numbers
    BY <2>0, <2>1
  <2>4. g \in Bijection(under, numbers)
    <3>1. g \in [under -> numbers]
      BY <2>3
    <3>2. \A a, b \in under : g[a] = g[b] => a = b
      BY <1>1, <1>2
    <3>3. \A n \in numbers : \E c \in under : g[c] = n
      BY <2>2
    <3> HIDE DEF g, under, numbers
    <3> QED BY <3>1, <3>2, <3>3 DEF Bijection, Injection, Surjection, IsInjective
  <2>5. IsFiniteSet(under)
    BY <1>3, FS_Subset
  <2>6. Cardinality(numbers) = Cardinality(under)
    <3> HIDE DEF g, under, numbers
    <3>1. ExistsBijection(under, numbers)
      BY <2>4 DEF ExistsBijection
    <3> QED BY <2>5, <3>1, FS_Bijection
  <2>7. Cardinality(numbers) = r.seq - 1 - f
    <3>1. f + 1 \in Int /\ r.seq - 1 \in Int /\ f < r.seq /\ r.seq \in Int
      BY <2>0, <2>1
    <3>2. Cardinality(numbers) = IF f + 1 > r.seq - 1 THEN 0 ELSE r.seq - 1 - (f + 1) + 1
      BY <3>1, FS_Interval
    <3> QED BY <3>1, <3>2
  <2> QED BY <2>6, <2>7
<1>6. ASSUME NEW i \in 1 .. Cardinality(run) PROVE Sorted(run, i).seq = f + i
  <2>1. Sorted(run, i) \in run /\ Cardinality({c \in run : c.seq < Sorted(run, i).seq}) = i - 1
    BY <1>4
  <2>2. Sorted(run, i).seq \in Nat
    BY <1>2, <2>1 DEF Held
  <2>3. i - 1 = Sorted(run, i).seq - 1 - f
    BY <1>5, <2>1
  <2> QED BY <1>4, <2>2, <2>3
<1> QED BY <1>1, <1>2, <1>3, <1>4, <1>6 DEF Numbered

LEMMA OneThenRest ==
  ASSUME NEW one \in Seq(Entry), NEW rest \in Seq(Entry), Len(one) = 1
  PROVE  /\ one \o rest \in Seq(Entry) /\ Len(rest) \in Nat /\ Len(one \o rest) = Len(rest) + 1
         /\ (one \o rest)[1] = one[1]
         /\ \A i \in 1 .. Len(rest) + 1 : i # 1 => i - 1 \in 1 .. Len(rest) /\ (one \o rest)[i] = rest[i - 1]
<1>1. /\ one \o rest \in Seq(Entry) /\ Len(one \o rest) = 1 + Len(rest)
      /\ \A i \in 1 .. 1 + Len(rest) : (one \o rest)[i] = IF i <= 1 THEN one[i] ELSE rest[i - 1]
  <2>1. /\ one \o rest \in Seq(Entry) /\ Len(one \o rest) = Len(one) + Len(rest)
        /\ \A i \in 1 .. Len(one) + Len(rest) :
             (one \o rest)[i] = IF i <= Len(one) THEN one[i] ELSE rest[i - Len(one)]
    BY ConcatProperties
  <2> QED BY <2>1
<1>2. Len(rest) \in Nat
  BY LenProperties
<1> QED BY <1>1, <1>2

\* The sequence that is sent: the input and what follows on it.
LEMMA NextSent ==
  ASSUME Inv, currentSessionId \in Sessions, NEW it \in Items, it.session = currentSessionId,
         NEW run, Numbered(run, it.seq)
  PROVE  \E more \in Seq(Entry) :
           /\ out \o SentOne(it, "next") \o Sent(run, "next") = out \o more
           /\ Len(more) = Cardinality(run) + 1
           /\ \A i \in 1 .. Cardinality(run) + 1 :
                more[i].why = "next" /\ more[i].item = [session |-> currentSessionId, seq |-> it.seq + (i - 1)]
           /\ {more[i].item : i \in 1 .. Cardinality(run) + 1} = {it} \cup {Item(b) : b \in run}
<1> DEFINE f == it.seq
           n == Cardinality(run)
           one == SentOne(it, "next")
           rest == Sent(run, "next")
           more == one \o rest
<1>1. f \in Nat /\ it = [session |-> currentSessionId, seq |-> f]
  BY ItemFacts
<1>2. /\ run \subseteq buffer /\ run \in SUBSET Held /\ IsFiniteSet(run) /\ n \in Nat
      /\ \A b \in run : b.session = currentSessionId
      /\ \A a, b \in run : a.seq = b.seq => a = b
      /\ \A i \in 1 .. n : Sorted(run, i) \in run /\ Sorted(run, i).seq = f + i
  BY <1>1 DEF Numbered
<1>3. /\ rest \in Seq(Entry) /\ Len(rest) = n
      /\ \A i \in 1 .. n : rest[i].why = "next" /\ rest[i].item = Item(Sorted(run, i))
      /\ \A b \in run : \E i \in 1 .. n : Sorted(run, i) = b
  <2>1. "next" \in Reasons /\ sessionOrder \in [Sessions -> Nat]
    BY DEF Reasons, Inv, Types
  <2>2. /\ \A b \in run : b.session = currentSessionId
        /\ \A a, b \in run : a.seq = b.seq => a = b
        /\ run \in SUBSET Held /\ IsFiniteSet(run)
    BY <1>2
  <2> HIDE DEF rest, n
  <2>3. /\ rest \in Seq(Entry) /\ Len(rest) = n
        /\ \A i \in 1 .. n :
             /\ rest[i].why = "next" /\ rest[i].item = Item(Sorted(run, i))
             /\ Sorted(run, i) \in run /\ Item(Sorted(run, i)) \in Items
        /\ \A b \in run : \E i \in 1 .. n : Sorted(run, i) = b
    BY <2>1, <2>2, SentItems DEF rest, n
  <2> QED BY <2>3
<1>4. one \in Seq(Entry) /\ Len(one) = 1 /\ one[1].item = it /\ one[1].why = "next"
  BY SentOneItem DEF Reasons
<1> HIDE DEF one, rest, n, f
<1>5. more \in Seq(Entry) /\ Len(more) = n + 1 /\ more[1] = one[1]
  BY <1>3, <1>4, OneThenRest
<1>6. \A i \in 1 .. n + 1 : i # 1 => i - 1 \in 1 .. n /\ more[i] = rest[i - 1]
  BY <1>3, <1>4, OneThenRest
<1>7. \A i \in 1 .. n : rest[i].item = [session |-> currentSessionId, seq |-> f + i]
  BY <1>2, <1>3 DEF Item
<1>8. (out \o one) \o rest = out \o more
  <2>1. out \in Seq(Entry)
    BY DEF Inv, Types
  <2>2. rest \in Seq(Entry) /\ one \in Seq(Entry)
    BY <1>3, <1>4
  <2> QED BY <2>1, <2>2, ConcatAssociative
<1> HIDE DEF more
<1>9. ASSUME NEW i \in 1 .. n + 1
      PROVE  more[i].why = "next" /\ more[i].item = [session |-> currentSessionId, seq |-> f + (i - 1)]
  <2>1. CASE i = 1
    <3>1. f + (i - 1) = f
      BY <1>1, <2>1
    <3> QED BY <1>1, <1>4, <1>5, <2>1, <3>1
  <2>2. CASE i # 1
    BY <1>3, <1>6, <1>7, <2>2
  <2> QED BY <2>1, <2>2
<1>10. {more[i].item : i \in 1 .. n + 1} = {it} \cup {Item(b) : b \in run}
  <2>1. ASSUME NEW i \in 1 .. n + 1 PROVE more[i].item \in {it} \cup {Item(b) : b \in run}
    <3>1. CASE i = 1
      BY <1>4, <1>5, <3>1
    <3>2. CASE i # 1
      <4>1. i - 1 \in 1 .. n /\ more[i] = rest[i - 1]
        BY <1>6, <3>2
      <4>2. more[i].item = Item(Sorted(run, i - 1)) /\ Sorted(run, i - 1) \in run
        BY <1>2, <1>3, <4>1
      <4> QED BY <4>2
    <3> QED BY <3>1, <3>2
  <2>2. it \in {more[i].item : i \in 1 .. n + 1}
    <3>1. 1 \in 1 .. n + 1 /\ more[1].item = it
      BY <1>2, <1>4, <1>5
    <3> QED BY <3>1
  <2>3. ASSUME NEW b \in run PROVE Item(b) \in {more[i].item : i \in 1 .. n + 1}
    <3>1. PICK i \in 1 .. n : Sorted(run, i) = b
      BY <1>3
    <3>2. i + 1 \in 1 .. n + 1 /\ (i + 1) - 1 = i /\ i + 1 # 1
      BY <1>2
    <3>3. more[i + 1] = rest[i]
      BY <1>6, <3>2
    <3> QED BY <1>3, <3>1, <3>2, <3>3
  <2> QED BY <2>1, <2>2, <2>3
<1> QED BY <1>5, <1>8, <1>9, <1>10 DEF n, one, rest, f

LEMMA QueueNextInv ==
  ASSUME Inv, NEW it \in Items, QueueNext(it)
  PROVE  Inv'
<1> DEFINE f == it.seq
           run == {b \in buffer : Follows(b, f)}
           n == Cardinality(run)
<1>1. /\ Take(it) /\ it.session = currentSessionId /\ f = nextSeqNum
      /\ out' = out \o SentOne(it, "next") \o Sent(run, "next")
      /\ buffer' = buffer \ run /\ nextSeqNum' = nextSeqNum + 1 + n
      /\ UNCHANGED <<sessionOrder, currentSessionId, timer, stale>>
  BY DEF QueueNext
<1>2. /\ it.session \in Sessions /\ f \in 1 .. MaxSeqNum /\ it = [session |-> it.session, seq |-> f]
      /\ f \in Nat /\ MaxSeqNum \in Nat
  BY ItemFacts, QueueAssumption
<1>3. currentSessionId \in Sessions /\ currentSessionId # Off /\ Seen(currentSessionId)
  BY <1>1, <1>2, QueueAssumption DEF Inv, SessionPlace
<1>4. /\ it \in toCome /\ it \notin accepted /\ ~closed
      /\ toCome' = toCome \ {it} /\ accepted' = accepted \cup {it} /\ taken' = taken /\ closed' = closed
      /\ Len(out) \in Nat /\ Cardinality(buffer) \in Nat /\ taken \in 0 .. Len(out) /\ Cap \in Nat
      /\ Cardinality(buffer) + Len(out) - taken < Cap
  BY <1>1, TakeFacts
<1>5. /\ run \subseteq buffer /\ run \in SUBSET Held /\ IsFiniteSet(run) /\ n \in Nat
      /\ \A i \in 1 .. n : Sorted(run, i) \in run /\ Sorted(run, i).seq = f + i
  BY <1>2, <1>3, RunNumbers DEF Numbered
<1>6. PICK more \in Seq(Entry) :
        /\ out' = out \o more /\ Len(more) = n + 1
        /\ \A i \in 1 .. n + 1 :
             more[i].why = "next" /\ more[i].item = [session |-> currentSessionId, seq |-> f + (i - 1)]
        /\ {more[i].item : i \in 1 .. n + 1} = {it} \cup {Item(b) : b \in run}
  <2>1. Numbered(run, f)
    BY <1>2, <1>3, RunNumbers
  <2> HIDE DEF run
  <2> QED BY <1>1, <1>3, <2>1, NextSent
<1> HIDE DEF run
<1>6a. Len(more) = n + 1
  BY <1>6
<1>6b. \A i \in 1 .. Len(more) : more[i].item.session = currentSessionId /\ more[i].item.seq = f + (i - 1)
  <2> HIDE DEF n, f
  <2> SUFFICES ASSUME NEW i \in 1 .. Len(more)
               PROVE  more[i].item.session = currentSessionId /\ more[i].item.seq = f + (i - 1)
    OBVIOUS
  <2>1. i \in 1 .. n + 1
    BY <1>6a
  <2>2. more[i].item = [session |-> currentSessionId, seq |-> f + (i - 1)]
    BY <1>6, <2>1
  <2> QED BY <2>2
<1>7. IsFiniteSet(buffer') /\ Cardinality(buffer') = Cardinality(buffer) - n
  <2>1. IsFiniteSet(buffer) /\ buffer \cap run = run
    BY <1>5 DEF Inv, Types
  <2>2. IsFiniteSet(buffer \ run) /\ Cardinality(buffer \ run) = Cardinality(buffer) - Cardinality(buffer \cap run)
    BY <2>1, FS_Difference
  <2> QED BY <1>1, <2>1, <2>2
<1> HIDE DEF n, f
<1>8. out \in Seq(Entry)
  BY DEF Inv, Types
<1>9. /\ out' \in Seq(Entry) /\ Len(out') = Len(out) + n + 1
      /\ \A k \in 1 .. Len(out) : k \in 1 .. Len(out') /\ out'[k] = out[k]
      /\ \A k \in 1 .. n + 1 : Len(out) + k \in 1 .. Len(out') /\ out'[Len(out) + k] = more[k]
  <2>1. /\ out' \in Seq(Entry) /\ Len(out') = Len(out) + Len(more)
        /\ \A k \in 1 .. Len(out) : k \in 1 .. Len(out') /\ out'[k] = out[k]
        /\ \A k \in 1 .. Len(more) : Len(out) + k \in 1 .. Len(out') /\ out'[Len(out) + k] = more[k]
    BY <1>6, <1>8, OutGrows
  <2>2. Len(out) + Len(more) = Len(out) + n + 1
    BY <1>4, <1>5, <1>6a
  <2>3. \A k \in 1 .. n + 1 : k \in 1 .. Len(more)
    BY <1>6a
  <2>4. \A k \in 1 .. n + 1 : Len(out) + k \in 1 .. Len(out') /\ out'[Len(out) + k] = more[k]
    BY <2>1, <2>3
  <2>5. Len(out') = Len(out) + n + 1
    BY <2>1, <2>2
  <2> QED BY <2>1, <2>4, <2>5
<1>10. nextSeqNum' = f + n + 1 /\ f + n <= MaxSeqNum
  <2>1. CASE n = 0
    BY <1>1, <1>2, <2>1
  <2>2. CASE n > 0
    <3>1. n \in 1 .. n
      BY <1>5, <2>2
    <3>2. Sorted(run, n).seq = f + n /\ Sorted(run, n).seq \in 1 .. MaxSeqNum
      BY <1>5, <3>1 DEF Held
    <3> QED BY <1>1, <1>2, <1>5, <3>2
  <2> QED BY <1>5, <2>1, <2>2
<1>11. Types'
  <2>1. nextSeqNum' \in 1 .. MaxSeqNum + 1
    BY <1>2, <1>5, <1>10
  <2>2. taken' \in 0 .. Len(out')
    BY <1>4, <1>5, <1>9
  <2>3. buffer' \subseteq Held /\ toCome' \subseteq Items
    BY <1>1, <1>4 DEF Inv, Types
  <2> QED BY <1>1, <1>4, <1>7, <1>9, <2>1, <2>2, <2>3 DEF Inv, Types
<1>12. \A b \in buffer' : b.session = currentSessionId
  BY <1>1 DEF Inv, SessionPlace
<1>13. SessionPlace' /\ SessionsApart'
  <2>1. \A i \in 1 .. Len(more) : more[i].item.session = currentSessionId
    BY <1>6b
  <2>2. \A i \in 1 .. Len(more) :
           /\ Seen(more[i].item.session) /\ more[i].item.session \in Sessions
           /\ more[i].why = "old" \/ more[i].item.session = currentSessionId
    BY <1>3, <2>1
  <2> QED BY <1>1, <1>3, <1>6, <1>12, <2>2, SameSession
<1>14. Places'
  <2>1. \A i, j \in 1 .. Len(more) : more[i].item = more[j].item => i = j
    <3> SUFFICES ASSUME NEW i \in 1 .. Len(more), NEW j \in 1 .. Len(more), more[i].item = more[j].item
                 PROVE  i = j
      OBVIOUS
    <3>1. more[i].item.seq = f + (i - 1) /\ more[j].item.seq = f + (j - 1)
      BY <1>6b
    <3>2. i \in Int /\ j \in Int /\ f \in Int
      BY <1>2
    <3> QED BY <3>1, <3>2
  <2>2. Moves(more, run, {}, {it}, currentSessionId)
    <3>1. {more[i].item : i \in 1 .. Len(more)} = {it} \cup {Item(b) : b \in run}
      BY <1>6
    <3>2. /\ accepted' = accepted \cup {it} \cup {Item(b) : b \in {}}
          /\ toCome' = toCome \ ({it} \cup {Item(b) : b \in {}})
          /\ buffer' = (buffer \ run) \cup {}
      BY <1>1, <1>4
    <3> QED BY <1>4, <1>5, <1>6, <1>12, <2>1, <3>1, <3>2 DEF Moves
  <2> QED BY <2>2, PlacesAfter
<1>15. \A m \in 1 .. f - 1 : \E k \in 1 .. Len(out) : Answers(out, k, currentSessionId, m)
  BY <1>1 DEF Inv, PassedOver
<1>16. ASSUME NEW m \in Int, f <= m, m <= f + n
       PROVE  /\ m - f + 1 \in 1 .. n + 1 /\ m - f + 1 = m + 1 - f
              /\ more[m - f + 1].item = [session |-> currentSessionId, seq |-> m]
  <2>1. m - f + 1 \in 1 .. n + 1 /\ f + ((m - f + 1) - 1) = m /\ m - f + 1 = m + 1 - f
    BY <1>2, <1>5, <1>16
  <2> QED BY <1>6, <2>1
<1>17. PassedOver(out, currentSessionId, nextSeqNum)'
  <2>1. ASSUME NEW m \in 1 .. nextSeqNum' - 1
        PROVE  \E k \in 1 .. Len(out') : Answers(out', k, currentSessionId, m)
    <3>1. CASE m < f
      <4>1. PICK k \in 1 .. Len(out) : Answers(out, k, currentSessionId, m)
        BY <1>2, <1>15, <2>1, <3>1
      <4> QED BY <1>9, <4>1 DEF Answers
    <3>2. CASE m >= f
      <4>1. m \in Int /\ f <= m /\ m <= f + n
        BY <1>2, <1>5, <1>10, <2>1, <3>2
      <4>2. PICK k \in 1 .. n + 1 : more[k].item = [session |-> currentSessionId, seq |-> m]
        BY <1>16, <4>1
      <4>3. Len(out) + k \in 1 .. Len(out') /\ out'[Len(out) + k].item = [session |-> currentSessionId, seq |-> m]
        BY <1>9, <4>2
      <4> QED BY <4>3 DEF Answers
    <3>3. m \in Int /\ f \in Int
      BY <1>2, <2>1
    <3> QED BY <3>1, <3>2, <3>3
  <2> QED BY <1>1, <2>1 DEF PassedOver
<1>18. Behind(out)'
  <2>1. ASSUME NEW i \in 1 .. Len(more), NEW m \in 1 .. more[i].item.seq - 1
        PROVE  \/ \E k \in 1 .. Len(out) : Answers(out, k, more[i].item.session, m)
               \/ \E k \in 1 .. i : Answers(more, k, more[i].item.session, m)
    <3>1. more[i].item.session = currentSessionId /\ more[i].item.seq = f + (i - 1) /\ i \in 1 .. n + 1
      BY <1>6a, <1>6b
    <3>2. m \in Int /\ m >= 1 /\ m < f + (i - 1) /\ i <= n + 1 /\ i \in Int /\ f \in Int /\ n \in Int
      BY <1>2, <1>5, <2>1, <3>1
    <3>3. CASE m < f
      <4>1. m \in 1 .. f - 1
        BY <3>2, <3>3
      <4> QED BY <1>15, <3>1, <4>1
    <3>4. CASE m >= f
      <4>1. m <= f + n /\ f <= m
        BY <3>2, <3>4
      <4>2. more[m - f + 1].item = [session |-> currentSessionId, seq |-> m] /\ m - f + 1 \in 1 .. i
        BY <1>16, <3>2, <4>1
      <4> QED BY <3>1, <4>2 DEF Answers
    <3> QED BY <3>2, <3>3, <3>4
  <2>2. Behind(out \o more)
    BY <1>8, <2>1, StillBehind DEF Inv
  <2> QED BY <1>6, <2>2
<1>19. SendNeverBlocks'
  BY <1>4, <1>5, <1>7, <1>9 DEF SendNeverBlocks
<1>20. TimerInTime'
  BY <1>1, <1>4 DEF Inv, TimerInTime
<1> QED BY <1>11, <1>13, <1>14, <1>17, <1>18, <1>19, <1>20 DEF Inv

-----------------------------------------------------------------------------
(* What leaves the buffer out of turn: a new session and the timeouts. *)

\* more is what outCh gets of S, all of it for the same reason.
PassesOn(more, S, why) ==
  /\ more \in Seq(Entry) /\ Len(more) = Cardinality(S) /\ Cardinality(S) \in Nat
  /\ \A i \in 1 .. Len(more) : /\ more[i].why = why /\ more[i].item.session = currentSessionId
                               /\ currentSessionId \in Sessions /\ Seen(currentSessionId)
  /\ {more[i].item : i \in 1 .. Len(more)} = {Item(b) : b \in S}
  /\ \A i, j \in 1 .. Len(more) : more[i].item = more[j].item => i = j

LEMMA SentOfBuffer ==
  ASSUME Inv, NEW S, S \subseteq buffer, NEW why \in Reasons, Sessions # {}
  PROVE  PassesOn(Sent(S, why), S, why)
<1> DEFINE more == Sent(S, why)
           n == Cardinality(S)
<1>1. /\ buffer \subseteq Held /\ IsFiniteSet(buffer) /\ sessionOrder \in [Sessions -> Nat]
      /\ \A a, b \in buffer : a.seq = b.seq => a = b
      /\ \A b \in buffer : b.session = currentSessionId
  BY DEF Inv, Types, Places, SessionPlace
<1>2. S \in SUBSET Held /\ IsFiniteSet(S) /\ \A a, b \in S : a.seq = b.seq => a = b
  BY <1>1, FS_Subset
<1>3. PICK s \in Sessions : \A b \in S : b.session = s
  <2>1. CASE S = {}
    BY <2>1
  <2>2. CASE S # {}
    <3>1. currentSessionId \in Sessions
      BY <1>1, <2>2 DEF Held
    <3> QED BY <1>1, <3>1
  <2> QED BY <2>1, <2>2
<1>4. \A b \in S : /\ b.session = currentSessionId /\ currentSessionId \in Sessions /\ Seen(currentSessionId)
                    /\ Item(b).session = currentSessionId
  <2> SUFFICES ASSUME NEW b \in S
               PROVE  /\ b.session = currentSessionId /\ currentSessionId \in Sessions
                      /\ Seen(currentSessionId) /\ Item(b).session = currentSessionId
    OBVIOUS
  <2>1. b.session = currentSessionId /\ currentSessionId \in Sessions
    BY <1>1 DEF Held
  <2> QED BY <2>1, QueueAssumption DEF Inv, SessionPlace, Item
<1>5. /\ more \in Seq(Entry) /\ Len(more) = n /\ n \in Nat
      /\ \A i \in 1 .. n : /\ more[i].why = why /\ more[i].item = Item(Sorted(S, i))
                           /\ Sorted(S, i) \in S
      /\ \A i, j \in 1 .. n : Sorted(S, i) = Sorted(S, j) => i = j
      /\ \A b \in S : \E i \in 1 .. n : Sorted(S, i) = b
  <2> HIDE DEF more, n
  <2> QED BY <1>1, <1>2, <1>3, SentItems DEF more, n
<1> HIDE DEF more, n
<1>6. {more[i].item : i \in 1 .. n} = {Item(b) : b \in S}
  <2>1. \A i \in 1 .. n : more[i].item \in {Item(b) : b \in S}
    BY <1>5
  <2>2. \A b \in S : \E i \in 1 .. n : more[i].item = Item(b)
    BY <1>5
  <2> QED BY <2>1, <2>2
<1>7. ASSUME NEW i \in 1 .. n, NEW j \in 1 .. n, more[i].item = more[j].item PROVE i = j
  <2>1. Item(Sorted(S, i)) = Item(Sorted(S, j)) /\ Sorted(S, i) \in S /\ Sorted(S, j) \in S
    BY <1>5, <1>7
  <2>2. Sorted(S, i).seq = Sorted(S, j).seq
    BY <2>1 DEF Item
  <2> QED BY <1>2, <1>5, <2>1, <2>2
<1>8. \A i \in 1 .. n : more[i].why = why /\ more[i].item.session = currentSessionId
                        /\ currentSessionId \in Sessions /\ Seen(currentSessionId)
  BY <1>4, <1>5
<1> QED BY <1>5, <1>6, <1>7, <1>8 DEF PassesOn, more, n

\* Every item that is due leaves, and the turn of the first that is missing
\* behind them comes.
LEMMA NextAfterDue ==
  ASSUME Inv, NEW due, due \subseteq buffer,
         NEW next, next = NextAfter({b.seq : b \in {d \in due : d.session = currentSessionId}})
  PROVE  /\ next \in 1 .. MaxSeqNum + 1
         /\ next = nextSeqNum \/ \E d \in due : next = d.seq + 1
<1> DEFINE seqs == {b.seq : b \in {d \in due : d.session = currentSessionId}}
           all == {nextSeqNum} \cup {n + 1 : n \in seqs}
<1>1. nextSeqNum \in 1 .. MaxSeqNum + 1 /\ MaxSeqNum \in Nat /\ \A d \in due : d.seq \in 1 .. MaxSeqNum
  BY QueueAssumption DEF Inv, Types, Held
<1>2. \A m \in all : m \in 1 .. MaxSeqNum + 1 /\ (m = nextSeqNum \/ \E d \in due : m = d.seq + 1)
  BY <1>1
<1>3. all # {} /\ all \in SUBSET Int /\ IsFiniteSet(all)
  <2>1. all \in SUBSET Nat /\ MaxSeqNum + 1 \in Nat /\ \A m \in all : m <= MaxSeqNum + 1
    BY <1>1, <1>2
  <2> HIDE DEF all
  <2>2. IsFiniteSet(all)
    BY <2>1, FS_BoundedSetOfNaturals
  <2> QED BY <2>1, <2>2 DEF all
<1>4. next = Largest(all)
  BY DEF NextAfter
<1> HIDE DEF all
<1> QED BY <1>2, <1>3, <1>4, LargestProperty

LEMMA RearmInTime ==
  ASSUME NEW S, S \subseteq Held, IsFiniteSet(S)
  PROVE  /\ Rearm(S) \in {Off} \cup 0 .. Timeout
         /\ \A b \in S : Rearm(S) # Off /\ Rearm(S) <= Timeout - b.age
<1> DEFINE ages == {b.age : b \in S}
<1>0. Timeout \in Nat /\ Off \notin Int
  BY QueueAssumption
<1>1. CASE S = {}
  BY <1>1 DEF Rearm
<1>2. CASE S # {}
  <2>1. \A m \in ages : m \in 0 .. Timeout
    BY DEF Held
  <2>2. ages # {} /\ ages \in SUBSET Nat /\ \A m \in ages : m <= Timeout
    BY <1>0, <1>2, <2>1
  <2>3. Rearm(S) = Timeout - Largest(ages) /\ \A b \in S : b.age \in ages
    BY <1>2 DEF Rearm
  <2> HIDE DEF ages
  <2>4. IsFiniteSet(ages) /\ ages \in SUBSET Int
    BY <1>0, <2>2, FS_BoundedSetOfNaturals
  <2>5. Largest(ages) \in ages /\ \A m \in ages : m <= Largest(ages)
    BY <2>2, <2>4, LargestProperty
  <2>6. Largest(ages) \in 0 .. Timeout
    BY <2>1, <2>5
  <2>7. Rearm(S) \in 0 .. Timeout /\ Rearm(S) # Off
    BY <1>0, <2>3, <2>6
  <2>8. \A b \in S : Rearm(S) <= Timeout - b.age
    BY <1>0, <2>1, <2>3, <2>5, <2>6
  <2> QED BY <2>7, <2>8
<1> QED BY <1>1, <1>2

LEMMA OnTimeoutInv ==
  ASSUME Inv, onTimeout, stale' \in [0 .. Timeout -> Nat]
  PROVE  Inv'
<1> DEFINE more == Sent(Due, "timeout")
<1>1. /\ ~closed /\ out' = out \o more
      /\ nextSeqNum' = NextAfter({b.seq : b \in {d \in Due : d.session = currentSessionId}})
      /\ buffer' = buffer \ Due /\ timer' = Rearm(buffer \ Due)
      /\ UNCHANGED <<sessionOrder, currentSessionId, taken, closed, toCome, accepted>>
  BY DEF onTimeout, Remaining
<1>2. Due \subseteq buffer
  BY DEF Due
<1>3. CASE buffer = {}
  <2>1. Due = {} /\ buffer' = buffer
    BY <1>1, <1>2, <1>3
  <2>2. Cardinality({}) = 0
    BY FS_EmptySet
  <2>3. more = <<>>
    BY <2>1, <2>2 DEF Sent
  <2>4. out' = out
    BY <1>1, <2>3, ConcatEmptySeq DEF Inv, Types
  <2>5. nextSeqNum' = nextSeqNum
    BY <1>1, <1>2, <2>1, NextAfterDue
  <2>6. timer' = Off
    BY <1>1, <1>3 DEF Rearm
  <2>7. Types' /\ SendNeverBlocks' /\ TimerInTime'
    BY <1>1, <1>3, <2>1, <2>4, <2>5, <2>6 DEF Inv, Types, SendNeverBlocks, TimerInTime
  <2> QED BY <1>1, <2>1, <2>4, <2>5, <2>7, SamePlaces DEF Inv
<1>4. CASE buffer # {}
  <2>0. /\ buffer \subseteq Held /\ IsFiniteSet(buffer) /\ out \in Seq(Entry) /\ Cardinality(buffer) \in Nat
        /\ currentSessionId \in Sessions /\ taken \in 0 .. Len(out)
    BY <1>4, FS_CardinalityType DEF Inv, Types, SessionPlace, Held
  <2>1. PassesOn(more, Due, "timeout")
    BY <1>2, <2>0, SentOfBuffer DEF Reasons
  <2>2. more \in Seq(Entry) /\ Len(more) = Cardinality(Due) /\ Cardinality(Due) \in Nat
    BY <2>1 DEF PassesOn
  <2>3. /\ nextSeqNum' \in 1 .. MaxSeqNum + 1
        /\ nextSeqNum' = nextSeqNum \/ \E d \in Due : nextSeqNum' = d.seq + 1
    BY <1>1, <1>2, NextAfterDue
  <2> HIDE DEF more
  <2>4. /\ out' \in Seq(Entry) /\ Len(out') = Len(out) + Len(more) /\ Len(out) \in Nat
        /\ \A k \in 1 .. Len(out) : k \in 1 .. Len(out') /\ out'[k] = out[k]
        /\ \A k \in 1 .. Len(more) : Len(out) + k \in 1 .. Len(out') /\ out'[Len(out) + k] = more[k]
    BY <1>1, <2>0, <2>2, OutGrows
  <2>5. IsFiniteSet(buffer') /\ Cardinality(buffer') = Cardinality(buffer) - Cardinality(Due) /\ buffer' \subseteq Held
    <3>1. buffer \cap Due = Due
      BY <1>2
    <3>2. IsFiniteSet(buffer \ Due) /\ Cardinality(buffer \ Due) = Cardinality(buffer) - Cardinality(buffer \cap Due)
      BY <2>0, FS_Difference
    <3> QED BY <1>1, <2>0, <3>1, <3>2
  <2>6. timer' \in {Off} \cup 0 .. Timeout /\ \A b \in buffer' : timer' # Off /\ timer' <= Timeout - b.age
    BY <1>1, <2>5, RearmInTime
  <2>7. Types'
    <3>1. taken' \in 0 .. Len(out')
      BY <1>1, <2>0, <2>2, <2>4
    <3> QED BY <1>1, <2>3, <2>4, <2>5, <2>6, <3>1 DEF Inv, Types
  <2>8. \A b \in buffer' : b.session = currentSessionId
    BY <1>1 DEF Inv, SessionPlace
  <2>9. SessionPlace' /\ SessionsApart'
    <3>1. \A i \in 1 .. Len(more) :
            /\ Seen(more[i].item.session) /\ more[i].item.session \in Sessions
            /\ more[i].why = "old" \/ more[i].item.session = currentSessionId
      BY <2>1 DEF PassesOn
    <3> QED BY <1>1, <2>2, <2>8, <3>1, SameSession
  <2>10. Places'
    <3>1. Moves(more, Due, {}, {}, currentSessionId)
      <4>1. /\ accepted' = accepted \cup {} \cup {Item(b) : b \in {}}
            /\ toCome' = toCome \ ({} \cup {Item(b) : b \in {}})
            /\ buffer' = (buffer \ Due) \cup {}
        BY <1>1
      <4> QED BY <1>1, <1>2, <2>1, <2>8, <4>1 DEF Moves, PassesOn
    <3> QED BY <2>2, <3>1, PlacesAfter
  <2>11. PassedOver(out, currentSessionId, nextSeqNum)'
    <3>1. ASSUME NEW m \in 1 .. nextSeqNum' - 1
          PROVE  \E k \in 1 .. Len(out') : Answers(out', k, currentSessionId, m)
      <4>1. CASE m < nextSeqNum
        <5>1. m \in 1 .. nextSeqNum - 1
          BY <2>3, <3>1, <4>1 DEF Inv, Types
        <5>2. PICK k \in 1 .. Len(out) : Answers(out, k, currentSessionId, m)
          BY <5>1 DEF Inv, PassedOver
        <5> QED BY <2>4, <5>2 DEF Answers
      <4>2. CASE ~(m < nextSeqNum)
        <5>0. nextSeqNum \in Int
          BY DEF Inv, Types
        <5>1. nextSeqNum \in Int /\ nextSeqNum' \in Int /\ m \in Int /\ m < nextSeqNum'
          <6>1. nextSeqNum' \in Int
            BY <2>3, QueueAssumption
          <6>2. m \in 1 .. nextSeqNum' - 1
            BY <3>1
          <6>3. \A p \in Int : \A q \in 1 .. p - 1 : q \in Int /\ q < p
            OBVIOUS
          <6>4. m \in Int /\ m < nextSeqNum'
            BY <6>1, <6>2, <6>3
          <6> QED BY <5>0, <6>1, <6>4
        <5>2. PICK d \in Due : nextSeqNum' = d.seq + 1
          BY <2>3, <4>2, <5>1
        <5>3. Item(d) \in {more[i].item : i \in 1 .. Len(more)}
          BY <2>1 DEF PassesOn
        <5>4. PICK i \in 1 .. Len(more) : more[i].item = Item(d)
          BY <5>3
        <5>5. /\ Len(out) + i \in 1 .. Len(out') /\ out'[Len(out) + i].item = Item(d)
              /\ out'[Len(out) + i].why = "timeout"
          BY <2>1, <2>4, <5>4 DEF PassesOn
        <5>6. d.session = currentSessionId /\ d.seq \in Nat
          BY <1>2, <2>0 DEF Inv, SessionPlace, Held
        <5>7. Item(d) = [session |-> currentSessionId, seq |-> d.seq]
          BY <5>6 DEF Item
        <5>8. m = d.seq \/ d.seq > m
          BY <5>1, <5>2, <5>6
        <5> QED BY <5>5, <5>7, <5>8 DEF Answers
      <4> QED BY <4>1, <4>2
    <3> QED BY <1>1, <3>1 DEF PassedOver
  <2>12. Behind(out)'
    <3>1. \A i \in 1 .. Len(more) : more[i].why = "timeout"
      BY <2>1 DEF PassesOn
    <3>2. Behind(out \o more)
      BY <2>0, <2>2, <3>1, StillBehind DEF Inv
    <3> QED BY <1>1, <3>2
  <2>13. SendNeverBlocks'
    BY <1>1, <2>0, <2>2, <2>4, <2>5 DEF Inv, SendNeverBlocks
  <2>14. TimerInTime'
    BY <2>6 DEF TimerInTime
  <2> QED BY <2>7, <2>9, <2>10, <2>11, <2>12, <2>13, <2>14 DEF Inv
<1> QED BY <1>3, <1>4

\* A session begins: it is the one first seen last, and what it finds in the
\* buffer is sent before anything of it.
LEMMA NewSession ==
  ASSUME Inv, NEW s \in Sessions, ~Seen(s),
         sessionOrder' = [sessionOrder EXCEPT ![s] = 1 + Cardinality({x \in Sessions : Seen(x)})],
         currentSessionId' = s,
         NEW more \in Seq(Entry), out' = out \o more,
         \A b \in buffer' : b.session = s,
         \A i \in 1 .. Len(more) :
           \/ more[i].item.session = s /\ i = Len(more)
           \/ /\ more[i].item.session = currentSessionId
              /\ currentSessionId \in Sessions /\ Seen(currentSessionId)
  PROVE  SessionPlace' /\ SessionsApart' /\ sessionOrder' \in [Sessions -> Nat]
<1> DEFINE n == Cardinality(SeenSessions)
<1>1. /\ sessionOrder \in [Sessions -> Nat] /\ out \in Seq(Entry)
      /\ IsFiniteSet(SeenSessions) /\ n \in Nat /\ s # Off
      /\ \A x \in Sessions : sessionOrder[x] <= n
  BY FS_CardinalityType, QueueAssumption DEF Inv, Types, SessionPlace
<1>2. sessionOrder' = [sessionOrder EXCEPT ![s] = 1 + n]
  BY DEF SeenSessions
<1>3. SeenSessions' = SeenSessions \cup {s} /\ s \notin SeenSessions
  <2>1. \A x \in Sessions : sessionOrder'[x] > 0 <=> (x = s \/ sessionOrder[x] > 0)
    <3> HIDE DEF n
    <3> QED BY <1>1, <1>2
  <2>2. SeenSessions' = {x \in Sessions : sessionOrder'[x] > 0} /\ SeenSessions = {x \in Sessions : sessionOrder[x] > 0}
    BY DEF SeenSessions, Seen
  <2>3. ~(sessionOrder[s] > 0)
    BY DEF Seen
  <2> QED BY <2>1, <2>2, <2>3
<1>4. IsFiniteSet(SeenSessions') /\ Cardinality(SeenSessions') = n + 1
  <2>1. IsFiniteSet(SeenSessions \cup {s}) /\ Cardinality(SeenSessions \cup {s}) = Cardinality(SeenSessions) + 1
    BY <1>1, <1>3, FS_AddElement
  <2> QED BY <1>3, <2>1
<1> HIDE DEF n
<1>5. /\ \A x \in Sessions : x # s => sessionOrder'[x] = sessionOrder[x] /\ sessionOrder'[x] < sessionOrder'[s]
      /\ \A x \in Sessions : sessionOrder'[x] <= n + 1
      /\ sessionOrder'[s] = n + 1 /\ sessionOrder'[s] > 0 /\ sessionOrder' \in [Sessions -> Nat]
  <2>1. n + 1 \in Nat /\ n + 1 > 0 /\ sessionOrder' = [sessionOrder EXCEPT ![s] = n + 1]
    <3>1. n + 1 \in Nat /\ n + 1 > 0 /\ n + 1 = 1 + n
      BY <1>1
    <3> QED BY <1>2, <3>1
  <2>2. sessionOrder' \in [Sessions -> Nat] /\ sessionOrder'[s] = n + 1
    BY <1>1, <2>1
  <2>3. ASSUME NEW x \in Sessions, x # s
        PROVE  sessionOrder'[x] = sessionOrder[x] /\ sessionOrder'[x] < n + 1
    <3>1. sessionOrder'[x] = sessionOrder[x]
      BY <1>1, <2>1, <2>3
    <3>2. sessionOrder[x] \in Nat /\ sessionOrder[x] <= n
      BY <1>1
    <3> QED BY <1>1, <3>1, <3>2
  <2>4. \A x \in Sessions : sessionOrder'[x] <= n + 1
    <3>1. \A x \in Sessions : sessionOrder'[x] \in Nat
      BY <2>2
    <3> QED BY <2>1, <2>2, <2>3, <3>1
  <2> QED BY <2>1, <2>2, <2>3, <2>4
<1>6. /\ \A i \in 1 .. Len(out) : i \in 1 .. Len(out') /\ out'[i] = out[i]
      /\ \A i \in 1 .. Len(more) : Len(out) + i \in 1 .. Len(out') /\ out'[Len(out) + i] = more[i]
      /\ \A i \in 1 .. Len(out') : i \in 1 .. Len(out) \/ \E j \in 1 .. Len(more) : i = Len(out) + j
      /\ Len(out) \in Nat /\ Len(more) \in Nat
  BY <1>1, OutGrows
<1>7. \A i \in 1 .. Len(out) : out[i].item.session \in Sessions /\ Seen(out[i].item.session)
                               /\ out[i].item.session # s
  <2>1. \A i \in 1 .. Len(out) : out[i] \in Entry
    BY <1>1, ElementOfSeq
  <2> QED BY <2>1 DEF Inv, SessionPlace, Entry, Items
<1>8. \A i \in 1 .. Len(out') :
        /\ out'[i].item.session \in Sessions
        /\ sessionOrder'[out'[i].item.session] > 0
  <2>1. \A x \in Sessions : Seen(x) => sessionOrder'[x] > 0
    BY <1>1, <1>5 DEF Seen
  <2>2. \A i \in 1 .. Len(more) :
          more[i].item.session \in Sessions /\ sessionOrder'[more[i].item.session] > 0
    BY <1>5, <2>1
  <2>3. \A i \in 1 .. Len(out) :
          out[i].item.session \in Sessions /\ sessionOrder'[out[i].item.session] > 0
    BY <1>7, <2>1
  <2> SUFFICES ASSUME NEW i \in 1 .. Len(out')
               PROVE  out'[i].item.session \in Sessions /\ sessionOrder'[out'[i].item.session] > 0
    OBVIOUS
  <2>4. CASE i \in 1 .. Len(out)
    BY <1>6, <2>3, <2>4
  <2>5. CASE \E j \in 1 .. Len(more) : i = Len(out) + j
    BY <1>6, <2>2, <2>5
  <2> QED BY <1>6, <2>4, <2>5
<1>9. SessionPlace'
  <2>1. /\ s # Off /\ sessionOrder'[s] > 0
        /\ \A x \in Sessions \ {s} : sessionOrder'[x] < sessionOrder'[s]
        /\ \A x \in Sessions : sessionOrder'[x] <= Cardinality(SeenSessions')
    BY <1>1, <1>4, <1>5
  <2> QED BY <1>4, <1>8, <2>1 DEF SessionPlace, Seen
<1>10. ASSUME NEW j \in 1 .. Len(out'), NEW i \in 1 .. j - 1,
              sessionOrder'[out'[i].item.session] > sessionOrder'[out'[j].item.session]
       PROVE  out'[j].why = "old"
  <2>1. i \in 1 .. Len(out') /\ i < j /\ out'[i].item.session \in Sessions
    <3>1. i \in 1 .. Len(out') /\ i < j
      OBVIOUS
    <3> QED BY <1>8, <3>1
  <2>2. CASE j \in 1 .. Len(out)
    <3>1. i \in 1 .. Len(out) /\ out'[i] = out[i] /\ out'[j] = out[j]
      BY <1>6, <2>1, <2>2
    <3>2. sessionOrder[out[i].item.session] > sessionOrder[out[j].item.session]
      BY <1>5, <1>7, <1>10, <2>2, <3>1
    <3> QED BY <2>2, <3>1, <3>2 DEF Inv, SessionsApart
  <2>3. CASE \E k \in 1 .. Len(more) : j = Len(out) + k
    <3>1. PICK k \in 1 .. Len(more) : j = Len(out) + k
      BY <2>3
    <3>2. out'[j] = more[k]
      BY <1>6, <3>1
    <3>3. more[k].item.session # s
      <4>1. sessionOrder'[out'[i].item.session] \in Nat /\ sessionOrder'[out'[i].item.session] <= n + 1
        BY <1>5, <2>1
      <4>2. sessionOrder'[more[k].item.session] < sessionOrder'[out'[i].item.session]
        BY <1>10, <3>2
      <4> SUFFICES ASSUME more[k].item.session = s PROVE FALSE
        OBVIOUS
      <4>3. n + 1 < sessionOrder'[out'[i].item.session]
        BY <1>5, <4>2
      <4>4. \A a \in Nat : a <= n + 1 => ~(n + 1 < a)
        <5>1. n \in Nat
          BY <1>1
        <5> QED BY <5>1
      <4> QED BY <4>1, <4>3, <4>4
    <3>4. /\ more[k].item.session = currentSessionId /\ currentSessionId \in Sessions /\ Seen(currentSessionId)
          /\ currentSessionId # s
      BY <3>1, <3>3
    <3>5. out'[i].item.session # s
      <4>1. CASE i \in 1 .. Len(out)
        BY <1>6, <1>7, <4>1
      <4>2. CASE \E l \in 1 .. Len(more) : i = Len(out) + l
        <5>1. PICK l \in 1 .. Len(more) : i = Len(out) + l
          BY <4>2
        <5>2. l # Len(more) /\ out'[i] = more[l]
          BY <1>6, <2>1, <3>1, <5>1
        <5> QED BY <3>4, <5>1, <5>2
      <4> QED BY <1>6, <2>1, <4>1, <4>2
    <3>6. sessionOrder[out'[i].item.session] <= sessionOrder[currentSessionId]
      <4>1. /\ currentSessionId # Off
            /\ \A x \in Sessions \ {currentSessionId} : sessionOrder[x] < sessionOrder[currentSessionId]
        BY <3>4, QueueAssumption DEF Inv, SessionPlace
      <4>2. CASE out'[i].item.session = currentSessionId
        <5>1. sessionOrder[currentSessionId] \in Nat
          BY <1>1, <3>4
        <5> QED BY <4>2, <5>1
      <4>3. CASE out'[i].item.session # currentSessionId
        <5>1. out'[i].item.session \in Sessions \ {currentSessionId}
          BY <2>1, <4>3
        <5>2. \A x \in Sessions : sessionOrder[x] \in Nat
          BY <1>1
        <5>3. sessionOrder[out'[i].item.session] < sessionOrder[currentSessionId]
          BY <4>1, <5>1
        <5>4. sessionOrder[out'[i].item.session] \in Nat /\ sessionOrder[currentSessionId] \in Nat
          BY <2>1, <3>4, <5>2, Zenon
        <5>5. \A a, b \in Nat : a < b => a <= b
          OBVIOUS
        <5> QED BY <5>3, <5>4, <5>5, Zenon
      <4> QED BY <4>2, <4>3
    <3>7. /\ sessionOrder'[out'[i].item.session] = sessionOrder[out'[i].item.session]
          /\ sessionOrder'[out'[j].item.session] = sessionOrder[currentSessionId]
      BY <1>5, <2>1, <3>2, <3>4, <3>5
    <3>8. sessionOrder[out'[i].item.session] \in Nat /\ sessionOrder[currentSessionId] \in Nat
      BY <1>1, <2>1, <3>4
    <3>9. sessionOrder[out'[i].item.session] > sessionOrder[currentSessionId]
      BY <1>10, <3>7
    <3>10. \A a, b \in Nat : ~(a <= b /\ a > b)
      OBVIOUS
    <3> QED BY <3>6, <3>8, <3>9, <3>10, Zenon
  <2> QED BY <1>6, <2>2, <2>3
<1>11. SessionsApart'
  BY <1>10 DEF SessionsApart
<1> QED BY <1>5, <1>9, <1>11


\* What was held, and the input that begins the session behind it.
LEMMA HeldThenOne ==
  ASSUME Inv, NEW it \in Items, \A b \in buffer : Item(b) # it
  PROVE  \E more \in Seq(Entry) :
           /\ out \o Sent(buffer, "session") \o SentOne(it, "next") = out \o more
           /\ Len(more) = Cardinality(buffer) + 1
           /\ \A i \in 1 .. Cardinality(buffer) :
                /\ more[i].why = "session" /\ more[i].item.session = currentSessionId
                /\ currentSessionId \in Sessions /\ Seen(currentSessionId)
           /\ more[Cardinality(buffer) + 1].item = it
           /\ {more[i].item : i \in 1 .. Len(more)} = {it} \cup {Item(b) : b \in buffer}
           /\ \A i, j \in 1 .. Len(more) : more[i].item = more[j].item => i = j
<1> DEFINE n == Cardinality(buffer)
           rest == Sent(buffer, "session")
           one == SentOne(it, "next")
           more == rest \o one
<1>1. PassesOn(rest, buffer, "session")
  BY SentOfBuffer, ItemFacts DEF Reasons
<1>2. /\ rest \in Seq(Entry) /\ Len(rest) = n /\ n \in Nat
      /\ \A i \in 1 .. n : /\ rest[i].why = "session" /\ rest[i].item.session = currentSessionId
                           /\ currentSessionId \in Sessions /\ Seen(currentSessionId)
      /\ {rest[i].item : i \in 1 .. n} = {Item(b) : b \in buffer}
      /\ \A i, j \in 1 .. n : rest[i].item = rest[j].item => i = j
  <2> HIDE DEF rest
  <2> QED BY <1>1 DEF PassesOn
<1>3. one \in Seq(Entry) /\ Len(one) = 1 /\ one[1].item = it /\ one[1].why = "next"
  BY SentOneItem DEF Reasons
<1> HIDE DEF rest, one, n
<1>4. /\ more \in Seq(Entry) /\ Len(more) = n + 1
      /\ \A i \in 1 .. n : more[i] = rest[i]
      /\ more[n + 1] = one[1]
  <2>1. /\ rest \o one \in Seq(Entry) /\ Len(rest \o one) = Len(rest) + Len(one)
        /\ \A i \in 1 .. Len(rest) : (rest \o one)[i] = rest[i]
        /\ \A i \in 1 .. Len(one) : (rest \o one)[Len(rest) + i] = one[i]
    <3>1. rest \in Seq(Entry) /\ one \in Seq(Entry)
      BY <1>2, <1>3
    <3> QED BY <3>1, OutGrows
  <2>2. 1 \in 1 .. Len(one)
    BY <1>3
  <2> QED BY <1>2, <1>3, <2>1, <2>2
<1>5. (out \o rest) \o one = out \o more
  <2>1. out \in Seq(Entry)
    BY DEF Inv, Types
  <2> QED BY <1>2, <1>3, <2>1, ConcatAssociative
<1> HIDE DEF more
<1>6. \A i \in 1 .. n + 1 : i \in 1 .. n \/ i = n + 1
  BY <1>2
<1>7. \A i \in 1 .. n : more[i].item \in {Item(b) : b \in buffer} /\ more[i].item # it
  <2> SUFFICES ASSUME NEW i \in 1 .. n
               PROVE  more[i].item \in {Item(b) : b \in buffer} /\ more[i].item # it
    OBVIOUS
  <2>1. rest[i].item \in {rest[j].item : j \in 1 .. n}
    OBVIOUS
  <2>2. rest[i].item \in {Item(b) : b \in buffer}
    BY <1>2, <2>1
  <2> QED BY <1>4, <2>2
<1>8. more[n + 1].item = it /\ n + 1 \in 1 .. n + 1 /\ \A i \in 1 .. n : i \in 1 .. n + 1
  BY <1>2, <1>3, <1>4
<1>9. {more[i].item : i \in 1 .. n + 1} = {it} \cup {Item(b) : b \in buffer}
  <2>1. \A i \in 1 .. n + 1 : more[i].item \in {it} \cup {Item(b) : b \in buffer}
    BY <1>6, <1>7, <1>8
  <2>2. \A b \in buffer : \E i \in 1 .. n + 1 : more[i].item = Item(b)
    <3> SUFFICES ASSUME NEW b \in buffer PROVE \E i \in 1 .. n + 1 : more[i].item = Item(b)
      OBVIOUS
    <3>1. Item(b) \in {rest[i].item : i \in 1 .. n}
      BY <1>2
    <3>2. PICK i \in 1 .. n : rest[i].item = Item(b)
      BY <3>1
    <3> QED BY <1>4, <1>8, <3>2
  <2> QED BY <1>8, <2>1, <2>2
<1>10. \A i, j \in 1 .. n + 1 : more[i].item = more[j].item => i = j
  <2> SUFFICES ASSUME NEW i \in 1 .. n + 1, NEW j \in 1 .. n + 1, more[i].item = more[j].item PROVE i = j
    OBVIOUS
  <2>1. CASE i \in 1 .. n /\ j \in 1 .. n
    BY <1>2, <1>4, <2>1
  <2> QED BY <1>6, <1>7, <1>8, <2>1
<1>11. \A i \in 1 .. n :
         /\ more[i].why = "session" /\ more[i].item.session = currentSessionId
         /\ currentSessionId \in Sessions /\ Seen(currentSessionId)
  BY <1>2, <1>4
<1>12. Len(more) = n + 1 /\ more \in Seq(Entry) /\ more[n + 1].item = it
  BY <1>4, <1>8
<1>13. /\ {more[i].item : i \in 1 .. Len(more)} = {it} \cup {Item(b) : b \in buffer}
       /\ \A i, j \in 1 .. Len(more) : more[i].item = more[j].item => i = j
  BY <1>9, <1>10, <1>12
<1> QED BY <1>5, <1>11, <1>12, <1>13 DEF n, rest, one

LEMMA QueueNewSessionInv ==
  ASSUME Inv, NEW it \in Items, QueueNewSession(it)
  PROVE  Inv'
<1> DEFINE left == IF buffer = {} THEN timer ELSE Off
           b == [session |-> it.session, seq |-> it.seq, age |-> 0]
<1>0. MaxSeqNum \in Nat /\ Timeout \in Nat /\ Off \notin Int
  BY QueueAssumption
<1>1. /\ Take(it) /\ ~Seen(it.session)
      /\ sessionOrder' = [sessionOrder EXCEPT ![it.session] = 1 + Cardinality({s \in Sessions : Seen(s)})]
      /\ currentSessionId' = it.session
      /\ IF buffer = {} THEN UNCHANGED stale ELSE StopTimer
      /\ \/ /\ it.seq = 1 /\ out' = out \o Sent(buffer, "session") \o SentOne(it, "next")
            /\ nextSeqNum' = 2 /\ buffer' = buffer \ buffer /\ timer' = left
         \/ /\ it.seq # 1 /\ out' = out \o Sent(buffer, "session")
            /\ nextSeqNum' = 1 /\ buffer' = (buffer \ buffer) \cup {b}
            /\ timer' = IF left = Off THEN Timeout ELSE left
  BY DEF QueueNewSession, Flushed, ensureTimer
<1>2. /\ it \in toCome /\ it \notin accepted /\ ~closed
      /\ toCome' = toCome \ {it} /\ accepted' = accepted \cup {it} /\ taken' = taken /\ closed' = closed
      /\ Len(out) \in Nat /\ Cardinality(buffer) \in Nat /\ taken \in 0 .. Len(out) /\ Cap \in Nat
      /\ Cardinality(buffer) + Len(out) - taken < Cap
  BY <1>1, TakeFacts
<1>3. it.session \in Sessions /\ it.seq \in 1 .. MaxSeqNum /\ out \in Seq(Entry)
  BY ItemFacts DEF Inv, Types
<1>4. stale' \in [0 .. Timeout -> Nat]
  <2>1. stale \in [0 .. Timeout -> Nat] /\ 0 \in 0 .. Timeout
    BY <1>0 DEF Inv, Types
  <2>2. [stale EXCEPT ![0] = @ + 1] \in [0 .. Timeout -> Nat]
    BY <2>1
  <2> QED BY <1>1, <2>1, <2>2 DEF StopTimer
<1>5. left \in {Off} \cup 0 .. Timeout
  BY DEF Inv, Types
<1> HIDE DEF left, b
<1>6. CASE it.seq = 1
  <2>1. /\ out' = out \o Sent(buffer, "session") \o SentOne(it, "next")
        /\ nextSeqNum' = 2 /\ buffer' = {} /\ timer' = left
    BY <1>1, <1>6
  <2>2. \A c \in buffer : Item(c) # it
    BY <1>2 DEF Inv, Places
  <2>3. PICK more \in Seq(Entry) :
           /\ out' = out \o more
           /\ Len(more) = Cardinality(buffer) + 1
           /\ \A i \in 1 .. Cardinality(buffer) :
                /\ more[i].why = "session" /\ more[i].item.session = currentSessionId
                /\ currentSessionId \in Sessions /\ Seen(currentSessionId)
           /\ more[Cardinality(buffer) + 1].item = it
           /\ {more[i].item : i \in 1 .. Len(more)} = {it} \cup {Item(c) : c \in buffer}
           /\ \A i, j \in 1 .. Len(more) : more[i].item = more[j].item => i = j
    BY <2>1, <2>2, HeldThenOne
  <2>4. \A i \in 1 .. Len(more) : i \in 1 .. Cardinality(buffer) \/ i = Cardinality(buffer) + 1
    BY <1>2, <2>3
  <2>5. SessionPlace' /\ SessionsApart' /\ sessionOrder' \in [Sessions -> Nat]
    <3>1. \A i \in 1 .. Len(more) :
            \/ more[i].item.session = it.session /\ i = Len(more)
            \/ /\ more[i].item.session = currentSessionId
               /\ currentSessionId \in Sessions /\ Seen(currentSessionId)
      BY <2>3, <2>4
    <3> QED BY <1>1, <1>3, <2>1, <2>3, <3>1, NewSession
  <2>6. Places'
    <3>1. Moves(more, buffer, {}, {it}, it.session)
      <4>1. /\ accepted' = accepted \cup {it} \cup {Item(c) : c \in {}}
            /\ toCome' = toCome \ ({it} \cup {Item(c) : c \in {}})
            /\ buffer' = (buffer \ buffer) \cup {}
        BY <1>2, <2>1
      <4> QED BY <1>2, <2>1, <2>3, <4>1 DEF Moves
    <3> QED BY <3>1, PlacesAfter
  <2>7. /\ out' \in Seq(Entry) /\ Len(out') = Len(out) + Cardinality(buffer) + 1
        /\ Len(out') \in 1 .. Len(out') /\ out'[Len(out')].item = it
    <3>1. /\ out' \in Seq(Entry) /\ Len(out') = Len(out) + Len(more)
          /\ \A k \in 1 .. Len(more) : Len(out) + k \in 1 .. Len(out') /\ out'[Len(out) + k] = more[k]
      BY <1>3, <2>3, OutGrows
    <3>2. Cardinality(buffer) + 1 \in 1 .. Len(more) /\ Len(more) = Cardinality(buffer) + 1
      BY <1>2, <2>3
    <3>3. Len(out') = Len(out) + Cardinality(buffer) + 1 /\ Len(out') = Len(out) + (Cardinality(buffer) + 1)
      BY <1>2, <3>1, <3>2
    <3> QED BY <2>3, <3>1, <3>2, <3>3
  <2>8. PassedOver(out, currentSessionId, nextSeqNum)'
    <3> SUFFICES ASSUME NEW m \in 1 .. nextSeqNum' - 1
                 PROVE  \E k \in 1 .. Len(out') : Answers(out', k, currentSessionId', m)
      BY DEF PassedOver
    <3>1. m = 1
      BY <2>1
    <3>2. it = [session |-> it.session, seq |-> 1]
      BY <1>6, ItemFacts
    <3> QED BY <1>1, <2>7, <3>1, <3>2 DEF Answers
  <2>9. Behind(out)'
    <3>1. ASSUME NEW i \in 1 .. Len(more), more[i].why \in {"next", "late"},
                 NEW m \in 1 .. more[i].item.seq - 1
          PROVE  FALSE
      <4>1. i = Cardinality(buffer) + 1
        BY <2>3, <2>4, <3>1
      <4>2. more[i].item.seq = 1
        BY <1>6, <2>3, <4>1
      <4> QED BY <4>2
    <3>2. Behind(out \o more)
      BY <1>3, <3>1, StillBehind DEF Inv
    <3> QED BY <2>3, <3>2
  <2>10. Cardinality(buffer') = 0 /\ IsFiniteSet(buffer')
    BY <2>1, FS_EmptySet
  <2>11. SendNeverBlocks'
    BY <1>2, <2>7, <2>10 DEF SendNeverBlocks
  <2>12. TimerInTime'
    BY <2>1 DEF TimerInTime
  <2>13. Types'
    <3>1. nextSeqNum' \in 1 .. MaxSeqNum + 1
      BY <1>0, <1>3, <1>6, <2>1
    <3>2. taken' \in 0 .. Len(out')
      BY <1>2, <2>7
    <3>3. currentSessionId' \in Sessions /\ toCome' \subseteq Items /\ closed' \in BOOLEAN
      BY <1>1, <1>2, <1>3 DEF Inv, Types
    <3> QED BY <1>4, <1>5, <2>1, <2>5, <2>7, <2>10, <3>1, <3>2, <3>3 DEF Types
  <2> QED BY <2>5, <2>6, <2>8, <2>9, <2>11, <2>12, <2>13 DEF Inv
<1>7. CASE it.seq # 1
  <2> DEFINE more == Sent(buffer, "session")
  <2>1. /\ out' = out \o more
        /\ nextSeqNum' = 1 /\ buffer' = {b} /\ timer' = IF left = Off THEN Timeout ELSE left
    BY <1>1, <1>7
  <2>2. /\ b \in Held /\ Item(b) = it /\ b.session = it.session /\ b.age = 0
        /\ {Item(c) : c \in {b}} = {it} /\ {b} \subseteq Held
    BY Buffered, FS_EmptySet DEF b
  <2>3. PassesOn(more, buffer, "session")
    BY <1>3, SentOfBuffer DEF Reasons
  <2> HIDE DEF more
  <2>4. /\ more \in Seq(Entry) /\ Len(more) = Cardinality(buffer)
        /\ \A i \in 1 .. Len(more) :
             /\ more[i].why = "session" /\ more[i].item.session = currentSessionId
             /\ currentSessionId \in Sessions /\ Seen(currentSessionId)
        /\ {more[i].item : i \in 1 .. Len(more)} = {Item(c) : c \in buffer}
        /\ \A i, j \in 1 .. Len(more) : more[i].item = more[j].item => i = j
    BY <2>3 DEF PassesOn
  <2>5. SessionPlace' /\ SessionsApart' /\ sessionOrder' \in [Sessions -> Nat]
    BY <1>1, <1>3, <2>1, <2>2, <2>4, NewSession
  <2>6. Places'
    <3>1. Moves(more, buffer, {b}, {}, it.session)
      <4>1. /\ accepted' = accepted \cup {} \cup {Item(c) : c \in {b}}
            /\ toCome' = toCome \ ({} \cup {Item(c) : c \in {b}})
            /\ buffer' = (buffer \ buffer) \cup {b}
        BY <1>2, <2>1, <2>2
      <4> QED BY <1>2, <2>1, <2>2, <2>4, <4>1 DEF Moves
    <3> QED BY <2>4, <3>1, PlacesAfter
  <2>7. out' \in Seq(Entry) /\ Len(out') = Len(out) + Cardinality(buffer)
    BY <1>3, <2>1, <2>4, OutGrows
  <2>8. PassedOver(out, currentSessionId, nextSeqNum)'
    BY <2>1 DEF PassedOver
  <2>9. Behind(out)'
    <3>1. Behind(out \o more)
      BY <1>3, <2>4, StillBehind DEF Inv
    <3> QED BY <2>1, <3>1
  <2>10. Cardinality(buffer') = 1 /\ IsFiniteSet(buffer')
    BY <2>1, FS_Singleton
  <2>11. SendNeverBlocks'
    BY <1>2, <2>7, <2>10 DEF SendNeverBlocks
  <2>12. timer' \in 0 .. Timeout
    BY <1>0, <1>5, <2>1
  <2>13. TimerInTime'
    BY <1>0, <2>1, <2>2, <2>12 DEF TimerInTime
  <2>14. Types'
    <3>1. nextSeqNum' \in 1 .. MaxSeqNum + 1
      BY <1>0, <2>1
    <3>2. taken' \in 0 .. Len(out')
      BY <1>2, <2>7
    <3>3. currentSessionId' \in Sessions /\ toCome' \subseteq Items /\ closed' \in BOOLEAN /\ buffer' \subseteq Held
      BY <1>1, <1>2, <1>3, <2>1, <2>2 DEF Inv, Types
    <3> QED BY <1>4, <2>5, <2>7, <2>10, <2>12, <3>1, <3>2, <3>3 DEF Types
  <2> QED BY <2>5, <2>6, <2>8, <2>9, <2>11, <2>13, <2>14 DEF Inv
<1> QED BY <1>6, <1>7


LEMMA TimerFiresInv ==
  ASSUME Inv, TimerFires \/ StaleTimerFires
  PROVE  Inv'
<1>1. onTimeout
  BY DEF TimerFires, StaleTimerFires
<1>2. stale \in [0 .. Timeout -> Nat] /\ 0 \in 0 .. Timeout /\ timer \in {Off} \cup 0 .. Timeout
  BY QueueAssumption DEF Inv, Types
<1>3. CASE TimerFires
  BY <1>1, <1>2, <1>3, OnTimeoutInv DEF TimerFires
<1>4. CASE StaleTimerFires
  <2> DEFINE rest == [stale EXCEPT ![0] = @ - 1]
  <2>1. stale[0] > 0 /\ stale' = IF timer = Off THEN rest ELSE [rest EXCEPT ![timer] = @ + 1]
    BY <1>4 DEF StaleTimerFires
  <2>2. rest \in [0 .. Timeout -> Nat]
    BY <1>2, <2>1
  <2> HIDE DEF rest
  <2>3. timer # Off => [rest EXCEPT ![timer] = @ + 1] \in [0 .. Timeout -> Nat]
    BY <1>2, <2>2
  <2>4. stale' \in [0 .. Timeout -> Nat]
    BY <2>1, <2>2, <2>3
  <2> QED BY <1>1, <2>4, OnTimeoutInv
<1> QED BY <1>3, <1>4

-----------------------------------------------------------------------------
(* The inductive invariant. *)

LEMMA InitInv == Init => Inv
<1> SUFFICES ASSUME Init PROVE Inv
  OBVIOUS
<1>1. /\ sessionOrder = [s \in Sessions |-> 0] /\ currentSessionId = Off /\ nextSeqNum = 1
      /\ buffer = {} /\ out = <<>> /\ taken = 0 /\ timer = Off
      /\ stale = [t \in 0 .. Timeout |-> 0] /\ closed = FALSE /\ toCome = Items /\ accepted = {}
  BY DEF Init
<1>2. Len(out) = 0 /\ out \in Seq(Entry) /\ IsFiniteSet({}) /\ Cardinality({}) = 0
  BY <1>1, FS_EmptySet
<1>3. SeenSessions = {}
  BY <1>1 DEF SeenSessions, Seen
<1>4. Types
  <2>1. sessionOrder \in [Sessions -> Nat] /\ currentSessionId \in Sessions \union {Off}
    BY <1>1
  <2>2. nextSeqNum \in 1 .. MaxSeqNum + 1
    BY <1>1, QueueAssumption
  <2>3. out \in Seq(Entry) /\ taken \in 0 .. Len(out) /\ buffer \subseteq Held /\ IsFiniteSet(buffer)
    BY <1>1, <1>2
  <2>4. timer \in {Off} \union 0 .. Timeout /\ stale \in [0 .. Timeout -> Nat]
    BY <1>1
  <2>5. closed \in BOOLEAN /\ toCome \subseteq Items
    BY <1>1
  <2> QED BY <2>1, <2>2, <2>3, <2>4, <2>5 DEF Types
<1>5. SessionPlace
  BY <1>1, <1>2, <1>3 DEF SessionPlace
<1>6. Places
  BY <1>1, <1>2 DEF Places
<1>7. PassedOver(out, currentSessionId, nextSeqNum) /\ Behind(out) /\ SessionsApart
  BY <1>1, <1>2 DEF PassedOver, Behind, SessionsApart
<1>8. SendNeverBlocks /\ TimerInTime
  BY <1>1, <1>2, QueueAssumption DEF SendNeverBlocks, TimerInTime
<1> QED BY <1>4, <1>5, <1>6, <1>7, <1>8 DEF Inv

LEMMA NextInv == Inv /\ [Next]_vars => Inv'
<1> SUFFICES ASSUME Inv, [Next]_vars PROVE Inv'
  OBVIOUS
<1>1. ASSUME NEW it \in Items, QueueItem(it) PROVE Inv'
  BY <1>1, RefuseInv, QueueOldInv, QueueNextInv, QueueAheadInv, QueueNewSessionInv DEF QueueItem
<1>2. CASE UNCHANGED vars
  <2>1. /\ UNCHANGED <<sessionOrder, currentSessionId, nextSeqNum, buffer, out, taken, timer, stale>>
        /\ UNCHANGED <<closed, toCome, accepted>>
    BY <1>2 DEF vars
  <2>2. Types' /\ SendNeverBlocks' /\ TimerInTime'
    BY <2>1 DEF Inv, Types, SendNeverBlocks, TimerInTime
  <2> QED BY <2>1, <2>2, SamePlaces DEF Inv
<1> QED BY <1>1, <1>2, TimerFiresInv, CloseInv, ReceiveInv, TickInv DEF Next

THEOREM QueueInvariant == Spec => []Inv
<1> QED BY InitInv, NextInv, PTL DEF Spec

-----------------------------------------------------------------------------
(* The properties of the queue. *)

\* Types are kept: no session's number is larger than there are sessions
\* (ensureSessionTs_withlock), and nothing the queue has taken is still to come.
THEOREM QueueTypes == ASSUME IsFiniteSet(Sessions) PROVE Spec => []TypeOK
<1>1. ASSUME Inv PROVE TypeOK
  <2>1. /\ sessionOrder \in [Sessions -> Nat]
        /\ \A s \in Sessions : sessionOrder[s] <= Cardinality(SeenSessions)
    BY <1>1 DEF Inv, Types, SessionPlace
  <2>2. /\ Cardinality(SeenSessions) <= Cardinality(Sessions)
        /\ Cardinality(SeenSessions) \in Nat /\ Cardinality(Sessions) \in Nat
    <3>1. SeenSessions \in SUBSET Sessions
      BY DEF SeenSessions
    <3> QED BY <3>1, FS_Subset, FS_CardinalityType
  <2>3. \A s \in Sessions : sessionOrder[s] \in 0 .. Cardinality(Sessions)
    <3> SUFFICES ASSUME NEW s \in Sessions PROVE sessionOrder[s] \in 0 .. Cardinality(Sessions)
      OBVIOUS
    <3>1. sessionOrder[s] \in Nat /\ sessionOrder[s] <= Cardinality(SeenSessions)
      BY <2>1
    <3> QED BY <2>2, <3>1
  <2>4. \A i \in 1 .. Len(out) : out[i].item \in Items
    <3>1. \A i \in 1 .. Len(out) : out[i] \in Entry
      BY <1>1, ElementOfSeq DEF Inv, Types
    <3> QED BY <3>1 DEF Entry
  <2>5. accepted \subseteq Items \ toCome
    <3>1. \A b \in buffer : Item(b) \in Items
      BY <1>1, ItemFacts DEF Inv, Types
    <3> QED BY <1>1, <2>4, <3>1 DEF Inv, Places
  <2> QED BY <1>1, <2>1, <2>3, <2>4, <2>5 DEF Inv, Types, Held, TypeOK
<1> QED BY <1>1, QueueInvariant, PTL

\* The queue sends to outCh with its lock held, also from the timer: that send
\* finds room whatever the capacity and however slow the input goroutine is
\* (QueueItem's check of the total size).
THEOREM SendNeverBlocksAlways == Spec => []SendNeverBlocks
<1>1. Inv => SendNeverBlocks
  BY DEF Inv
<1> QED BY <1>1, QueueInvariant, PTL

\* An input that QueueItem has taken is in the buffer or has been passed on, and
\* nothing is in two places or passed on twice.
THEOREM AcceptedOnceAlways == Spec => []AcceptedOnce
<1>1. ASSUME Inv PROVE AcceptedOnce
  <2> DEFINE passed == {out[i].item : i \in 1 .. Len(out)}
             held == {Item(b) : b \in buffer}
             f == [i \in 1 .. Len(out) |-> out[i].item]
             g == [b \in buffer |-> Item(b)]
  <2>1. /\ accepted = passed \cup held /\ passed \cap held = {}
        /\ Len(out) \in Nat /\ IsFiniteSet(buffer) /\ Cardinality(buffer) \in Nat
    BY <1>1, LenProperties, FS_CardinalityType DEF Inv, Types, Places
  <2>2. IsFiniteSet(1 .. Len(out)) /\ Cardinality(1 .. Len(out)) = Len(out)
    <3>1. 1 \in Int /\ Len(out) \in Int /\ Len(out) - 1 + 1 = Len(out)
      BY <2>1
    <3>2. /\ IsFiniteSet(1 .. Len(out))
          /\ Cardinality(1 .. Len(out)) = IF 1 > Len(out) THEN 0 ELSE Len(out) - 1 + 1
      BY <3>1, FS_Interval
    <3> QED BY <2>1, <3>1, <3>2
  <2>3. f \in Bijection(1 .. Len(out), passed)
    <3>1. \A i, j \in 1 .. Len(out) : f[i] = f[j] => i = j
      BY <1>1 DEF Inv, Places
    <3>2. f \in Injection(1 .. Len(out), passed) /\ f \in Surjection(1 .. Len(out), passed)
      BY <3>1 DEF Injection, IsInjective, Surjection
    <3> QED BY <3>2 DEF Bijection
  <2>4. g \in Bijection(buffer, held)
    <3>1. \A a, b \in buffer : g[a] = g[b] => a = b
      <4>1. \A a, b \in buffer : Item(a) = Item(b) => a.seq = b.seq
        BY DEF Item
      <4> QED BY <1>1, <4>1 DEF Inv, Places
    <3>2. g \in Injection(buffer, held) /\ g \in Surjection(buffer, held)
      BY <3>1 DEF Injection, IsInjective, Surjection
    <3> QED BY <3>2 DEF Bijection
  <2> HIDE DEF f, g, passed, held
  <2>5. IsFiniteSet(passed) /\ Cardinality(passed) = Len(out)
    BY <2>2, <2>3, FS_Bijection DEF ExistsBijection
  <2>6. IsFiniteSet(held) /\ Cardinality(held) = Cardinality(buffer)
    BY <2>1, <2>4, FS_Bijection DEF ExistsBijection
  <2>7. Cardinality(passed \cup held) = Cardinality(passed) + Cardinality(held)
    <3>1. Cardinality(passed \cup held) = Cardinality(passed) + Cardinality(held) - Cardinality(passed \cap held)
      BY <2>5, <2>6, FS_Union
    <3>2. Cardinality(passed \cap held) = 0
      BY <2>1, FS_EmptySet
    <3> QED BY <2>1, <2>5, <2>6, <3>1, <3>2
  <2>8. Len(out) + Cardinality(buffer) = Cardinality(accepted)
    BY <2>1, <2>5, <2>6, <2>7
  <2> QED BY <2>1, <2>8 DEF AcceptedOnce, passed, held
<1> QED BY <1>1, QueueInvariant, PTL

\* While its session lasts, an input is only overtaken if one behind it could
\* not wait any longer, whatever order inputs, callbacks and sessions come in.
THEOREM OvertakenOnlyAfterWaitingAlways == Spec => []OvertakenOnlyAfterWaiting
<1>1. ASSUME Inv PROVE OvertakenOnlyAfterWaiting
  <2> SUFFICES ASSUME NEW j \in 1 .. Len(out), NEW i \in 1 .. j - 1,
                      out[i].item.session = out[j].item.session, out[i].item.seq > out[j].item.seq
               PROVE  \/ out[i].why = "old"
                      \/ \E k \in 1 .. i :
                           /\ out[k].why \in {"timeout", "session"}
                           /\ out[k].item.session = out[j].item.session
                           /\ out[k].item.seq > out[j].item.seq
    BY DEF OvertakenOnlyAfterWaiting
  <2>1. i \in 1 .. Len(out) /\ i < j /\ i \in 1 .. i
    OBVIOUS
  <2>2. out[i] \in Entry /\ out[j] \in Entry
    BY <1>1, <2>1, ElementOfSeq DEF Inv, Types
  <2>3. CASE out[i].why \in {"timeout", "session"}
    BY <2>1, <2>3
  <2>4. CASE out[i].why \in {"next", "late"}
    <3>1. out[j].item.seq \in 1 .. out[i].item.seq - 1
      <4>1. out[i].item.seq \in Nat /\ out[j].item.seq \in Nat /\ out[j].item.seq >= 1
        BY <2>2, QueueAssumption DEF Entry, Items
      <4> QED BY <4>1
    <3>2. PICK k \in 1 .. i : Answers(out, k, out[i].item.session, out[j].item.seq)
      BY <1>1, <2>1, <2>4, <3>1 DEF Inv, Behind
    <3>3. out[k].item # [session |-> out[i].item.session, seq |-> out[j].item.seq]
      <4>1. out[j].item = [session |-> out[j].item.session, seq |-> out[j].item.seq]
        BY <2>2, ItemFacts DEF Entry
      <4>2. k \in 1 .. Len(out) /\ k # j
        BY <2>1
      <4>3. out[k].item # out[j].item
        BY <1>1, <4>2 DEF Inv, Places
      <4> QED BY <4>1, <4>3
    <3> QED BY <3>2, <3>3 DEF Answers
  <2> QED BY <2>2, <2>3, <2>4 DEF Entry, Reasons
<1> QED BY <1>1, QueueInvariant, PTL

\* What had arrived when a session began comes out before anything of it.
THEOREM SessionsApartAlways == Spec => []SessionsApart
<1>1. Inv => SessionsApart
  BY DEF Inv
<1> QED BY <1>1, QueueInvariant, PTL

\* Until Close, q.timer runs down in time for every buffered item, whichever
\* callbacks were stopped too late or replaced one another.
THEOREM TimerInTimeAlways == Spec => []TimerInTime
<1>1. Inv => TimerInTime
  BY DEF Inv
<1> QED BY <1>1, QueueInvariant, PTL

=============================================================================
