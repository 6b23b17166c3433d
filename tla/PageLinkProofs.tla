--------------------------- MODULE PageLinkProofs ---------------------------
(***************************************************************************)
(* Proofs about PageLink, for any number of routes, subscribers, calls and *)
(* faults: there is one socket or one timer to make it; when nothing is on *)
(* its way the backend has exactly the page's routes and subscriptions; no *)
(* call is sent twice, and a client's route is announced before its calls. *)
(***************************************************************************)
EXTENDS PageLink, SequenceTheorems, FiniteSetTheorems, TLAPS

RouteTypes == {"routeannounce", "routeunannounce"}
RouteMessage == [type : RouteTypes, route : Routes]
QueuedMessage == [type : {"call"}, route : Routes, id : Nat]
                   \union [type : {"eventsub"}, scopes : SUBSET (Subscribers \union {All})]
Message == RouteMessage \union QueuedMessage

About(msg, r) == msg.type \in RouteTypes /\ msg.route = r

\* What the backend knows of the routes rs when it has b and s is on its way to
\* it: the last message about a route is right, and b where there is none.
Tells(s, b, rs) ==
  \A r \in Routes :
    /\ (\A i \in 1 .. Len(s) : ~About(s[i], r)) => (r \in b <=> r \in rs)
    /\ \A i \in 1 .. Len(s) :
         About(s[i], r) /\ (\A j \in 1 .. Len(s) : j > i => ~About(s[j], r))
           => (s[i].type = "routeannounce" <=> r \in rs)

Types ==
  /\ routes \subseteq Routes /\ bound \subseteq Routes /\ subjects \subseteq Subscribers
  /\ sent \in Seq(Message) /\ msgQueue \in Seq(QueuedMessage)
  /\ ops \in Nat /\ reconnectTimes \in Nat
  /\ open \in BOOLEAN /\ opening \in BOOLEAN /\ noReconnect \in BOOLEAN
  /\ connectTimer \in BOOLEAN /\ stableTimer \in BOOLEAN /\ linked \in BOOLEAN
  /\ wire \in {"none", "connecting", "accepted", "up", "broken"}

\* Where the socket is when the page takes it for open or opening, and what
\* the backend has made of it.
SocketPlace ==
  /\ wire = "up" => open
  /\ open => wire \in {"up", "broken"}
  /\ wire # "none" <=> open \/ opening
  /\ stableTimer => open
  /\ connectTimer => ~open /\ ~opening
  /\ ~open /\ ~opening /\ ~connectTimer => noReconnect \/ reconnectTimes > GiveUp
  /\ wire \in {"accepted", "up"} => linked
  /\ wire = "accepted" => bound = {} /\ sent = <<>>

RoutesOnWay == wire = "up" => Tells(sent, bound, routes)

Inv == Types /\ SocketPlace /\ RoutesOnWay

-----------------------------------------------------------------------------
(* Lemmas about the messages on their way. *)

LEMMA MessageKinds ==
  /\ \A msg \in RouteMessage : msg.type \in RouteTypes /\ msg.route \in Routes
  /\ \A msg \in QueuedMessage : msg.type \in {"call", "eventsub"}
  /\ \A msg \in QueuedMessage, r \in Routes : ~About(msg, r)
  /\ \A msg \in Message, r \in Routes : About(msg, r) => msg \in RouteMessage
BY DEF RouteMessage, QueuedMessage, Message, RouteTypes, About

\* A call or a subscription says nothing about the routes.
LEMMA SendOther ==
  ASSUME NEW s \in Seq(Message), NEW b, NEW rs, Tells(s, b, rs),
         NEW msg \in QueuedMessage
  PROVE  /\ s \o <<msg>> \in Seq(Message)
         /\ Tells(s \o <<msg>>, b, rs)
<1> DEFINE t == s \o <<msg>>
<1>1. msg \in Message /\ <<msg>> \in Seq(Message)
  BY DEF Message
<1>2. t \in Seq(Message) /\ Len(t) = Len(s) + 1 /\ Len(s) \in Nat
  BY <1>1
<1>3. \A i \in 1 .. Len(s) : t[i] = s[i]
  BY <1>1, ConcatProperties
<1>4. t[Len(s) + 1] = msg
  BY <1>1, <1>2
<1>5. \A r \in Routes : ~About(t[Len(s) + 1], r)
  BY <1>4, MessageKinds
<1> HIDE DEF t
<1>6. ASSUME NEW r \in Routes, \A i \in 1 .. Len(t) : ~About(t[i], r)
      PROVE  r \in b <=> r \in rs
  <2>1. \A i \in 1 .. Len(s) : ~About(s[i], r)
    BY <1>2, <1>3, <1>6
  <2> QED BY <2>1 DEF Tells
<1>7. ASSUME NEW r \in Routes, NEW i \in 1 .. Len(t), About(t[i], r),
             \A j \in 1 .. Len(t) : j > i => ~About(t[j], r)
      PROVE  t[i].type = "routeannounce" <=> r \in rs
  <2>1. i \in 1 .. Len(s)
    BY <1>2, <1>5, <1>7
  <2>2. \A j \in 1 .. Len(s) : j > i => ~About(s[j], r)
    BY <1>2, <1>3, <1>7
  <2> QED BY <2>1, <2>2, <1>3, <1>7 DEF Tells
<1>8. Tells(t, b, rs)
  BY <1>6, <1>7 DEF Tells
<1> QED BY <1>2, <1>8 DEF t

\* A route is announced or taken back when the page adds or removes it.
LEMMA SendRoute ==
  ASSUME NEW s \in Seq(Message), NEW b, NEW rs, Tells(s, b, rs),
         NEW q \in Routes, NEW type \in RouteTypes
  PROVE  LET t == s \o <<[type |-> type, route |-> q]>>
         IN  /\ t \in Seq(Message)
             /\ Tells(t, b, IF type = "routeannounce" THEN rs \union {q} ELSE rs \ {q})
<1> DEFINE msg == [type |-> type, route |-> q]
           t == s \o <<msg>>
           new == IF type = "routeannounce" THEN rs \union {q} ELSE rs \ {q}
<1>1. msg \in Message /\ <<msg>> \in Seq(Message)
  BY DEF Message, RouteMessage
<1>2. t \in Seq(Message) /\ Len(t) = Len(s) + 1 /\ Len(s) \in Nat
  BY <1>1
<1>3. \A i \in 1 .. Len(s) : t[i] = s[i]
  BY <1>1, ConcatProperties
<1>4. t[Len(s) + 1] = msg
  BY <1>1, <1>2
<1>5. /\ \A r \in Routes : About(t[Len(s) + 1], r) <=> r = q
      /\ t[Len(s) + 1].type = "routeannounce" <=> q \in new
  BY <1>4 DEF About, RouteTypes
<1>6. \A r \in Routes : r # q => (r \in new <=> r \in rs)
  OBVIOUS
<1> HIDE DEF t, new
<1>7. ASSUME NEW r \in Routes, \A i \in 1 .. Len(t) : ~About(t[i], r)
      PROVE  r \in b <=> r \in new
  <2>1. r # q
    BY <1>2, <1>5, <1>7
  <2>2. \A i \in 1 .. Len(s) : ~About(s[i], r)
    BY <1>2, <1>3, <1>7
  <2> QED BY <2>1, <2>2, <1>6 DEF Tells
<1>8. ASSUME NEW r \in Routes, NEW i \in 1 .. Len(t), About(t[i], r),
             \A j \in 1 .. Len(t) : j > i => ~About(t[j], r)
      PROVE  t[i].type = "routeannounce" <=> r \in new
  <2>1. CASE i = Len(s) + 1
    BY <2>1, <1>5, <1>8
  <2>2. CASE i \in 1 .. Len(s)
    <3>1. r # q
      BY <2>2, <1>2, <1>5, <1>8
    <3>2. \A j \in 1 .. Len(s) : j > i => ~About(s[j], r)
      BY <1>2, <1>3, <1>8
    <3> QED BY <2>2, <3>1, <3>2, <1>3, <1>6, <1>8 DEF Tells
  <2> QED BY <2>1, <2>2, <1>2
<1>9. Tells(t, b, new)
  BY <1>7, <1>8 DEF Tells
<1> QED BY <1>2, <1>9 DEF t, new

\* The backend reads the next message.
After(b, msg) ==
  IF msg.type = "routeannounce" THEN b \union {msg.route}
  ELSE IF msg.type = "routeunannounce" THEN b \ {msg.route} ELSE b

LEMMA ReadNext ==
  ASSUME NEW s \in Seq(Message), s # <<>>, NEW b, NEW rs, Tells(s, b, rs)
  PROVE  Tells(Tail(s), After(b, Head(s)), rs)
<1> DEFINE t == Tail(s)
           new == After(b, Head(s))
<1>1. /\ t \in Seq(Message) /\ Len(t) = Len(s) - 1 /\ Len(s) \in Nat \ {0}
      /\ \A i \in 1 .. Len(t) : t[i] = s[i + 1]
      /\ Head(s) = s[1] /\ s[1] \in Message
  BY HeadTailProperties, EmptySeq
<1>2. \A r \in Routes :
        IF About(s[1], r) THEN r \in new <=> s[1].type = "routeannounce"
                          ELSE r \in new <=> r \in b
  BY <1>1 DEF After, About, RouteTypes
<1> HIDE DEF t, new
<1>3. ASSUME NEW r \in Routes, \A i \in 1 .. Len(t) : ~About(t[i], r)
      PROVE  r \in new <=> r \in rs
  <2>1. \A i \in 1 .. Len(s) : i > 1 => ~About(s[i], r)
    <3> SUFFICES ASSUME NEW i \in 1 .. Len(s), i > 1 PROVE ~About(s[i], r)
      OBVIOUS
    <3>1. i - 1 \in 1 .. Len(t) /\ (i - 1) + 1 = i
      BY <1>1
    <3> QED BY <3>1, <1>1, <1>3
  <2>2. CASE About(s[1], r)
    <3>1. s[1].type = "routeannounce" <=> r \in rs
      BY <2>1, <2>2, <1>1 DEF Tells
    <3> QED BY <3>1, <2>2, <1>2
  <2>3. CASE ~About(s[1], r)
    <3>1. \A i \in 1 .. Len(s) : ~About(s[i], r)
      BY <2>1, <2>3, <1>1
    <3> QED BY <3>1, <2>3, <1>2 DEF Tells
  <2> QED BY <2>2, <2>3
<1>4. ASSUME NEW r \in Routes, NEW i \in 1 .. Len(t), About(t[i], r),
             \A j \in 1 .. Len(t) : j > i => ~About(t[j], r)
      PROVE  t[i].type = "routeannounce" <=> r \in rs
  <2>1. i + 1 \in 1 .. Len(s) /\ t[i] = s[i + 1]
    BY <1>1
  <2>2. ASSUME NEW j \in 1 .. Len(s), j > i + 1 PROVE ~About(s[j], r)
    <3>1. j - 1 \in 1 .. Len(t) /\ j - 1 > i /\ (j - 1) + 1 = j
      BY <1>1, <2>2
    <3> QED BY <3>1, <1>1, <1>4
  <2> QED BY <2>1, <2>2, <1>4 DEF Tells
<1>5. Tells(t, new, rs)
  BY <1>3, <1>4 DEF Tells
<1> QED BY <1>5 DEF t, new

\* A finite set as a sequence: its elements, and all of them.
LEMMA SetAsSequence ==
  ASSUME NEW S, IsFiniteSet(S)
  PROVE  /\ SetToSeq(S) \in Seq(S)
         /\ \A x \in S : \E i \in 1 .. Len(SetToSeq(S)) : SetToSeq(S)[i] = x
<1> DEFINE n == Cardinality(S)
<1>1. n \in Nat /\ ExistsBijection(1 .. n, S)
  BY FS_CardinalityType
<1>2. \E f \in [1 .. n -> S] : IsInjective(f)
  BY <1>1 DEF ExistsBijection, Bijection, Injection
<1>3. SetToSeq(S) \in [1 .. n -> S] /\ IsInjective(SetToSeq(S))
  BY <1>2 DEF SetToSeq
<1>4. SetToSeq(S) \in Injection(1 .. n, S)
  BY <1>3 DEF Injection
<1>5. IsFiniteSet(1 .. n) /\ Cardinality(1 .. n) = n
  BY <1>1, FS_Interval
<1>6. SetToSeq(S) \in Surjection(1 .. n, S)
  BY <1>4, <1>5, FS_Injection
<1>7. SetToSeq(S) \in Seq(S) /\ Len(SetToSeq(S)) = n
  BY <1>1, <1>3
<1> QED BY <1>6, <1>7 DEF Surjection

LEMMA AnnouncementsFinite ==
  ASSUME IsFiniteSet(Routes), NEW rs \in SUBSET Routes
  PROVE  IsFiniteSet({Announce(r) : r \in rs})
<1> DEFINE S == {Announce(r) : r \in rs}
           f == [r \in rs |-> Announce(r)]
<1>1. IsFiniteSet(rs)
  BY FS_Subset
<1>2. f \in Surjection(rs, S)
  BY DEF Surjection
<1> QED BY <1>1, <1>2, FS_Surjection

\* A new connection: the backend knows nothing, and all routes are announced first.
LEMMA StartAgain ==
  ASSUME IsFiniteSet(Routes), NEW rs \in SUBSET Routes, NEW rest \in Seq(QueuedMessage)
  PROVE  LET t == SetToSeq({Announce(r) : r \in rs}) \o rest
         IN  t \in Seq(Message) /\ Tells(t, {}, rs)
<1> DEFINE S == {Announce(r) : r \in rs}
           a == SetToSeq(S)
           t == a \o rest
<1>1. IsFiniteSet(S)
  BY AnnouncementsFinite
<1>2. S \subseteq RouteMessage
  BY DEF Announce, RouteMessage, RouteTypes
<1>3. a \in Seq(S) /\ \A x \in S : \E i \in 1 .. Len(a) : a[i] = x
  BY <1>1, SetAsSequence
<1>4. a \in Seq(Message) /\ rest \in Seq(Message)
  BY <1>2, <1>3, SeqMonotonic DEF Message
<1>5. /\ t \in Seq(Message) /\ Len(a) \in Nat /\ Len(rest) \in Nat /\ Len(t) = Len(a) + Len(rest)
      /\ \A i \in 1 .. Len(t) : t[i] = IF i <= Len(a) THEN a[i] ELSE rest[i - Len(a)]
  BY <1>4, ConcatProperties, LenProperties
<1>6. \A i \in 1 .. Len(a) : a[i] \in S
  BY <1>3, ElementOfSeq
<1>7. \A i \in 1 .. Len(rest) : rest[i] \in QueuedMessage
  BY ElementOfSeq
<1> HIDE DEF a, t
<1>8. ASSUME NEW i \in 1 .. Len(t), NEW r \in Routes, About(t[i], r)
      PROVE  t[i].type = "routeannounce" /\ r \in rs
  <2>1. CASE i <= Len(a)
    <3>1. t[i] \in S
      BY <2>1, <1>5, <1>6
    <3> QED BY <3>1, <1>8 DEF Announce, About
  <2>2. CASE ~(i <= Len(a))
    <3>1. i - Len(a) \in 1 .. Len(rest) /\ t[i] = rest[i - Len(a)]
      BY <2>2, <1>5
    <3> QED BY <3>1, <1>7, <1>8, MessageKinds
  <2> QED BY <2>1, <2>2
<1>9. ASSUME NEW r \in rs
      PROVE  \E i \in 1 .. Len(t) : About(t[i], r)
  <2>1. PICK i \in 1 .. Len(a) : a[i] = Announce(r)
    BY <1>3
  <2>2. i \in 1 .. Len(t) /\ t[i] = Announce(r)
    BY <2>1, <1>5
  <2> QED BY <2>2 DEF Announce, About, RouteTypes
<1>10. Tells(t, {}, rs)
  BY <1>8, <1>9 DEF Tells
<1> QED BY <1>5, <1>10 DEF a, t

-----------------------------------------------------------------------------
(* The steps. *)

LEMMA InitInv == GiveUp \in Nat /\ LinkInit => Inv
<1> SUFFICES ASSUME GiveUp \in Nat, LinkInit PROVE Inv
  OBVIOUS
<1>1. Types
  <2>1. routes \subseteq Routes
    BY DEF LinkInit
  <2>2. sent \in Seq(Message) /\ msgQueue \in Seq(QueuedMessage)
    BY EmptySeq DEF LinkInit
  <2> QED BY <2>1, <2>2 DEF LinkInit, Types
<1>2. SocketPlace
  BY DEF LinkInit, SocketPlace
<1>3. RoutesOnWay
  BY DEF LinkInit, RoutesOnWay
<1> QED BY <1>1, <1>2, <1>3 DEF Inv

\* What the page's code hands to pushMessage: with rs the routes it has then.
LEMMA PushOther ==
  ASSUME Inv, NEW msg \in QueuedMessage, pushMessage(msg),
         UNCHANGED <<wire, bound, routes, open>>
  PROVE  /\ sent' \in Seq(Message) /\ msgQueue' \in Seq(QueuedMessage)
         /\ RoutesOnWay'
         /\ wire = "accepted" => sent' = sent
<1>1. CASE open
  <2>1. msgQueue' = msgQueue /\ sent' = IF wire = "up" THEN sent \o <<msg>> ELSE sent
    BY <1>1 DEF pushMessage, sendMessage
  <2> QED BY <2>1, SendOther DEF Inv, Types, RoutesOnWay
<1>2. CASE ~open
  <2>1. sent' = sent /\ msgQueue' = Append(msgQueue, msg)
    BY <1>2, MessageKinds DEF pushMessage
  <2> QED BY <2>1 DEF Inv, Types, RoutesOnWay
<1> QED BY <1>1, <1>2 DEF Inv, Types

LEMMA PushRoute ==
  ASSUME Inv, NEW type \in RouteTypes, NEW q \in Routes,
         pushMessage([type |-> type, route |-> q]), UNCHANGED <<wire, bound, open>>,
         routes' = IF type = "routeannounce" THEN routes \union {q} ELSE routes \ {q}
  PROVE  /\ sent' \in Seq(Message) /\ msgQueue' \in Seq(QueuedMessage)
         /\ RoutesOnWay'
         /\ wire = "accepted" => sent' = sent
<1> DEFINE msg == [type |-> type, route |-> q]
<1>1. CASE open
  <2>1. msgQueue' = msgQueue /\ sent' = IF wire = "up" THEN sent \o <<msg>> ELSE sent
    BY <1>1 DEF pushMessage, sendMessage
  <2> QED BY <2>1, SendRoute DEF Inv, Types, RoutesOnWay
<1>2. CASE ~open
  <2>1. sent' = sent /\ msgQueue' = msgQueue
    BY <1>2 DEF pushMessage, RouteTypes
  <2>2. wire' # "up"
    BY <1>2 DEF Inv, SocketPlace
  <2> QED BY <2>1, <2>2 DEF Inv, Types, RoutesOnWay
<1> QED BY <1>1, <1>2 DEF Inv, Types

\* A call of the page's code leaves the socket alone.
LEMMA OpInv ==
  ASSUME Inv, Op, UNCHANGED UnchangedByOps,
         routes' \subseteq Routes, subjects' \subseteq Subscribers,
         sent' \in Seq(Message), msgQueue' \in Seq(QueuedMessage), RoutesOnWay',
         wire = "accepted" => sent' = sent
  PROVE  Inv'
<1>1. Types'
  BY DEF Inv, Types, Op, UnchangedByOps, backend
<1>2. SocketPlace'
  BY DEF Inv, SocketPlace, UnchangedByOps, backend
<1> QED BY <1>1, <1>2 DEF Inv

\* What onopen and QueueTimer take from the queue.
LEMMA QueueHead ==
  ASSUME msgQueue \in Seq(QueuedMessage)
  PROVE  runMsgQueue \in Seq(QueuedMessage) /\ Shifted \in Seq(QueuedMessage)
<1>1. CASE msgQueue = <<>>
  BY <1>1 DEF runMsgQueue, Shifted
<1>2. CASE msgQueue # <<>>
  <2>1. Head(msgQueue) \in QueuedMessage /\ Tail(msgQueue) \in Seq(QueuedMessage)
    BY <1>2, HeadTailProperties
  <2> QED BY <1>2, <2>1 DEF runMsgQueue, Shifted
<1> QED BY <1>1, <1>2

LEMMA NextInv ==
  ASSUME GiveUp \in Nat, IsFiniteSet(Routes), Inv, [LinkNext]_linkVars
  PROVE  Inv'
<1> USE DEF Inv
<1>1. ASSUME NEW r \in Routes, registerRoute(r) PROVE Inv'
  <2>1. pushMessage([type |-> "routeannounce", route |-> r])
    BY <1>1 DEF registerRoute, Announce
  <2>2. /\ Op /\ routes' = routes \union {r}
        /\ UNCHANGED subjects /\ UNCHANGED UnchangedByOps
    BY <1>1 DEF registerRoute
  <2>3. UNCHANGED <<wire, bound, open>>
    BY <2>2 DEF UnchangedByOps, backend
  <2>4. /\ sent' \in Seq(Message) /\ msgQueue' \in Seq(QueuedMessage) /\ RoutesOnWay'
        /\ wire = "accepted" => sent' = sent
    BY <2>1, <2>2, <2>3, PushRoute DEF RouteTypes
  <2> QED BY <2>2, <2>4, OpInv DEF Types
<1>2. ASSUME NEW r \in Routes, unregisterRoute(r) PROVE Inv'
  <2>1. pushMessage([type |-> "routeunannounce", route |-> r])
    BY <1>2 DEF unregisterRoute, Unannounce
  <2>2. /\ Op /\ routes' = routes \ {r}
        /\ UNCHANGED subjects /\ UNCHANGED UnchangedByOps
    BY <1>2 DEF unregisterRoute
  <2>3. UNCHANGED <<wire, bound, open>>
    BY <2>2 DEF UnchangedByOps, backend
  <2>4. /\ sent' \in Seq(Message) /\ msgQueue' \in Seq(QueuedMessage) /\ RoutesOnWay'
        /\ wire = "accepted" => sent' = sent
    BY <2>1, <2>2, <2>3, PushRoute DEF RouteTypes
  <2> QED BY <2>2, <2>4, OpInv DEF Types
<1>3. ASSUME NEW r \in Routes, SendCall(r) PROVE Inv'
  <2>1. CallMsg(r, ops) \in QueuedMessage
    BY DEF CallMsg, QueuedMessage, Types
  <2>2. /\ Op /\ pushMessage(CallMsg(r, ops))
        /\ UNCHANGED <<routes, subjects>> /\ UNCHANGED UnchangedByOps
    BY <1>3 DEF SendCall
  <2>3. UNCHANGED <<wire, bound, routes, open>>
    BY <2>2 DEF UnchangedByOps, backend
  <2>4. /\ sent' \in Seq(Message) /\ msgQueue' \in Seq(QueuedMessage) /\ RoutesOnWay'
        /\ wire = "accepted" => sent' = sent
    BY <2>1, <2>2, <2>3, PushOther
  <2> QED BY <2>2, <2>4, OpInv DEF Types
<1>4. ASSUME NEW s \in Subscribers, waveEventSubscribeSingle(s) \/ waveEventUnsubscribe(s)
      PROVE  Inv'
  <2>1. subjects' \subseteq Subscribers
    BY <1>4 DEF waveEventSubscribeSingle, waveEventUnsubscribe, Types
  <2>2. updateWaveEventSub(subjects') \in QueuedMessage
    BY <2>1 DEF updateWaveEventSub, Scopes, QueuedMessage
  <2>3. /\ Op /\ pushMessage(updateWaveEventSub(subjects'))
        /\ UNCHANGED routes /\ UNCHANGED UnchangedByOps
    BY <1>4 DEF waveEventSubscribeSingle, waveEventUnsubscribe
  <2>4. UNCHANGED <<wire, bound, routes, open>>
    BY <2>3 DEF UnchangedByOps, backend
  <2>5. /\ sent' \in Seq(Message) /\ msgQueue' \in Seq(QueuedMessage) /\ RoutesOnWay'
        /\ wire = "accepted" => sent' = sent
    BY <2>2, <2>3, <2>4, PushOther
  <2> QED BY <2>1, <2>3, <2>5, OpInv DEF Types
<1>5. CASE connectNow
  <2>1. Types'
    BY <1>5, EmptySeq DEF connectNow, Types, backend
  <2>2. SocketPlace'
    BY <1>5 DEF connectNow, Types, SocketPlace, backend
  <2>3. RoutesOnWay'
    BY <1>5 DEF connectNow, RoutesOnWay, backend
  <2> QED BY <2>1, <2>2, <2>3
<1>6. CASE onopen
  <2> DEFINE subs == IF subjects = {} THEN <<>> ELSE <<updateWaveEventSub(subjects)>>
             rest == subs \o runMsgQueue
             all == SetToSeq({Announce(r) : r \in routes})
  <2>1. subs \in Seq(QueuedMessage)
    <3>1. updateWaveEventSub(subjects) \in QueuedMessage
      BY DEF updateWaveEventSub, Scopes, QueuedMessage, Types
    <3> QED BY <3>1, EmptySeq
  <2>2. runMsgQueue \in Seq(QueuedMessage) /\ Shifted \in Seq(QueuedMessage)
    BY QueueHead DEF Types
  <2>3. rest \in Seq(QueuedMessage)
    BY <2>1, <2>2
  <2>4. all \o rest \in Seq(Message) /\ Tells(all \o rest, {}, routes)
    BY <2>3, StartAgain DEF Types
  <2>5. sent' = all \o rest
    <3>1. sent = <<>> /\ sent' = sent \o Reconnected \o runMsgQueue
      BY <1>6 DEF onopen, SocketPlace
    <3>2. all \in Seq({Announce(r) : r \in routes})
      <4>1. IsFiniteSet({Announce(r) : r \in routes})
        BY AnnouncementsFinite DEF Types
      <4> QED BY <4>1, SetAsSequence
    <3>3. all \in Seq(Message) /\ subs \in Seq(Message) /\ runMsgQueue \in Seq(Message)
      <4>1. {Announce(r) : r \in routes} \subseteq Message
        BY DEF Announce, Message, RouteMessage, RouteTypes, Types
      <4> QED BY <4>1, <3>2, <2>1, <2>2, SeqMonotonic DEF Message
    <3>4. Reconnected = all \o subs
      BY DEF Reconnected
    <3>5. (all \o subs) \o runMsgQueue = all \o rest
      BY <3>3, ConcatAssociative
    <3>6. Reconnected \in Seq(Message)
      BY <3>3, <3>4
    <3>7. <<>> \o Reconnected = Reconnected
      BY <3>6, ConcatEmptySeq
    <3> QED BY <3>1, <3>4, <3>5, <3>7
  <2>6. bound = {} /\ bound' = bound /\ routes' = routes
    BY <1>6 DEF onopen, SocketPlace, backend
  <2> HIDE DEF all, rest, subs
  <2>7. Types'
    BY <1>6, <2>2, <2>4, <2>5 DEF onopen, Types, backend
  <2>8. SocketPlace'
    BY <1>6 DEF onopen, Types, SocketPlace, backend
  <2>9. RoutesOnWay'
    BY <2>4, <2>5, <2>6 DEF RoutesOnWay
  <2> QED BY <2>7, <2>8, <2>9
<1>7. CASE QueueTimer
  <2>1. runMsgQueue \in Seq(QueuedMessage) /\ Shifted \in Seq(QueuedMessage)
    BY QueueHead DEF Types
  <2>2. /\ sent' \in Seq(Message)
        /\ msgQueue' \in Seq(QueuedMessage)
        /\ wire = "up" => Tells(sent', bound, routes)
        /\ wire = "accepted" => sent' = sent
    <3>1. CASE open /\ wire = "up" /\ msgQueue # <<>>
      <4>1. /\ Head(msgQueue) \in QueuedMessage
            /\ sent' = sent \o <<Head(msgQueue)>> /\ msgQueue' = Shifted
        BY <1>7, <3>1, HeadTailProperties DEF QueueTimer, sendMessage, runMsgQueue, Types
      <4> QED BY <3>1, <4>1, <2>1, SendOther DEF Types, RoutesOnWay
    <3>2. CASE open /\ wire = "up" /\ msgQueue = <<>>
      <4>1. sent' = sent \o <<>> /\ msgQueue' = Shifted
        BY <1>7, <3>2 DEF QueueTimer, sendMessage, runMsgQueue
      <4>2. sent' = sent
        BY <4>1, ConcatEmptySeq DEF Types
      <4> QED BY <3>2, <4>1, <4>2, <2>1 DEF Types, RoutesOnWay
    <3>3. CASE ~open \/ wire # "up"
      <4>1. sent' = sent /\ (msgQueue' = Shifted \/ msgQueue' = msgQueue)
        BY <1>7, <3>3 DEF QueueTimer, sendMessage
      <4> QED BY <4>1, <2>1 DEF Types, RoutesOnWay
    <3> QED BY <3>1, <3>2, <3>3
  <2>3. Types'
    BY <1>7, <2>2 DEF QueueTimer, Types, backend
  <2>4. SocketPlace'
    BY <1>7, <2>2 DEF QueueTimer, SocketPlace, backend
  <2>5. RoutesOnWay'
    BY <1>7, <2>2 DEF QueueTimer, RoutesOnWay, backend
  <2> QED BY <2>3, <2>4, <2>5
<1>8. CASE StableTimer
  BY <1>8 DEF StableTimer, Types, SocketPlace, RoutesOnWay, backend
<1>9. CASE onclose
  <2>1. /\ reconnectTimes' \in Nat /\ connectTimer' \in BOOLEAN
        /\ open' = FALSE /\ opening' = FALSE
        /\ ~connectTimer' => noReconnect \/ reconnectTimes' > GiveUp
    <3>1. open \/ opening
      BY <1>9 DEF onclose, SocketPlace
    <3>2. open' = FALSE /\ opening' = FALSE /\ reconnect
      BY <1>9, <3>1 DEF onclose
    <3>3. CASE noReconnect
      BY <3>2, <3>3 DEF reconnect, Types
    <3>4. CASE ~noReconnect
      <4>1. reconnectTimes' = reconnectTimes + 1 /\ connectTimer' = (reconnectTimes' <= GiveUp)
        BY <3>2, <3>4 DEF reconnect
      <4>2. reconnectTimes' \in Nat
        BY <4>1 DEF Types
      <4>3. CASE reconnectTimes' <= GiveUp
        <5>1. connectTimer' = TRUE
          BY <4>1, <4>3, Zenon
        <5> QED BY <3>2, <4>2, <5>1
      <4>4. CASE ~(reconnectTimes' <= GiveUp)
        <5>1. (reconnectTimes' <= GiveUp) = FALSE
          BY <4>2, <4>4
        <5>2. connectTimer' = FALSE
          BY <4>1, <5>1, Zenon
        <5>3. reconnectTimes' > GiveUp
          BY <4>2, <4>4
        <5> QED BY <3>2, <4>2, <5>2, <5>3
      <4> QED BY <4>3, <4>4
    <3> QED BY <3>3, <3>4
  <2>2. wire' = "none" /\ stableTimer' = FALSE
        /\ UNCHANGED <<noReconnect, msgQueue, routes, subjects, sent, bound, linked, ops>>
    BY <1>9 DEF onclose, backend
  <2>4. Types'
    BY <2>1, <2>2 DEF Types
  <2>5. SocketPlace'
    BY <2>1, <2>2 DEF Types, SocketPlace
  <2>3. RoutesOnWay'
    BY <1>9 DEF onclose, RoutesOnWay
  <2> QED BY <2>3, <2>4, <2>5
<1>10. CASE shutdown
  <2>1. Types'
    BY <1>10 DEF shutdown, Types, backend
  <2>2. SocketPlace'
    BY <1>10 DEF shutdown, Types, SocketPlace, backend
  <2>3. RoutesOnWay'
    BY <1>10 DEF shutdown, RoutesOnWay
  <2> QED BY <2>1, <2>2, <2>3
<1>11. CASE registerConn
  BY <1>11 DEF registerConn, Types, SocketPlace, RoutesOnWay, page
<1>12. CASE unregisterConn
  BY <1>12 DEF unregisterConn, Types, SocketPlace, RoutesOnWay, page
<1>13. CASE Break
  <2>1. sent' \in Seq(Message)
    <3>1. PICK n \in 0 .. Len(sent) : sent' = SubSeq(sent, 1, n)
      BY <1>13 DEF Break
    <3>2. \A i \in 1 .. n : sent[i] \in Message
      BY ElementOfSeq DEF Types
    <3> QED BY <3>1, <3>2, SubSeqProperties
  <2>2. Types'
    BY <1>13, <2>1 DEF Break, Types, page, backend
  <2>3. SocketPlace'
    BY <1>13 DEF Break, Types, SocketPlace, page, backend
  <2>4. RoutesOnWay'
    BY <1>13 DEF Break, RoutesOnWay
  <2> QED BY <2>2, <2>3, <2>4
<1>14. CASE BackendReads
  <2>1. sent # <<>> /\ sent' = Tail(sent) /\ UNCHANGED <<page, routes, subjects, wire, linked, ops>>
    BY <1>14 DEF BackendReads
  <2>2. Tail(sent) \in Seq(Message) /\ Head(sent) \in Message
    BY <2>1, HeadTailProperties DEF Types
  <2>3. bound' = After(bound, Head(sent))
    BY <1>14, <2>2 DEF BackendReads, After, Message, RouteMessage, QueuedMessage, RouteTypes
  <2>4. bound' \subseteq Routes
    BY <2>2, <2>3 DEF After, Types, Message, RouteMessage, QueuedMessage, RouteTypes
  <2>5. Types'
    BY <2>1, <2>2, <2>4 DEF Types, page
  <2>6. SocketPlace'
    BY <2>1 DEF SocketPlace, page
  <2>7. RoutesOnWay'
    BY <2>1, <2>3, ReadNext DEF RoutesOnWay, Types
  <2> QED BY <2>5, <2>6, <2>7
<1>15. CASE UNCHANGED linkVars
  BY <1>15 DEF linkVars, page, backend, Types, SocketPlace, RoutesOnWay
<1> QED BY <1>1, <1>2, <1>3, <1>4, <1>5, <1>6, <1>7, <1>8, <1>9, <1>10, <1>11, <1>12,
           <1>13, <1>14, <1>15 DEF LinkNext

-----------------------------------------------------------------------------
(* The calls, the subscriptions and the announcements on their way. *)

\* The queue q, what is on its way s, what the backend has got g: every call, of
\* those with a number below n, is in one place.
OncePlace(q, s, g, n) ==
  /\ g \in Seq(Nat) /\ IsInjective(g)
  /\ OnceIn(q) /\ OnceIn(s) /\ IdsIn(q) \intersect IdsIn(s) = {}
  /\ (IdsIn(q) \union IdsIn(s)) \intersect Range(g) = {}
  /\ IdsIn(q) \union IdsIn(s) \union Range(g) \subseteq 0 .. n - 1

\* Subscriptions: the last one that is queued is right; when none is and the
\* socket is up (w), so is the last on its way or else what the backend has.
NoSub(s) == \A i \in 1 .. Len(s) : ~IsSub(s[i])
LastSub(s, sc) ==
  \A i \in 1 .. Len(s) :
    IsSub(s[i]) /\ (\A j \in 1 .. Len(s) : j > i => ~IsSub(s[j])) => s[i].scopes = sc
SubsPlace(q, s, b, sc, w) ==
  /\ LastSub(q, sc)
  /\ w = "up" /\ NoSub(q) => LastSub(s, sc) /\ (NoSub(s) => b = sc)

\* Announcements: of a route that was never unregistered nothing but them is on
\* its way, and they go before its calls.
AnnPlace(q, s, b, rs, dr, w) ==
  /\ \A i \in 1 .. Len(q) : q[i].type = "call" /\ q[i].route \notin dr => q[i].route \in rs
  /\ \A i \in 1 .. Len(s), r \in Routes : About(s[i], r) /\ r \notin dr => s[i].type = "routeannounce"
  /\ \A i \in 1 .. Len(s) :
       s[i].type = "call" /\ s[i].route \notin dr =>
         s[i].route \in b \/ \E j \in 1 .. Len(s) : j < i /\ s[j] = Announce(s[i].route)
  /\ w = "up" => \A r \in rs : r \notin dr => r \in b \/ \E i \in 1 .. Len(s) : s[i] = Announce(r)

LEMMA Added ==
  ASSUME NEW S, NEW s \in Seq(S), NEW m \in S, NEW t, t = s \o <<m>>
  PROVE  /\ t \in Seq(S) /\ Len(t) = Len(s) + 1 /\ Len(s) \in Nat /\ t[Len(s) + 1] = m
         /\ \A i \in 1 .. Len(s) : t[i] = s[i] /\ s[i] \in S
         /\ DOMAIN t = 1 .. Len(t) /\ DOMAIN s = 1 .. Len(s)
<1>1. <<m>> \in Seq(S) /\ Len(<<m>>) = 1 /\ <<m>>[1] = m
  OBVIOUS
<1>2. t \in Seq(S) /\ Len(t) = Len(s) + 1 /\ Len(s) \in Nat
  BY <1>1, ConcatProperties
<1>3. \A i \in 1 .. Len(t) : t[i] = IF i <= Len(s) THEN s[i] ELSE <<m>>[i - Len(s)]
  BY <1>1, ConcatProperties
<1>4. t[Len(s) + 1] = m
  BY <1>1, <1>2, <1>3
<1>5. \A i \in 1 .. Len(s) : t[i] = s[i] /\ s[i] \in S
  BY <1>2, <1>3, ElementOfSeq
<1> QED BY <1>2, <1>4, <1>5

LEMMA Rest ==
  ASSUME NEW S, NEW s \in Seq(S), s # <<>>, NEW t, t = Tail(s)
  PROVE  /\ t \in Seq(S) /\ Len(s) = Len(t) + 1 /\ Len(t) \in Nat /\ Head(s) = s[1] /\ s[1] \in S
         /\ \A i \in 1 .. Len(t) : t[i] = s[i + 1] /\ t[i] \in S
         /\ DOMAIN t = 1 .. Len(t) /\ DOMAIN s = 1 .. Len(s)
<1>1. /\ t \in Seq(S) /\ Len(t) = Len(s) - 1 /\ Len(s) \in Nat \ {0} /\ Len(t) \in Nat
      /\ Head(s) = s[1] /\ s[1] \in S
      /\ \A i \in 1 .. Len(t) : t[i] = s[i + 1]
  BY HeadTailProperties, EmptySeq
<1> QED BY <1>1, ElementOfSeq

\* Numbers of calls.
CallId(m) == IF m.type = "call" THEN {m.id} ELSE {}

LEMMA IdsAdded ==
  ASSUME NEW s \in Seq(Message), NEW m \in Message, NEW t, t = s \o <<m>>
  PROVE  /\ IdsIn(t) = IdsIn(s) \union CallId(m)
         /\ OnceIn(s) /\ CallId(m) \intersect IdsIn(s) = {} => OnceIn(t)
<1>1. /\ Len(t) = Len(s) + 1 /\ Len(s) \in Nat /\ t[Len(s) + 1] = m
      /\ \A i \in 1 .. Len(s) : t[i] = s[i]
      /\ DOMAIN t = 1 .. Len(t) /\ DOMAIN s = 1 .. Len(s)
  BY Added
<1>2. \A i \in 1 .. Len(t) : i \in 1 .. Len(s) \/ i = Len(s) + 1
  BY <1>1
<1>3. 1 .. Len(s) \subseteq 1 .. Len(t) /\ Len(s) + 1 \in 1 .. Len(t)
  BY <1>1
<1>4. IdsIn(t) \subseteq IdsIn(s) \union CallId(m)
  BY <1>1, <1>2 DEF IdsIn, CallId
<1>5. IdsIn(s) \union CallId(m) \subseteq IdsIn(t)
  BY <1>1, <1>3 DEF IdsIn, CallId
<1>6. ASSUME OnceIn(s), CallId(m) \intersect IdsIn(s) = {}
      PROVE  OnceIn(t)
  <2>1. ASSUME NEW i \in 1 .. Len(s), s[i].type = "call", m.type = "call" PROVE s[i].id # m.id
    BY <1>1, <1>6, <2>1 DEF IdsIn, CallId
  <2> QED BY <1>1, <1>2, <1>6, <2>1 DEF OnceIn
<1> QED BY <1>4, <1>5, <1>6

LEMMA IdsRest ==
  ASSUME NEW s \in Seq(Message), s # <<>>, NEW t, t = Tail(s)
  PROVE  /\ IdsIn(s) = IdsIn(t) \union CallId(Head(s))
         /\ OnceIn(s) => OnceIn(t) /\ CallId(Head(s)) \intersect IdsIn(t) = {}
<1>1. /\ Len(s) = Len(t) + 1 /\ Len(t) \in Nat /\ Head(s) = s[1]
      /\ \A i \in 1 .. Len(t) : t[i] = s[i + 1]
      /\ DOMAIN t = 1 .. Len(t) /\ DOMAIN s = 1 .. Len(s)
  BY Rest
<1>2. ASSUME NEW i \in 1 .. Len(s), i # 1 PROVE i - 1 \in 1 .. Len(t) /\ t[i - 1] = s[i]
  BY <1>1, <1>2
<1>3. ASSUME NEW i \in 1 .. Len(t) PROVE i + 1 \in 1 .. Len(s) /\ i + 1 # 1
  BY <1>1
<1>4. 1 \in 1 .. Len(s)
  BY <1>1
<1>5. ASSUME NEW x \in IdsIn(s) PROVE x \in IdsIn(t) \union CallId(Head(s))
  <2>1. PICK i \in 1 .. Len(s) : s[i].type = "call" /\ x = s[i].id
    BY <1>1 DEF IdsIn
  <2>2. CASE i = 1
    BY <1>1, <2>1, <2>2 DEF CallId
  <2>3. CASE i # 1
    <3>1. PICK j \in 1 .. Len(t) : t[j] = s[i]
      BY <1>2, <2>3
    <3>2. x \in IdsIn(t)
      BY <1>1, <2>1, <3>1 DEF IdsIn
    <3> QED BY <3>2
  <2> QED BY <2>2, <2>3
<1>6. IdsIn(t) \union CallId(Head(s)) \subseteq IdsIn(s)
  BY <1>1, <1>3, <1>4 DEF IdsIn, CallId
<1>7. ASSUME OnceIn(s) PROVE OnceIn(t)
  <2>1. ASSUME NEW i \in 1 .. Len(t), NEW j \in 1 .. Len(t),
               t[i].type = "call", t[j].type = "call", t[i].id = t[j].id
        PROVE  i = j
    <3>1. i + 1 = j + 1
      BY <1>1, <1>3, <1>7, <2>1 DEF OnceIn
    <3> QED BY <1>1, <3>1
  <2> QED BY <1>1, <2>1 DEF OnceIn
<1>8. ASSUME OnceIn(s) PROVE CallId(Head(s)) \intersect IdsIn(t) = {}
  <2>1. ASSUME NEW i \in 1 .. Len(t), t[i].type = "call", s[1].type = "call" PROVE t[i].id # s[1].id
    BY <1>1, <1>3, <1>4, <1>8, <2>1 DEF OnceIn
  <2> QED BY <1>1, <2>1 DEF IdsIn, CallId
<1> QED BY <1>5, <1>6, <1>7, <1>8

\* A prefix of what was sent, as a broken socket leaves it.
LEMMA Prefix ==
  ASSUME NEW s \in Seq(Message), NEW n \in 0 .. Len(s), NEW t, t = SubSeq(s, 1, n)
  PROVE  /\ t \in Seq(Message) /\ Len(t) = n /\ n <= Len(s) /\ \A i \in 1 .. n : t[i] = s[i]
         /\ DOMAIN t = 1 .. Len(t) /\ DOMAIN s = 1 .. Len(s)
<1>1. Len(s) \in Nat /\ \A i \in 1 .. Len(s) : s[i] \in Message
  BY ElementOfSeq
<1>2. n \in Int /\ 1 \in Int /\ \A i \in 1 .. n : s[i] \in Message
  BY <1>1
<1>3. /\ SubSeq(s, 1, n) \in Seq(Message) /\ Len(SubSeq(s, 1, n)) = IF 1 <= n THEN n - 1 + 1 ELSE 0
      /\ \A i \in 1 .. n - 1 + 1 : SubSeq(s, 1, n)[i] = s[1 + i - 1]
  BY ONLY <1>2, SubSeqProperties
<1> QED BY <1>1, <1>3

LEMMA IdsPrefix ==
  ASSUME NEW s \in Seq(Message), NEW n \in 0 .. Len(s), NEW t, t = SubSeq(s, 1, n)
  PROVE  IdsIn(t) \subseteq IdsIn(s) /\ (OnceIn(s) => OnceIn(t))
<1>1. /\ Len(t) = n /\ 1 .. n \subseteq 1 .. Len(s) /\ \A i \in 1 .. n : t[i] = s[i]
      /\ DOMAIN t = 1 .. n /\ DOMAIN s = 1 .. Len(s)
  <2>1. /\ Len(t) = n /\ n <= Len(s) /\ \A i \in 1 .. n : t[i] = s[i]
        /\ DOMAIN t = 1 .. Len(t) /\ DOMAIN s = 1 .. Len(s)
    BY Prefix
  <2>2. Len(s) \in Nat
    OBVIOUS
  <2> QED BY <2>1, <2>2
<1> QED BY <1>1 DEF IdsIn, OnceIn

\* Subscriptions.
LEMMA SubAdded ==
  ASSUME NEW s \in Seq(Message), NEW m \in Message, NEW t, t = s \o <<m>>, NEW sc
  PROVE  /\ IsSub(m) => ~NoSub(t) /\ (LastSub(t, sc) <=> m.scopes = sc)
         /\ ~IsSub(m) => (NoSub(t) <=> NoSub(s)) /\ (LastSub(t, sc) <=> LastSub(s, sc))
<1>1. /\ Len(t) = Len(s) + 1 /\ Len(s) \in Nat /\ t[Len(s) + 1] = m
      /\ \A i \in 1 .. Len(s) : t[i] = s[i]
  BY Added
<1>2. /\ \A i \in 1 .. Len(t) : i \in 1 .. Len(s) \/ i = Len(s) + 1
      /\ \A i \in 1 .. Len(s) : i \in 1 .. Len(t) /\ Len(s) + 1 > i /\ ~(i > Len(s) + 1)
      /\ Len(s) + 1 \in 1 .. Len(t) /\ ~(Len(s) + 1 > Len(s) + 1)
  BY <1>1
<1>3. CASE IsSub(m)
  BY <1>1, <1>2, <1>3 DEF NoSub, LastSub
<1>4. CASE ~IsSub(m)
  <2>1. NoSub(t) <=> NoSub(s)
    BY <1>1, <1>2, <1>4 DEF NoSub
  <2>2. LastSub(t, sc) <=> LastSub(s, sc)
    BY <1>1, <1>2, <1>4 DEF LastSub
  <2> QED BY <1>4, <2>1, <2>2
<1> QED BY <1>3, <1>4

LEMMA SubRest ==
  ASSUME NEW s \in Seq(Message), s # <<>>, NEW t, t = Tail(s), NEW sc
  PROVE  /\ LastSub(s, sc) => LastSub(t, sc)
         /\ NoSub(t) => /\ IsSub(Head(s)) /\ LastSub(s, sc) => Head(s).scopes = sc
                        /\ NoSub(s) <=> ~IsSub(Head(s))
         /\ ~NoSub(t) => ~NoSub(s)
<1>1. /\ Len(s) = Len(t) + 1 /\ Len(t) \in Nat /\ Head(s) = s[1]
      /\ \A i \in 1 .. Len(t) : t[i] = s[i + 1]
  BY Rest
<1>2. /\ \A i \in 1 .. Len(t) : i + 1 \in 1 .. Len(s)
      /\ 1 \in 1 .. Len(s)
  BY <1>1
<1>3. ASSUME NEW i \in 1 .. Len(s), i # 1 PROVE i - 1 \in 1 .. Len(t) /\ t[i - 1] = s[i] /\ (i - 1) + 1 = i
  BY <1>1, <1>3
<1>4. ASSUME LastSub(s, sc), NEW i \in 1 .. Len(t), IsSub(t[i]),
             \A j \in 1 .. Len(t) : j > i => ~IsSub(t[j])
      PROVE  t[i].scopes = sc
  <2>1. ASSUME NEW j \in 1 .. Len(s), j > i + 1 PROVE ~IsSub(s[j])
    <3>1. j # 1 /\ j - 1 > i
      BY <1>1, <2>1
    <3> QED BY <1>3, <1>4, <3>1
  <2> QED BY <1>1, <1>2, <1>4, <2>1 DEF LastSub
<1>5. ASSUME NoSub(t), NEW i \in 1 .. Len(s), IsSub(s[i]) PROVE i = 1
  BY <1>3, <1>5 DEF NoSub
<1>6. ASSUME NoSub(t), IsSub(Head(s)), LastSub(s, sc) PROVE Head(s).scopes = sc
  <2>1. ASSUME NEW j \in 1 .. Len(s), j > 1 PROVE ~IsSub(s[j])
    BY <1>5, <1>6, <2>1
  <2> QED BY <1>1, <1>2, <1>6, <2>1 DEF LastSub
<1>7. ASSUME NoSub(t) PROVE NoSub(s) <=> ~IsSub(Head(s))
  BY <1>1, <1>2, <1>5, <1>7 DEF NoSub
<1>8. ASSUME ~NoSub(t) PROVE ~NoSub(s)
  BY <1>1, <1>2, <1>8 DEF NoSub
<1> QED BY <1>4, <1>6, <1>7, <1>8 DEF LastSub

\* A message of the queue is sent.
LEMMA HeadSent ==
  ASSUME NEW q \in Seq(QueuedMessage), q # <<>>, NEW s \in Seq(Message),
         NEW t, t = s \o <<Head(q)>>
  PROVE  /\ t \in Seq(Message)
         /\ \A g, n : OncePlace(q, s, g, n) => OncePlace(Tail(q), t, g, n)
         /\ \A b, sc : SubsPlace(q, s, b, sc, "up") => SubsPlace(Tail(q), t, b, sc, "up")
         /\ \A b, rs, dr : AnnPlace(q, s, b, rs, dr, "up") => AnnPlace(Tail(q), t, b, rs, dr, "up")
<1>1. PICK m : m = Head(q)
  OBVIOUS
<1>2. PICK r : r = Tail(q)
  OBVIOUS
<1>3. m \in QueuedMessage /\ m \in Message /\ r \in Seq(QueuedMessage) /\ q \in Seq(Message) /\ r \in Seq(Message)
  BY <1>1, <1>2, HeadTailProperties, SeqMonotonic DEF Message
<1>4. t = s \o <<m>> /\ t \in Seq(Message)
  BY <1>1, <1>3, Added
<1>5. ASSUME NEW g, NEW n, OncePlace(q, s, g, n) PROVE OncePlace(r, t, g, n)
  <2>1. IdsIn(q) = IdsIn(r) \union CallId(m) /\ OnceIn(r) /\ CallId(m) \intersect IdsIn(r) = {}
    BY <1>1, <1>2, <1>3, <1>5, IdsRest DEF OncePlace
  <2>2. IdsIn(t) = IdsIn(s) \union CallId(m) /\ OnceIn(t)
    <3>1. OnceIn(s) /\ IdsIn(q) \intersect IdsIn(s) = {}
      BY <1>5 DEF OncePlace
    <3>2. CallId(m) \intersect IdsIn(s) = {}
      BY <2>1, <3>1
    <3> QED BY <1>3, <1>4, <3>1, <3>2, IdsAdded
  <2> QED BY <1>5, <2>1, <2>2 DEF OncePlace
<1>6. ASSUME NEW b, NEW sc, SubsPlace(q, s, b, sc, "up") PROVE SubsPlace(r, t, b, sc, "up")
  <2>1. /\ LastSub(q, sc) => LastSub(r, sc)
        /\ NoSub(r) => /\ IsSub(m) /\ LastSub(q, sc) => m.scopes = sc
                       /\ NoSub(q) <=> ~IsSub(m)
    BY <1>1, <1>2, <1>3, SubRest
  <2>2. /\ IsSub(m) => ~NoSub(t) /\ (LastSub(t, sc) <=> m.scopes = sc)
        /\ ~IsSub(m) => (NoSub(t) <=> NoSub(s)) /\ (LastSub(t, sc) <=> LastSub(s, sc))
    BY <1>3, <1>4, SubAdded
  <2> QED BY <1>6, <2>1, <2>2 DEF SubsPlace
<1>7. ASSUME NEW b, NEW rs, NEW dr, AnnPlace(q, s, b, rs, dr, "up") PROVE AnnPlace(r, t, b, rs, dr, "up")
  <2>1. /\ Len(t) = Len(s) + 1 /\ Len(s) \in Nat /\ t[Len(s) + 1] = m
        /\ \A i \in 1 .. Len(s) : t[i] = s[i]
    BY <1>3, <1>4, Added
  <2>2. /\ \A i \in 1 .. Len(t) : i \in 1 .. Len(s) \/ i = Len(s) + 1
        /\ \A i \in 1 .. Len(s) : i \in 1 .. Len(t) /\ i < Len(s) + 1
    BY <2>1
  <2>3. /\ Len(q) = Len(r) + 1 /\ Len(r) \in Nat /\ m = q[1]
        /\ \A i \in 1 .. Len(r) : r[i] = q[i + 1]
    BY <1>1, <1>2, Rest
  <2>4. /\ \A i \in 1 .. Len(r) : i + 1 \in 1 .. Len(q)
        /\ 1 \in 1 .. Len(q)
    BY <2>3
  <2>5. \A i \in 1 .. Len(r) : r[i].type = "call" /\ r[i].route \notin dr => r[i].route \in rs
    BY <1>7, <2>3, <2>4 DEF AnnPlace
  <2>6. m.type = "call" /\ m.route \notin dr => m.route \in rs
    BY <1>7, <2>3, <2>4 DEF AnnPlace
  <2>7. \A i \in 1 .. Len(t), c \in Routes : About(t[i], c) /\ c \notin dr => t[i].type = "routeannounce"
    BY <1>3, <1>7, <2>1, <2>2, MessageKinds DEF AnnPlace
  <2>8. \A c \in rs : c \notin dr => c \in b \/ \E i \in 1 .. Len(s) : s[i] = Announce(c)
    BY <1>7 DEF AnnPlace
  <2>9. ASSUME NEW i \in 1 .. Len(t), t[i].type = "call", t[i].route \notin dr, t[i].route \notin b
        PROVE  \E j \in 1 .. Len(t) : j < i /\ t[j] = Announce(t[i].route)
    <3>1. CASE i \in 1 .. Len(s)
      <4>1. PICK j \in 1 .. Len(s) : j < i /\ s[j] = Announce(s[i].route)
        BY <1>7, <2>1, <2>9, <3>1 DEF AnnPlace
      <4> QED BY <2>1, <2>2, <3>1, <4>1
    <3>2. CASE i = Len(s) + 1
      <4>1. PICK j \in 1 .. Len(s) : s[j] = Announce(m.route)
        BY <2>1, <2>6, <2>8, <2>9, <3>2
      <4> QED BY <2>1, <2>2, <3>2, <4>1
    <3> QED BY <2>2, <3>1, <3>2
  <2>10. \A c \in rs : c \notin dr => c \in b \/ \E i \in 1 .. Len(t) : t[i] = Announce(c)
    BY <2>1, <2>2, <2>8
  <2> QED BY <2>5, <2>7, <2>9, <2>10 DEF AnnPlace
<1> QED BY <1>2, <1>4, <1>5, <1>6, <1>7

\* A message of the queue is lost: the page has not noticed that the socket broke.
LEMMA HeadLost ==
  ASSUME NEW q \in Seq(QueuedMessage), q # <<>>, NEW s, NEW w, w # "up"
  PROVE  /\ \A g, n : OncePlace(q, s, g, n) => OncePlace(Tail(q), s, g, n)
         /\ \A b, sc : SubsPlace(q, s, b, sc, w) => SubsPlace(Tail(q), s, b, sc, w)
         /\ \A b, rs, dr : AnnPlace(q, s, b, rs, dr, w) => AnnPlace(Tail(q), s, b, rs, dr, w)
<1>1. PICK r : r = Tail(q)
  OBVIOUS
<1>2. q \in Seq(Message)
  BY SeqMonotonic DEF Message
<1>3. IdsIn(r) \subseteq IdsIn(q) /\ (OnceIn(q) => OnceIn(r))
  <2>1. IdsIn(q) = IdsIn(r) \union CallId(Head(q)) /\ (OnceIn(q) => OnceIn(r))
    BY ONLY <1>1, <1>2, q # <<>>, IdsRest
  <2> QED BY ONLY <2>1
<1>4. \A sc : LastSub(q, sc) => LastSub(r, sc)
  BY <1>1, <1>2, SubRest
<1>5. \A i \in 1 .. Len(r) : i + 1 \in 1 .. Len(q) /\ r[i] = q[i + 1]
  BY <1>1, Rest
<1>6. \A g, n : OncePlace(q, s, g, n) => OncePlace(r, s, g, n)
  BY <1>3 DEF OncePlace
<1>7. \A b, sc : SubsPlace(q, s, b, sc, w) => SubsPlace(r, s, b, sc, w)
  BY <1>4 DEF SubsPlace
<1>8. \A b, rs, dr : AnnPlace(q, s, b, rs, dr, w) => AnnPlace(r, s, b, rs, dr, w)
  BY <1>5 DEF AnnPlace
<1> QED BY <1>1, <1>6, <1>7, <1>8

\* What a sent message leaves: rs and dr become rs2 and dr2.
LEMMA AnnSent ==
  ASSUME NEW q, NEW s \in Seq(Message), NEW m \in Message, NEW t, t = s \o <<m>>,
         NEW b, NEW rs, NEW dr, NEW rs2, NEW dr2, AnnPlace(q, s, b, rs, dr, "up"),
         dr \subseteq dr2, \A c \in rs : c \notin dr2 => c \in rs2,
         \A c \in rs2 : c \in rs \/ m = Announce(c),
         m.type = "routeunannounce" => m.route \in dr2,
         m.type = "call" /\ m.route \notin dr2 => m.route \in rs
  PROVE  AnnPlace(q, t, b, rs2, dr2, "up")
<1>1. /\ Len(t) = Len(s) + 1 /\ Len(s) \in Nat /\ t[Len(s) + 1] = m
      /\ \A i \in 1 .. Len(s) : t[i] = s[i]
  BY Added
<1>2. /\ \A i \in 1 .. Len(t) : i \in 1 .. Len(s) \/ i = Len(s) + 1
      /\ \A i \in 1 .. Len(s) : i \in 1 .. Len(t) /\ i < Len(s) + 1
      /\ Len(s) + 1 \in 1 .. Len(t)
  BY <1>1
<1>3. \A i \in 1 .. Len(q) : q[i].type = "call" /\ q[i].route \notin dr2 => q[i].route \in rs2
  BY DEF AnnPlace
<1>4. ASSUME NEW i \in 1 .. Len(t), NEW c \in Routes, About(t[i], c), c \notin dr2
      PROVE  t[i].type = "routeannounce"
  <2>1. CASE i \in 1 .. Len(s)
    BY <1>1, <1>4, <2>1 DEF AnnPlace
  <2>2. CASE i = Len(s) + 1
    BY <1>1, <1>4, <2>2 DEF About, RouteTypes
  <2> QED BY <1>2, <2>1, <2>2
<1>5. ASSUME NEW i \in 1 .. Len(t), t[i].type = "call", t[i].route \notin dr2, t[i].route \notin b
      PROVE  \E j \in 1 .. Len(t) : j < i /\ t[j] = Announce(t[i].route)
  <2>1. CASE i \in 1 .. Len(s)
    <3>1. PICK j \in 1 .. Len(s) : j < i /\ s[j] = Announce(s[i].route)
      BY <1>1, <1>5, <2>1 DEF AnnPlace
    <3> QED BY <1>1, <1>2, <2>1, <3>1
  <2>2. CASE i = Len(s) + 1
    <3>1. m.route \in rs /\ m.route \notin dr /\ m.route \notin b
      BY <1>1, <1>5, <2>2
    <3>2. PICK j \in 1 .. Len(s) : s[j] = Announce(m.route)
      BY <3>1 DEF AnnPlace
    <3> QED BY <1>1, <1>2, <2>2, <3>2
  <2> QED BY <1>2, <2>1, <2>2
<1>6. ASSUME NEW c \in rs2, c \notin dr2, c \notin b
      PROVE  \E i \in 1 .. Len(t) : t[i] = Announce(c)
  <2>1. CASE c \in rs
    <3>1. PICK j \in 1 .. Len(s) : s[j] = Announce(c)
      BY <1>6, <2>1 DEF AnnPlace
    <3> QED BY <1>1, <1>2, <3>1
  <2>2. CASE m = Announce(c)
    BY <1>1, <1>2, <2>2
  <2> QED BY <1>6, <2>1, <2>2
<1> QED BY <1>3, <1>4, <1>5, <1>6 DEF AnnPlace

\* The same of a message that is lost or queued.
LEMMA AnnUnsent ==
  ASSUME NEW q \in Seq(QueuedMessage), NEW s, NEW m \in Message, NEW p, p = q \/ p = Append(q, m),
         NEW b, NEW rs, NEW dr, NEW rs2, NEW dr2, NEW w, w # "up", AnnPlace(q, s, b, rs, dr, w),
         dr \subseteq dr2, \A c \in rs : c \notin dr2 => c \in rs2,
         m.type = "call" /\ m.route \notin dr2 => m.route \in rs2
  PROVE  AnnPlace(p, s, b, rs2, dr2, w)
<1>1. \A i \in 1 .. Len(q) : q[i].type = "call" /\ q[i].route \notin dr2 => q[i].route \in rs2
  BY DEF AnnPlace
<1>2. \A i \in 1 .. Len(p) : p[i].type = "call" /\ p[i].route \notin dr2 => p[i].route \in rs2
  <2>1. CASE p = q
    BY <1>1, <2>1
  <2>2. CASE p = Append(q, m)
    <3>1. /\ Len(p) = Len(q) + 1 /\ Len(q) \in Nat /\ p[Len(q) + 1] = m
          /\ \A i \in 1 .. Len(q) : p[i] = q[i]
      BY <2>2, AppendProperties
    <3> QED BY <1>1, <3>1
  <2> QED BY <2>1, <2>2
<1> QED BY <1>2 DEF AnnPlace

\* The backend reads the next message.
LEMMA AnnRead ==
  ASSUME NEW q, NEW s \in Seq(Message), s # <<>>, NEW b, NEW rs \in SUBSET Routes, NEW dr, NEW w,
         AnnPlace(q, s, b, rs, dr, w)
  PROVE  AnnPlace(q, Tail(s), After(b, Head(s)), rs, dr, w)
<1>1. PICK t : t = Tail(s)
  OBVIOUS
<1>2. PICK new : new = After(b, Head(s))
  OBVIOUS
<1>3. /\ t \in Seq(Message) /\ Len(s) = Len(t) + 1 /\ Len(t) \in Nat /\ Head(s) = s[1] /\ s[1] \in Message
      /\ \A i \in 1 .. Len(t) : t[i] = s[i + 1] /\ t[i] \in Message
  BY <1>1, Rest
<1>4. /\ \A i \in 1 .. Len(t) : i + 1 \in 1 .. Len(s) /\ i + 1 # 1
      /\ 1 \in 1 .. Len(s)
  BY <1>3
<1>5. ASSUME NEW j \in 1 .. Len(s), j # 1 PROVE j - 1 \in 1 .. Len(t) /\ t[j - 1] = s[j]
  BY <1>3, <1>5
<1>6. ASSUME NEW c \in Routes, c \notin dr, c \in b \/ s[1] = Announce(c) PROVE c \in new
  <2>1. About(s[1], c) => s[1].type = "routeannounce"
    BY <1>4, <1>6 DEF AnnPlace
  <2>2. s[1].type = "routeunannounce" => s[1].route # c
    BY <2>1 DEF About, RouteTypes
  <2>3. s[1] = Announce(c) => s[1].type = "routeannounce" /\ s[1].route = c
    BY DEF Announce
  <2> QED BY <1>2, <1>3, <1>6, <2>2, <2>3 DEF After
<1>7. \A i \in 1 .. Len(t), c \in Routes : About(t[i], c) /\ c \notin dr => t[i].type = "routeannounce"
  BY <1>3, <1>4 DEF AnnPlace
<1>8. ASSUME NEW i \in 1 .. Len(t), t[i].type = "call", t[i].route \notin dr, t[i].route \notin new
      PROVE  \E j \in 1 .. Len(t) : j < i /\ t[j] = Announce(t[i].route)
  <2>1. t[i].route \in Routes
    BY <1>3, <1>8 DEF Message, RouteMessage, QueuedMessage, RouteTypes
  <2>2. t[i].route \notin b /\ s[1] # Announce(t[i].route)
    BY <1>6, <1>8, <2>1
  <2>3. PICK j \in 1 .. Len(s) : j < i + 1 /\ s[j] = Announce(t[i].route)
    BY <1>3, <1>4, <1>8, <2>2 DEF AnnPlace
  <2>4. j # 1 /\ j - 1 < i
    BY <1>3, <2>2, <2>3
  <2> QED BY <1>5, <2>3, <2>4
<1>9. ASSUME w = "up", NEW c \in rs, c \notin dr, c \notin new
      PROVE  \E i \in 1 .. Len(t) : t[i] = Announce(c)
  <2>1. c \notin b /\ s[1] # Announce(c)
    BY <1>6, <1>9
  <2>2. PICK j \in 1 .. Len(s) : s[j] = Announce(c)
    BY <1>9, <2>1 DEF AnnPlace
  <2> QED BY <1>5, <2>1, <2>2
<1>10. AnnPlace(q, t, new, rs, dr, w)
  BY <1>7, <1>8, <1>9 DEF AnnPlace
<1> QED BY <1>1, <1>2, <1>10

LEMMA OnceRead ==
  ASSUME NEW q, NEW s \in Seq(Message), s # <<>>, NEW g, NEW n, OncePlace(q, s, g, n),
         NEW h, h = IF Head(s).type = "call" THEN Append(g, Head(s).id) ELSE g
  PROVE  OncePlace(q, Tail(s), h, n)
<1>1. PICK t : t = Tail(s)
  OBVIOUS
<1>2. PICK m : m = Head(s)
  OBVIOUS
<1>3. m \in Message
  BY <1>2, HeadTailProperties
<1>4. IdsIn(s) = IdsIn(t) \union CallId(m) /\ OnceIn(t) /\ CallId(m) \intersect IdsIn(t) = {}
  BY <1>1, <1>2, IdsRest DEF OncePlace
<1>5. g \in Seq(Nat) /\ DOMAIN g = 1 .. Len(g) /\ Len(g) \in Nat
  BY DEF OncePlace
<1>6. CASE m.type = "call"
  <2>1. PICK id \in Nat : id = m.id
    BY <1>3, <1>6 DEF Message, RouteMessage, QueuedMessage, RouteTypes
  <2>2. h = Append(g, id) /\ CallId(m) = {id}
    BY <1>2, <1>6, <2>1 DEF CallId
  <2>3. /\ h \in Seq(Nat) /\ Len(h) = Len(g) + 1 /\ h[Len(g) + 1] = id
        /\ \A i \in 1 .. Len(g) : h[i] = g[i]
    BY <1>5, <2>2, AppendProperties
  <2>4. DOMAIN h = 1 .. Len(h) /\ \A i \in 1 .. Len(h) : i \in 1 .. Len(g) \/ i = Len(g) + 1
    BY <1>5, <2>3
  <2>5. id \notin Range(g)
    BY <1>4, <2>2 DEF OncePlace
  <2>6. \A i \in 1 .. Len(g) : g[i] # id
    BY <1>5, <2>5 DEF Range
  <2>7. IsInjective(g)
    BY DEF OncePlace
  <2>8. IsInjective(h)
    BY <1>5, <2>3, <2>4, <2>6, <2>7 DEF IsInjective
  <2>9. Range(h) \subseteq Range(g) \union {id}
    BY <1>5, <2>3, <2>4 DEF Range
  <2>10. OncePlace(q, t, h, n)
    BY <1>4, <2>2, <2>3, <2>8, <2>9 DEF OncePlace
  <2> QED BY <1>1, <2>10
<1>7. CASE m.type # "call"
  <2>1. h = g /\ CallId(m) = {}
    BY <1>2, <1>7 DEF CallId
  <2>2. OncePlace(q, t, h, n)
    BY <1>4, <2>1 DEF OncePlace
  <2> QED BY <1>1, <2>2
<1> QED BY <1>6, <1>7

LEMMA SubsRead ==
  ASSUME NEW q, NEW s \in Seq(Message), s # <<>>, NEW b, NEW sc, NEW w, SubsPlace(q, s, b, sc, w),
         NEW d, d = IF IsSub(Head(s)) THEN Head(s).scopes ELSE b
  PROVE  SubsPlace(q, Tail(s), d, sc, w)
<1>1. PICK t : t = Tail(s)
  OBVIOUS
<1>2. PICK m : m = Head(s)
  OBVIOUS
<1>3. /\ LastSub(s, sc) => LastSub(t, sc)
      /\ NoSub(t) => /\ IsSub(m) /\ LastSub(s, sc) => m.scopes = sc
                     /\ NoSub(s) <=> ~IsSub(m)
  BY <1>1, <1>2, SubRest
<1>4. SubsPlace(q, t, d, sc, w)
  BY <1>2, <1>3 DEF SubsPlace
<1> QED BY <1>1, <1>4

\* No call and no subscription is on its way where nothing is.
LEMMA Emptied ==
  ASSUME NEW q, NEW s, NEW w, w # "up"
  PROVE  /\ \A g, n : OncePlace(q, s, g, n) => OncePlace(q, <<>>, g, n)
         /\ \A b, c, sc, v : SubsPlace(q, s, b, sc, v) => SubsPlace(q, <<>>, c, sc, w)
         /\ \A b, c, rs, dr, v : AnnPlace(q, s, b, rs, dr, v) => AnnPlace(q, <<>>, c, rs, dr, w)
<1>1. DOMAIN <<>> = {} /\ Len(<<>>) = 0 /\ 1 .. 0 = {}
  BY EmptySeq, LenProperties
<1>2. IdsIn(<<>>) = {} /\ OnceIn(<<>>)
  BY <1>1 DEF IdsIn, OnceIn
<1>3. ASSUME NEW g, NEW n, OncePlace(q, s, g, n) PROVE OncePlace(q, <<>>, g, n)
  BY <1>2, <1>3 DEF OncePlace
<1>4. ASSUME NEW b, NEW c, NEW sc, NEW v, SubsPlace(q, s, b, sc, v) PROVE SubsPlace(q, <<>>, c, sc, w)
  BY <1>4 DEF SubsPlace
<1>5. ASSUME NEW b, NEW c, NEW rs, NEW dr, NEW v, AnnPlace(q, s, b, rs, dr, v)
      PROVE  AnnPlace(q, <<>>, c, rs, dr, w)
  BY <1>1, <1>5 DEF AnnPlace
<1> QED BY <1>3, <1>4, <1>5

\* A socket that is not up any more leaves what was sent, or a part of it.
Cut(s, t) == \E n \in 0 .. Len(s) : t = SubSeq(s, 1, n)

LEMMA Broken ==
  ASSUME NEW q, NEW s \in Seq(Message), NEW t, Cut(s, t), NEW w, w # "up"
  PROVE  /\ \A g, k : OncePlace(q, s, g, k) => OncePlace(q, t, g, k)
         /\ \A b, sc, v : SubsPlace(q, s, b, sc, v) => SubsPlace(q, t, b, sc, w)
         /\ \A b, rs, dr, v : AnnPlace(q, s, b, rs, dr, v) => AnnPlace(q, t, b, rs, dr, w)
<1>0. PICK n \in 0 .. Len(s) : t = SubSeq(s, 1, n)
  BY DEF Cut
<1>1. IdsIn(t) \subseteq IdsIn(s) /\ (OnceIn(s) => OnceIn(t))
  BY <1>0, IdsPrefix
<1>2. Len(t) = n /\ \A i \in 1 .. Len(t) : i \in 1 .. Len(s) /\ t[i] = s[i]
  <2>1. Len(t) = n /\ n <= Len(s) /\ \A i \in 1 .. n : t[i] = s[i]
    BY <1>0, Prefix
  <2>2. Len(s) \in Nat
    OBVIOUS
  <2> QED BY <2>1, <2>2
<1>3. ASSUME NEW g, NEW k, OncePlace(q, s, g, k) PROVE OncePlace(q, t, g, k)
  BY <1>1, <1>3 DEF OncePlace
<1>4. ASSUME NEW b, NEW sc, NEW v, SubsPlace(q, s, b, sc, v) PROVE SubsPlace(q, t, b, sc, w)
  BY <1>4 DEF SubsPlace
<1>5. ASSUME NEW b, NEW rs, NEW dr, NEW v, AnnPlace(q, s, b, rs, dr, v)
      PROVE  AnnPlace(q, t, b, rs, dr, w)
  <2>1. \A i \in 1 .. Len(q) : q[i].type = "call" /\ q[i].route \notin dr => q[i].route \in rs
    BY <1>5 DEF AnnPlace
  <2>2. \A i \in 1 .. Len(t), r \in Routes : About(t[i], r) /\ r \notin dr => t[i].type = "routeannounce"
    BY <1>2, <1>5 DEF AnnPlace
  <2>3. ASSUME NEW i \in 1 .. Len(t), t[i].type = "call", t[i].route \notin dr, t[i].route \notin b
        PROVE  \E j \in 1 .. Len(t) : j < i /\ t[j] = Announce(t[i].route)
    <3>1. PICK j \in 1 .. Len(s) : j < i /\ s[j] = Announce(s[i].route)
      BY <1>2, <1>5, <2>3 DEF AnnPlace
    <3>2. j \in 1 .. Len(t)
      BY <1>2, <3>1
    <3> QED BY <1>2, <3>1, <3>2
  <2> QED BY <2>1, <2>2, <2>3 DEF AnnPlace
<1> QED BY <1>3, <1>4, <1>5

\* What stays the same when the socket is not up any more.
LEMMA NotUp ==
  ASSUME NEW q, NEW s, NEW w, w # "up"
  PROVE  /\ \A b, sc, v : SubsPlace(q, s, b, sc, v) => SubsPlace(q, s, b, sc, w)
         /\ \A b, rs, dr, v : AnnPlace(q, s, b, rs, dr, v) => AnnPlace(q, s, b, rs, dr, w)
<1>1. ASSUME NEW b, NEW sc, NEW v, SubsPlace(q, s, b, sc, v) PROVE SubsPlace(q, s, b, sc, w)
  BY <1>1 DEF SubsPlace
<1>2. ASSUME NEW b, NEW rs, NEW dr, NEW v, AnnPlace(q, s, b, rs, dr, v) PROVE AnnPlace(q, s, b, rs, dr, w)
  BY <1>2 DEF AnnPlace
<1> QED BY <1>1, <1>2

\* On a new connection the announcements and then the subscription go first.
LEMMA Opened ==
  ASSUME IsFiniteSet(Routes), NEW rs \in SUBSET Routes, NEW ss \in SUBSET Subscribers,
         NEW u, u = IF ss = {} THEN <<>> ELSE <<updateWaveEventSub(ss)>>,
         NEW t, t = SetToSeq({Announce(r) : r \in rs}) \o u,
         NEW q, NEW b, NEW v, NEW w
  PROVE  /\ t \in Seq(Message)
         /\ \A g, n : OncePlace(q, <<>>, g, n) => OncePlace(q, t, g, n)
         /\ SubsPlace(q, <<>>, b, Scopes(ss), v) => SubsPlace(q, t, {}, Scopes(ss), w)
         /\ \A dr : AnnPlace(q, <<>>, b, rs, dr, v) => AnnPlace(q, t, {}, rs, dr, w)
<1>1. PICK S : S = {Announce(r) : r \in rs}
  OBVIOUS
<1>2. PICK a : a = SetToSeq(S)
  OBVIOUS
<1>3. IsFiniteSet(S)
  BY <1>1, AnnouncementsFinite
<1>4. a \in Seq(S) /\ \A x \in S : \E i \in 1 .. Len(a) : a[i] = x
  BY <1>2, <1>3, SetAsSequence
<1>5. \A x \in S : x \in Message /\ x.type = "routeannounce" /\ \E r \in rs : x = Announce(r)
  BY <1>1 DEF Announce, Message, RouteMessage, RouteTypes
<1>6. a \in Seq(Message) /\ Len(a) \in Nat /\ \A i \in 1 .. Len(a) : a[i] \in S
  <2>1. S \subseteq Message
    BY <1>5
  <2> QED BY <1>4, <2>1, SeqMonotonic, ElementOfSeq, LenProperties
<1>7. u \in Seq(Message) /\ Len(u) = IF ss = {} THEN 0 ELSE 1
  <2>1. updateWaveEventSub(ss) \in Message
    BY DEF updateWaveEventSub, Scopes, Message, QueuedMessage
  <2> QED BY <2>1
<1>8. ss # {} => u[1].type = "eventsub" /\ u[1].scopes = Scopes(ss)
  BY DEF updateWaveEventSub
<1>9. t = a \o u
  BY <1>1, <1>2
<1>10. /\ t \in Seq(Message) /\ Len(t) = Len(a) + Len(u) /\ DOMAIN t = 1 .. Len(t)
       /\ \A i \in 1 .. Len(t) : t[i] = IF i <= Len(a) THEN a[i] ELSE u[i - Len(a)]
  <2>1. Len(u) \in Nat
    BY <1>7
  <2>2. t \in Seq(Message) /\ Len(t) = Len(a) + Len(u)
    BY ONLY <1>6, <1>7, <1>9, ConcatProperties
  <2>3. \A i \in 1 .. Len(a) + Len(u) : t[i] = IF i <= Len(a) THEN a[i] ELSE u[i - Len(a)]
    BY ONLY <1>6, <1>7, <1>9, ConcatProperties
  <2> QED BY ONLY <2>1, <2>2, <2>3, LenProperties
<1>11. ASSUME NEW i \in 1 .. Len(t)
       PROVE  \/ i \in 1 .. Len(a) /\ t[i] = a[i] /\ t[i].type = "routeannounce"
              \/ ss # {} /\ i = Len(a) + 1 /\ t[i].type = "eventsub" /\ t[i].scopes = Scopes(ss)
  <2>1. CASE i <= Len(a)
    BY <2>1, <1>5, <1>6, <1>10
  <2>2. CASE ~(i <= Len(a))
    <3>1. ss # {} /\ i = Len(a) + 1 /\ t[i] = u[1]
      BY <2>2, <1>6, <1>7, <1>10
    <3> QED BY <3>1, <1>8
  <2> QED BY <2>1, <2>2
<1>12. IdsIn(t) = {} /\ OnceIn(t)
  <2>1. \A i \in 1 .. Len(t) : t[i].type # "call"
    BY ONLY <1>11
  <2>2. DOMAIN t = 1 .. Len(t)
    BY <1>10
  <2> QED BY ONLY <2>1, <2>2 DEF IdsIn, OnceIn
<1>13. ASSUME NEW g, NEW n, OncePlace(q, <<>>, g, n) PROVE OncePlace(q, t, g, n)
  BY <1>12, <1>13 DEF OncePlace
<1>14. ASSUME SubsPlace(q, <<>>, b, Scopes(ss), v) PROVE SubsPlace(q, t, {}, Scopes(ss), w)
  <2>1. LastSub(t, Scopes(ss))
    BY <1>11 DEF LastSub, IsSub
  <2>2. ss # {} => ~NoSub(t)
    BY <1>6, <1>7, <1>8, <1>10 DEF NoSub, IsSub
  <2>3. ss = {} => Scopes(ss) = {}
    BY DEF Scopes
  <2> QED BY <1>14, <2>1, <2>2, <2>3 DEF SubsPlace
<1>15. ASSUME NEW dr, AnnPlace(q, <<>>, b, rs, dr, v) PROVE AnnPlace(q, t, {}, rs, dr, w)
  <2>1. \A i \in 1 .. Len(q) : q[i].type = "call" /\ q[i].route \notin dr => q[i].route \in rs
    BY <1>15 DEF AnnPlace
  <2>2. \A i \in 1 .. Len(t), r \in Routes : About(t[i], r) /\ r \notin dr => t[i].type = "routeannounce"
    BY <1>11 DEF About, RouteTypes
  <2>3. \A i \in 1 .. Len(t) : t[i].type # "call"
    BY <1>11
  <2>4. ASSUME NEW r \in rs PROVE \E i \in 1 .. Len(t) : t[i] = Announce(r)
    <3>1. PICK i \in 1 .. Len(a) : a[i] = Announce(r)
      BY <1>1, <1>4
    <3>2. i \in 1 .. Len(t) /\ t[i] = a[i]
      BY <1>6, <1>7, <1>10
    <3> QED BY <3>1, <3>2
  <2> QED BY <2>1, <2>2, <2>3, <2>4 DEF AnnPlace
<1> QED BY <1>10, <1>13, <1>14, <1>15

-----------------------------------------------------------------------------
(* The invariant of the calls, the subscriptions and the announcements. *)

OnceInv == OncePlace(msgQueue, sent, got, ops)
SubsInv == ~overtaken => SubsPlace(msgQueue, sent, bsubs, Scopes(subjects), wire)
AnnInv == AnnPlace(msgQueue, sent, bound, routes, dropped, wire)
Accepted == wire = "accepted" => bsubs = {}

Contents == OnceInv /\ SubsInv /\ AnnInv /\ Accepted

LEMMA InitContents == LinkInit => Contents
<1> SUFFICES ASSUME LinkInit PROVE Contents
  OBVIOUS
<1>1. DOMAIN <<>> = {} /\ Len(<<>>) = 0 /\ 1 .. 0 = {} /\ <<>> \in Seq(Nat)
  BY EmptySeq, LenProperties
<1>2. IdsIn(<<>>) = {} /\ OnceIn(<<>>) /\ Range(<<>>) = {} /\ IsInjective(<<>>)
  BY <1>1 DEF IdsIn, OnceIn, Range, IsInjective
<1>3. OnceInv
  BY <1>1, <1>2 DEF LinkInit, OnceInv, OncePlace
<1>4. SubsInv /\ Accepted
  BY <1>1 DEF LinkInit, SubsInv, Accepted, SubsPlace, LastSub
<1>5. AnnInv
  BY <1>1 DEF LinkInit, AnnInv, AnnPlace
<1> QED BY <1>3, <1>4, <1>5 DEF Contents

\* Where a message that the page sends goes: to the socket, into the queue or nowhere.
LEMMA Pushed ==
  ASSUME Inv, NEW m, pushMessage(m)
  PROVE  \/ wire = "up" /\ open /\ sent' = sent \o <<m>> /\ msgQueue' = msgQueue
         \/ wire # "up" /\ sent' = sent /\ (open \/ m.type \in RouteTypes) /\ msgQueue' = msgQueue
         \/ wire # "up" /\ sent' = sent /\ m.type \notin RouteTypes /\ msgQueue' = Append(msgQueue, m)
  BY DEF pushMessage, sendMessage, RouteTypes, Inv, SocketPlace

LEMMA Overtakes ==
  ASSUME NEW m, pushMessage(m), ~overtaken'
  PROVE  ~overtaken /\ (open /\ IsSub(m) => ~Queued(IsSub))
<1>1. CASE open
  <2>1. overtaken' = (overtaken \/ (IsSub(m) /\ Queued(IsSub)))
    BY <1>1 DEF pushMessage
  <2> QED BY <2>1, Zenon
<1>2. CASE ~open
  BY <1>2 DEF pushMessage
<1> QED BY <1>1, <1>2

\* A queued message as one that is added.
LEMMA QueuedAs ==
  ASSUME Inv, NEW m \in Message
  PROVE  Append(msgQueue, m) = msgQueue \o <<m>> /\ msgQueue \in Seq(Message)
         /\ DOMAIN msgQueue = 1 .. Len(msgQueue)
<1>1. msgQueue \in Seq(Message)
  BY SeqMonotonic DEF Inv, Types, Message
<1> QED BY <1>1, AppendIsConcat, LenProperties

\* A call has the number of the operation, other messages have none.
LEMMA PushedOnce ==
  ASSUME Inv, OnceInv, NEW m \in Message, pushMessage(m), CallId(m) \subseteq {ops}
  PROVE  OncePlace(msgQueue', sent', got, ops + 1)
<1>1. msgQueue \in Seq(Message) /\ sent \in Seq(Message) /\ Append(msgQueue, m) = msgQueue \o <<m>>
  BY QueuedAs DEF Inv, Types
<1>2. ops \in Nat /\ ops \notin 0 .. ops - 1 /\ 0 .. ops - 1 \subseteq 0 .. ops /\ ops \in 0 .. ops
      /\ (ops + 1) - 1 = ops
  BY DEF Inv, Types
<1>3. PICK q, s : q = msgQueue' /\ s = sent'
  OBVIOUS
<1>4. CASE s = sent \o <<m>> /\ q = msgQueue
  <2>1. /\ IdsIn(s) = IdsIn(sent) \union CallId(m)
        /\ OnceIn(sent) /\ CallId(m) \intersect IdsIn(sent) = {} => OnceIn(s)
    BY <1>1, <1>4, IdsAdded
  <2> QED BY <1>2, <1>3, <1>4, <2>1 DEF OnceInv, OncePlace
<1>5. CASE s = sent /\ q = msgQueue \o <<m>>
  <2>1. /\ IdsIn(q) = IdsIn(msgQueue) \union CallId(m)
        /\ OnceIn(msgQueue) /\ CallId(m) \intersect IdsIn(msgQueue) = {} => OnceIn(q)
    BY <1>1, <1>5, IdsAdded
  <2> QED BY <1>2, <1>3, <1>5, <2>1 DEF OnceInv, OncePlace
<1>6. CASE s = sent /\ q = msgQueue
  BY <1>2, <1>3, <1>6 DEF OnceInv, OncePlace
<1> QED BY <1>1, <1>3, <1>4, <1>5, <1>6, Pushed

\* The page says what it subscribes now.
LEMMA PushedSub ==
  ASSUME Inv, NEW m \in Message, IsSub(m), NEW sc, m.scopes = sc, pushMessage(m), ~overtaken'
  PROVE  SubsPlace(msgQueue', sent', bsubs, sc, wire)
<1>1. msgQueue \in Seq(Message) /\ sent \in Seq(Message) /\ Append(msgQueue, m) = msgQueue \o <<m>>
      /\ DOMAIN msgQueue = 1 .. Len(msgQueue)
  BY QueuedAs DEF Inv, Types
<1>2. PICK q, s : q = msgQueue' /\ s = sent'
  OBVIOUS
<1>3. ASSUME open PROVE LastSub(msgQueue, sc)
  <2>1. ~Queued(IsSub)
    BY <1>3, Overtakes
  <2>2. \A i \in DOMAIN msgQueue : ~IsSub(msgQueue[i])
    BY <2>1 DEF Queued
  <2> QED BY <1>1, <2>2 DEF LastSub
<1>4. CASE wire = "up" /\ open /\ s = sent \o <<m>> /\ q = msgQueue
  <2>1. ~NoSub(s) /\ LastSub(s, sc)
    BY <1>1, <1>4, SubAdded
  <2> QED BY <1>2, <1>3, <1>4, <2>1 DEF SubsPlace
<1>5. CASE wire # "up" /\ open /\ q = msgQueue
  BY <1>2, <1>3, <1>5 DEF SubsPlace
<1>6. CASE wire # "up" /\ q = msgQueue \o <<m>>
  <2>1. LastSub(q, sc)
    BY <1>1, <1>6, SubAdded
  <2> QED BY <1>2, <1>6, <2>1 DEF SubsPlace
<1>7. m.type \notin RouteTypes
  BY DEF IsSub, RouteTypes
<1> QED BY <1>1, <1>2, <1>4, <1>5, <1>6, <1>7, Pushed

\* Another message changes nothing about the subscriptions.
LEMMA PushedNoSub ==
  ASSUME Inv, SubsInv, NEW m \in Message, ~IsSub(m), pushMessage(m), ~overtaken'
  PROVE  SubsPlace(msgQueue', sent', bsubs, Scopes(subjects), wire)
<1>1. msgQueue \in Seq(Message) /\ sent \in Seq(Message) /\ Append(msgQueue, m) = msgQueue \o <<m>>
  BY QueuedAs DEF Inv, Types
<1>2. PICK q, s : q = msgQueue' /\ s = sent'
  OBVIOUS
<1>3. SubsPlace(msgQueue, sent, bsubs, Scopes(subjects), wire)
  BY Overtakes DEF SubsInv
<1>4. CASE wire = "up" /\ s = sent \o <<m>> /\ q = msgQueue
  <2>1. (NoSub(s) <=> NoSub(sent)) /\ (LastSub(s, Scopes(subjects)) <=> LastSub(sent, Scopes(subjects)))
    BY <1>1, <1>4, SubAdded
  <2> QED BY <1>2, <1>3, <1>4, <2>1 DEF SubsPlace
<1>5. CASE s = sent /\ q = msgQueue
  BY <1>2, <1>3, <1>5
<1>6. CASE wire # "up" /\ q = msgQueue \o <<m>>
  <2>1. LastSub(q, Scopes(subjects)) <=> LastSub(msgQueue, Scopes(subjects))
    BY <1>1, <1>6, SubAdded
  <2> QED BY <1>2, <1>3, <1>6, <2>1 DEF SubsPlace
<1> QED BY <1>1, <1>2, <1>4, <1>5, <1>6, Pushed

\* The routes become rs, those that were unregistered dr.
LEMMA PushedAnn ==
  ASSUME Inv, AnnInv, NEW m \in Message, pushMessage(m), NEW rs, NEW dr,
         dropped \subseteq dr, \A c \in routes : c \notin dr => c \in rs,
         \A c \in rs : c \in routes \/ m = Announce(c),
         m.type = "routeunannounce" => m.route \in dr,
         m.type = "call" => m.route \in routes
  PROVE  AnnPlace(msgQueue', sent', bound, rs, dr, wire)
<1>1. PICK q, s : q = msgQueue' /\ s = sent'
  OBVIOUS
<1>2. sent \in Seq(Message) /\ msgQueue \in Seq(QueuedMessage)
  BY DEF Inv, Types
<1>3. CASE wire = "up" /\ s = sent \o <<m>> /\ q = msgQueue
  <2>1. AnnPlace(msgQueue, s, bound, rs, dr, "up")
    BY <1>2, <1>3, AnnSent DEF AnnInv
  <2> QED BY <1>1, <1>3, <2>1
<1>4. CASE wire # "up" /\ s = sent /\ (q = msgQueue \/ q = Append(msgQueue, m))
  <2>1. m.type = "call" /\ m.route \notin dr => m.route \in rs
    OBVIOUS
  <2>2. AnnPlace(msgQueue, sent, bound, routes, dropped, wire)
    BY DEF AnnInv
  <2>3. AnnPlace(q, sent, bound, rs, dr, wire)
    BY ONLY <1>2, <1>4, <2>1, <2>2, m \in Message, dropped \subseteq dr,
            \A c \in routes : c \notin dr => c \in rs, AnnUnsent
  <2> QED BY <1>1, <1>4, <2>3
<1> QED BY <1>1, <1>3, <1>4, Pushed

\* A call of the page's code keeps them: the socket and the backend stay.
LEMMA OpContents ==
  ASSUME Op, UNCHANGED UnchangedByOps, Contents, Inv,
         OncePlace(msgQueue', sent', got, ops + 1),
         ~overtaken' => SubsPlace(msgQueue', sent', bsubs, Scopes(subjects'), wire),
         AnnPlace(msgQueue', sent', bound, routes', dropped', wire)
  PROVE  Contents'
<1>1. ops' = ops + 1 /\ UNCHANGED <<wire, got, bound, bsubs>>
  BY DEF Op, UnchangedByOps, backend
<1>2. OnceInv' /\ SubsInv' /\ AnnInv'
  BY <1>1 DEF OnceInv, SubsInv, AnnInv
<1>3. Accepted'
  BY <1>1 DEF Accepted, Contents
<1> QED BY <1>2, <1>3 DEF Contents

\* The next message of the queue, if there is one, on a socket that is up.
LEMMA NextOfQueue ==
  ASSUME msgQueue \in Seq(QueuedMessage), NEW s \in Seq(Message), NEW t, t = s \o runMsgQueue
  PROVE  /\ \A g, n : OncePlace(msgQueue, s, g, n) => OncePlace(Shifted, t, g, n)
         /\ \A b, sc : SubsPlace(msgQueue, s, b, sc, "up") => SubsPlace(Shifted, t, b, sc, "up")
         /\ \A b, rs, dr : AnnPlace(msgQueue, s, b, rs, dr, "up") => AnnPlace(Shifted, t, b, rs, dr, "up")
<1>1. CASE msgQueue = <<>>
  <2>1. Shifted = msgQueue /\ t = s
    BY <1>1, ConcatEmptySeq DEF Shifted, runMsgQueue
  <2> QED BY <2>1
<1>2. CASE msgQueue # <<>>
  <2>1. Shifted = Tail(msgQueue) /\ t = s \o <<Head(msgQueue)>>
    BY <1>2 DEF Shifted, runMsgQueue
  <2> QED BY <1>2, <2>1, HeadSent
<1> QED BY <1>1, <1>2

LEMMA NextContents ==
  ASSUME IsFiniteSet(Routes), Inv, Inv', Contents, [LinkNext]_linkVars
  PROVE  Contents'
<1>0. OnceInv /\ SubsInv /\ AnnInv /\ Accepted /\ Types /\ SocketPlace
  BY DEF Contents, Inv
<1>1. ASSUME NEW r \in Routes, registerRoute(r) PROVE Contents'
  <2>1. PICK m : m = Announce(r)
    OBVIOUS
  <2>2. m \in Message /\ ~IsSub(m) /\ CallId(m) = {} /\ m.type = "routeannounce"
    BY <2>1 DEF Announce, Message, RouteMessage, RouteTypes, IsSub, CallId
  <2>3. /\ Op /\ UNCHANGED UnchangedByOps /\ pushMessage(m)
        /\ routes' = routes \union {r} /\ subjects' = subjects /\ dropped' = dropped
    BY <1>1, <2>1 DEF registerRoute
  <2>4. OncePlace(msgQueue', sent', got, ops + 1)
    BY <1>0, <2>2, <2>3, PushedOnce
  <2>5. ~overtaken' => SubsPlace(msgQueue', sent', bsubs, Scopes(subjects), wire)
    BY <1>0, <2>2, <2>3, PushedNoSub
  <2>6. PICK rs : rs = routes \union {r}
    OBVIOUS
  <2>7. AnnPlace(msgQueue', sent', bound, rs, dropped, wire)
    BY <1>0, <2>1, <2>2, <2>3, <2>6, PushedAnn
  <2> QED BY <2>3, <2>4, <2>5, <2>6, <2>7, OpContents
<1>2. ASSUME NEW r \in Routes, unregisterRoute(r) PROVE Contents'
  <2>1. PICK m : m = Unannounce(r)
    OBVIOUS
  <2>2. /\ m \in Message /\ ~IsSub(m) /\ CallId(m) = {}
        /\ m.type = "routeunannounce" /\ m.route = r
    BY <2>1 DEF Unannounce, Message, RouteMessage, RouteTypes, IsSub, CallId
  <2>3. /\ Op /\ UNCHANGED UnchangedByOps /\ pushMessage(m)
        /\ routes' = routes \ {r} /\ subjects' = subjects /\ dropped' = dropped \union {r}
    BY <1>2, <2>1 DEF unregisterRoute
  <2>4. OncePlace(msgQueue', sent', got, ops + 1)
    BY <1>0, <2>2, <2>3, PushedOnce
  <2>5. ~overtaken' => SubsPlace(msgQueue', sent', bsubs, Scopes(subjects), wire)
    BY <1>0, <2>2, <2>3, PushedNoSub
  <2>6. PICK rs, dr : rs = routes \ {r} /\ dr = dropped \union {r}
    OBVIOUS
  <2>7. AnnPlace(msgQueue', sent', bound, rs, dr, wire)
    BY <1>0, <2>2, <2>3, <2>6, PushedAnn
  <2> QED BY <2>3, <2>4, <2>5, <2>6, <2>7, OpContents
<1>3. ASSUME NEW r \in Routes, SendCall(r) PROVE Contents'
  <2>1. PICK m : m = CallMsg(r, ops)
    OBVIOUS
  <2>2. m \in Message /\ ~IsSub(m) /\ CallId(m) = {ops} /\ m.type = "call" /\ m.route = r
    BY <1>0, <2>1 DEF CallMsg, Message, QueuedMessage, IsSub, CallId, Types
  <2>3. /\ Op /\ UNCHANGED UnchangedByOps /\ pushMessage(m) /\ r \in routes
        /\ UNCHANGED <<routes, subjects, dropped>>
    BY <1>3, <2>1 DEF SendCall
  <2>4. OncePlace(msgQueue', sent', got, ops + 1)
    BY <1>0, <2>2, <2>3, PushedOnce
  <2>5. ~overtaken' => SubsPlace(msgQueue', sent', bsubs, Scopes(subjects), wire)
    BY <1>0, <2>2, <2>3, PushedNoSub
  <2>6. AnnPlace(msgQueue', sent', bound, routes, dropped, wire)
    BY <1>0, <2>2, <2>3, PushedAnn
  <2> QED BY <2>3, <2>4, <2>5, <2>6, OpContents
<1>4. ASSUME NEW s \in Subscribers, waveEventSubscribeSingle(s) \/ waveEventUnsubscribe(s)
      PROVE  Contents'
  <2>1. PICK m : m = updateWaveEventSub(subjects')
    OBVIOUS
  <2>2. subjects' \subseteq Subscribers
    BY DEF Inv, Types
  <2>3. m \in Message /\ IsSub(m) /\ CallId(m) = {} /\ m.type = "eventsub" /\ m.scopes = Scopes(subjects')
    BY <2>1, <2>2 DEF updateWaveEventSub, Scopes, Message, QueuedMessage, IsSub, CallId
  <2>4. /\ Op /\ UNCHANGED UnchangedByOps /\ pushMessage(m)
        /\ UNCHANGED <<routes, dropped>>
    BY <1>4, <2>1 DEF waveEventSubscribeSingle, waveEventUnsubscribe
  <2>5. OncePlace(msgQueue', sent', got, ops + 1)
    BY <1>0, <2>3, <2>4, PushedOnce
  <2>6. ~overtaken' => SubsPlace(msgQueue', sent', bsubs, Scopes(subjects'), wire)
    BY <2>3, <2>4, PushedSub
  <2>7. AnnPlace(msgQueue', sent', bound, routes, dropped, wire)
    BY <1>0, <2>3, <2>4, PushedAnn
  <2> QED BY <2>4, <2>5, <2>6, <2>7, OpContents
<1>5. CASE connectNow
  <2>1. UNCHANGED <<msgQueue, got, ops, overtaken, subjects, bound, bsubs, routes, dropped>>
    BY <1>5 DEF connectNow, backend, history
  <2>2. CASE open \/ noReconnect
    <3>1. UNCHANGED <<wire, sent>>
      BY <1>5, <2>2 DEF connectNow
    <3> QED BY <1>0, <2>1, <3>1 DEF Contents, OnceInv, SubsInv, AnnInv, Accepted
  <2>3. CASE ~(open \/ noReconnect)
    <3>1. wire' = "connecting" /\ sent' = <<>>
      BY <1>5, <2>3 DEF connectNow
    <3>2. /\ OncePlace(msgQueue, sent, got, ops)
          /\ ~overtaken => SubsPlace(msgQueue, sent, bsubs, Scopes(subjects), wire)
          /\ AnnPlace(msgQueue, sent, bound, routes, dropped, wire)
      BY <1>0 DEF OnceInv, SubsInv, AnnInv
    <3>3. /\ OncePlace(msgQueue, <<>>, got, ops)
          /\ ~overtaken => SubsPlace(msgQueue, <<>>, bsubs, Scopes(subjects), "connecting")
          /\ AnnPlace(msgQueue, <<>>, bound, routes, dropped, "connecting")
      BY ONLY <3>2, "connecting" # "up", Emptied
    <3> QED BY <2>1, <3>1, <3>3 DEF Contents, OnceInv, SubsInv, AnnInv, Accepted
  <2> QED BY <2>2, <2>3
<1>6. CASE onopen
  <2>1. /\ wire = "accepted" /\ sent = <<>> /\ bound = {} /\ bsubs = {}
        /\ wire' = "up" /\ sent' = sent \o Reconnected \o runMsgQueue /\ msgQueue' = Shifted
        /\ overtaken' = (overtaken \/ (subjects # {} /\ Queued(IsSub)))
        /\ UNCHANGED <<got, ops, subjects, bound, bsubs, routes, dropped>>
    BY <1>0, <1>6 DEF onopen, backend, SocketPlace, Accepted
  <2>2. PICK u : u = IF subjects = {} THEN <<>> ELSE <<updateWaveEventSub(subjects)>>
    OBVIOUS
  <2>3. PICK t : t = SetToSeq({Announce(r) : r \in routes}) \o u
    OBVIOUS
  <2>4. routes \in SUBSET Routes /\ subjects \in SUBSET Subscribers /\ msgQueue \in Seq(QueuedMessage)
    BY <1>0 DEF Types
  <2>5. /\ t \in Seq(Message)
        /\ OncePlace(msgQueue, t, got, ops)
        /\ ~overtaken => SubsPlace(msgQueue, t, {}, Scopes(subjects), "up")
        /\ AnnPlace(msgQueue, t, {}, routes, dropped, "up")
    BY <1>0, <2>1, <2>2, <2>3, <2>4, Opened DEF OnceInv, SubsInv, AnnInv
  <2>6. t = Reconnected
    BY <2>2, <2>3 DEF Reconnected
  <2>7. sent' = t \o runMsgQueue
    BY <2>1, <2>5, <2>6, ConcatEmptySeq
  <2>8. ~overtaken' => ~overtaken
    BY <2>1, Zenon
  <2>9. /\ OncePlace(Shifted, sent', got, ops)
        /\ ~overtaken => SubsPlace(Shifted, sent', {}, Scopes(subjects), "up")
        /\ AnnPlace(Shifted, sent', {}, routes, dropped, "up")
    BY <2>4, <2>5, <2>7, NextOfQueue
  <2> QED BY <2>1, <2>8, <2>9 DEF Contents, OnceInv, SubsInv, AnnInv, Accepted
<1>7. CASE QueueTimer
  <2>1. UNCHANGED <<wire, got, ops, overtaken, subjects, bound, bsubs, routes, dropped>>
    BY <1>7 DEF QueueTimer, backend, history
  <2>2. CASE open /\ wire = "up"
    <3>1. sent' = sent \o runMsgQueue /\ msgQueue' = Shifted
      BY <1>7, <2>2 DEF QueueTimer, sendMessage
    <3>2. sent \in Seq(Message) /\ msgQueue \in Seq(QueuedMessage)
      BY <1>0 DEF Types
    <3>3. /\ OncePlace(msgQueue, sent, got, ops)
          /\ ~overtaken => SubsPlace(msgQueue, sent, bsubs, Scopes(subjects), "up")
          /\ AnnPlace(msgQueue, sent, bound, routes, dropped, "up")
      BY <1>0, <2>2 DEF OnceInv, SubsInv, AnnInv
    <3>4. /\ OncePlace(Shifted, sent', got, ops)
          /\ ~overtaken => SubsPlace(Shifted, sent', bsubs, Scopes(subjects), "up")
          /\ AnnPlace(Shifted, sent', bound, routes, dropped, "up")
      BY <3>1, <3>2, <3>3, NextOfQueue
    <3> QED BY <1>0, <2>1, <2>2, <3>1, <3>4 DEF Contents, OnceInv, SubsInv, AnnInv, Accepted
  <2>3. CASE open /\ wire # "up" /\ msgQueue # <<>>
    <3>1. sent' = sent /\ msgQueue' = Tail(msgQueue)
      BY <1>7, <2>3 DEF QueueTimer, sendMessage, Shifted
    <3>2. msgQueue \in Seq(QueuedMessage)
      BY <1>0 DEF Types
    <3> QED BY <1>0, <2>1, <2>3, <3>1, <3>2, HeadLost DEF Contents, OnceInv, SubsInv, AnnInv, Accepted
  <2>4. CASE ~open \/ (wire # "up" /\ msgQueue = <<>>)
    <3>1. sent' = sent /\ msgQueue' = msgQueue
      BY <1>7, <2>4 DEF QueueTimer, sendMessage, Shifted
    <3> QED BY <1>0, <2>1, <3>1 DEF Contents, OnceInv, SubsInv, AnnInv, Accepted
  <2> QED BY <2>2, <2>3, <2>4
<1>8. CASE StableTimer
  BY <1>0, <1>8 DEF StableTimer, backend, history, Contents, OnceInv, SubsInv, AnnInv, Accepted
<1>9. CASE onclose
  <2>1. wire' = "none" /\ UNCHANGED <<msgQueue, sent, got, ops, overtaken, subjects, bound, bsubs, routes, dropped>>
    BY <1>9 DEF onclose, backend, history
  <2> QED BY <1>0, <2>1, NotUp DEF Contents, OnceInv, SubsInv, AnnInv, Accepted
<1>10. CASE shutdown
  <2>1. /\ wire' # "up" /\ wire' # "accepted"
        /\ UNCHANGED <<msgQueue, sent, got, ops, overtaken, subjects, bound, bsubs, routes, dropped>>
    BY <1>10 DEF shutdown, backend, history
  <2>2. PICK w : w = wire'
    OBVIOUS
  <2>3. /\ OncePlace(msgQueue, sent, got, ops)
        /\ ~overtaken => SubsPlace(msgQueue, sent, bsubs, Scopes(subjects), w)
        /\ AnnPlace(msgQueue, sent, bound, routes, dropped, w)
    BY <1>0, <2>1, <2>2, NotUp DEF OnceInv, SubsInv, AnnInv
  <2> QED BY <2>1, <2>2, <2>3 DEF Contents, OnceInv, SubsInv, AnnInv, Accepted
<1>11. CASE registerConn
  <2>1. /\ wire' = "accepted" /\ bound' = {} /\ bsubs' = {} /\ sent = <<>> /\ sent' = <<>>
        /\ UNCHANGED <<msgQueue, got, ops, overtaken, subjects, routes, dropped>>
    BY <1>11 DEF registerConn, page, history
  <2> QED BY <1>0, <2>1, Emptied DEF Contents, OnceInv, SubsInv, AnnInv, Accepted
<1>12. CASE unregisterConn
  <2>1. /\ wire # "up" /\ wire' = wire /\ bound' = {} /\ bsubs' = {} /\ sent = <<>> /\ sent' = <<>>
        /\ UNCHANGED <<msgQueue, got, ops, overtaken, subjects, routes, dropped>>
    BY <1>12 DEF unregisterConn, page, history
  <2> QED BY <1>0, <2>1, Emptied DEF Contents, OnceInv, SubsInv, AnnInv, Accepted
<1>13. CASE Break
  <2>1. wire' = "broken" /\ UNCHANGED <<msgQueue, got, ops, overtaken, subjects, bound, bsubs, routes, dropped>>
    BY <1>13 DEF Break, page, backend, history
  <2>2. PICK t : t = sent'
    OBVIOUS
  <2>3. sent \in Seq(Message) /\ Cut(sent, t)
    BY <1>0, <1>13, <2>2 DEF Break, Cut, Types
  <2>4. /\ OncePlace(msgQueue, sent, got, ops)
        /\ ~overtaken => SubsPlace(msgQueue, sent, bsubs, Scopes(subjects), wire)
        /\ AnnPlace(msgQueue, sent, bound, routes, dropped, wire)
    BY <1>0 DEF OnceInv, SubsInv, AnnInv
  <2>5. /\ OncePlace(msgQueue, t, got, ops)
        /\ ~overtaken => SubsPlace(msgQueue, t, bsubs, Scopes(subjects), "broken")
        /\ AnnPlace(msgQueue, t, bound, routes, dropped, "broken")
    BY ONLY <2>3, <2>4, "broken" # "up", Broken
  <2> QED BY <2>1, <2>2, <2>5 DEF Contents, OnceInv, SubsInv, AnnInv, Accepted
<1>14. CASE BackendReads
  <2>1. /\ sent # <<>> /\ sent' = Tail(sent)
        /\ UNCHANGED <<msgQueue, ops, overtaken, subjects, routes, dropped, wire>>
    BY <1>14 DEF BackendReads, page, history
  <2>2. sent \in Seq(Message) /\ Head(sent) \in Message /\ routes \in SUBSET Routes
    BY <1>0, <2>1, HeadTailProperties DEF Types
  <2>3. PICK m : m = Head(sent)
    OBVIOUS
  <2>4. m.type \in {"routeannounce", "routeunannounce", "eventsub", "call"}
    BY <2>2, <2>3 DEF Message, RouteMessage, QueuedMessage, RouteTypes
  <2>5. /\ bound' = After(bound, m)
        /\ bsubs' = IF IsSub(m) THEN m.scopes ELSE bsubs
        /\ got' = IF m.type = "call" THEN Append(got, m.id) ELSE got
    BY <1>14, <2>3, <2>4 DEF BackendReads, After, IsSub
  <2>6. PICK b, d, g : b = bound' /\ d = bsubs' /\ g = got'
    OBVIOUS
  <2>7. OncePlace(msgQueue, Tail(sent), g, ops)
    BY <1>0, <2>1, <2>2, <2>3, <2>5, <2>6, OnceRead DEF OnceInv
  <2>8. ~overtaken => SubsPlace(msgQueue, Tail(sent), d, Scopes(subjects), wire)
    BY <1>0, <2>1, <2>2, <2>3, <2>5, <2>6, SubsRead DEF SubsInv
  <2>9. AnnPlace(msgQueue, Tail(sent), b, routes, dropped, wire)
    BY <1>0, <2>1, <2>2, <2>3, <2>5, <2>6, AnnRead DEF AnnInv
  <2>10. wire # "accepted"
    BY <1>0, <2>1 DEF SocketPlace
  <2> QED BY <2>1, <2>6, <2>7, <2>8, <2>9, <2>10 DEF Contents, OnceInv, SubsInv, AnnInv, Accepted
<1>15. CASE UNCHANGED linkVars
  BY <1>0, <1>15 DEF linkVars, page, backend, history, Contents, OnceInv, SubsInv, AnnInv, Accepted
<1> QED BY <1>1, <1>2, <1>3, <1>4, <1>5, <1>6, <1>7, <1>8, <1>9, <1>10, <1>11, <1>12,
           <1>13, <1>14, <1>15 DEF LinkNext

-----------------------------------------------------------------------------
(* The theorems. *)

\* The invariant is kept by every step of the page, the socket and the backend.
THEOREM LinkInvariant ==
  LinkSpec => []Inv
<1>1. LinkInit => Inv
  BY LinkAssumption, InitInv
<1>2. Inv /\ [LinkNext]_linkVars => Inv'
  BY LinkAssumption, NextInv
<1> QED BY <1>1, <1>2, PTL DEF LinkSpec

\* There is one socket at a time, or one timer to make it, unless the page has
\* given up or shut down (connect, onclose, reconnect).
THEOREM OneSocketAlways ==
  LinkSpec => []OneSocket
<1>1. Inv => OneSocket
  BY DEF Inv, Types, SocketPlace, OneSocket
<1> QED BY <1>1, LinkInvariant, PTL

\* However often the socket breaks, on an open one with nothing on its way the
\* backend has exactly the routes of the page (reannounceRoutes).
THEOREM RoutesAlwaysAgree ==
  LinkSpec => []RoutesAgree
<1>1. Inv => RoutesAgree
  <2> SUFFICES ASSUME Inv, LinkSettled PROVE bound = routes
    BY DEF RoutesAgree
  <2>1. Tells(<<>>, bound, routes)
    BY DEF Inv, RoutesOnWay, LinkSettled
  <2>2. \A r \in Routes : r \in bound <=> r \in routes
    BY <2>1 DEF Tells
  <2> QED BY <2>2 DEF Inv, Types
<1> QED BY <1>1, LinkInvariant, PTL

\* So are the places of calls, subscriptions and announcements.
THEOREM LinkContents ==
  LinkSpec => [](Inv /\ Contents)
<1>1. LinkInit => Inv /\ Contents
  BY LinkAssumption, InitInv, InitContents
<1>2. Inv /\ Contents /\ [LinkNext]_linkVars => (Inv /\ Contents)'
  BY LinkAssumption, NextInv, NextContents
<1> QED BY <1>1, <1>2, PTL DEF LinkSpec

\* No call is sent twice, whatever breaks while the queue is worked off
\* (runMsgQueue, pushMessage), and the backend knows a client's route before it
\* gets a call of it, so that its answer finds the way (reannounceRoutes).
THEOREM CallsOnceAlways ==
  LinkSpec => []CallsOnce
<1>1. ASSUME Contents PROVE NoCallTwice
  BY <1>1 DEF Contents, OnceInv, OncePlace, NoCallTwice
<1>2. ASSUME Inv, Contents PROVE AnnouncedFirst
  <2>1. sent \in Seq(Message) /\ DOMAIN sent = 1 .. Len(sent) /\ Len(sent) \in Nat
    BY <1>2, LenProperties DEF Inv, Types
  <2>2. ASSUME NEW i \in 1 .. Len(sent), sent[i].type = "call", sent[i].route \notin dropped
        PROVE  sent[i].route \in BoundAfter(i - 1)
    <3>1. PICK r : r = sent[i].route
      OBVIOUS
    <3>2. r \in Routes
      <4>1. sent[i] \in Message
        BY <2>1, ElementOfSeq
      <4> QED BY <2>2, <3>1, <4>1 DEF Message, RouteMessage, QueuedMessage, RouteTypes
    <3>3. r \in bound \/ \E j \in 1 .. Len(sent) : j < i /\ sent[j] = Announce(r)
      BY <1>2, <2>2, <3>1 DEF Contents, AnnInv, AnnPlace
    <3>4. r \in bound \/ \E j \in 1 .. i - 1 : sent[j] = Announce(r)
      BY <2>1, <3>3
    <3>5. ASSUME NEW j \in 1 .. i - 1 PROVE sent[j] # Unannounce(r)
      <4>1. j \in 1 .. Len(sent)
        BY <2>1
      <4>2. About(sent[j], r) => sent[j].type = "routeannounce"
        BY <1>2, <2>2, <3>1, <3>2, <4>1 DEF Contents, AnnInv, AnnPlace
      <4> QED BY <4>2 DEF About, RouteTypes, Unannounce
    <3> QED BY <3>1, <3>2, <3>4, <3>5 DEF BoundAfter
  <2> QED BY <2>1, <2>2 DEF AnnouncedFirst
<1> QED BY <1>1, <1>2, LinkContents, PTL DEF CallsOnce

\* One socket, and on an open one with nothing on its way the backend has the
\* routes of the page and, unless a subscription was sent past an older queued
\* one, its subscriptions (reannounceRoutes, wpsReconnectHandler).
THEOREM BackendAgreesAlways ==
  LinkSpec => []BackendAgrees
<1>1. Inv /\ Contents => SubscriptionsAgree
  <2> SUFFICES ASSUME Contents, LinkSettled, ~overtaken, msgQueue = <<>>
               PROVE  bsubs = Scopes(subjects)
    BY DEF SubscriptionsAgree
  <2>1. SubsPlace(<<>>, <<>>, bsubs, Scopes(subjects), "up")
    BY DEF Contents, SubsInv, LinkSettled
  <2>2. NoSub(<<>>)
    BY DEF NoSub
  <2> QED BY <2>1, <2>2 DEF SubsPlace
<1> QED BY <1>1, LinkContents, OneSocketAlways, RoutesAlwaysAgree, PTL DEF BackendAgrees
=============================================================================
