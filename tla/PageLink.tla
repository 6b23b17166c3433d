------------------------------ MODULE PageLink ------------------------------
(***************************************************************************)
(* A page's web socket to the backend (frontend/app/store/ws.ts), and what *)
(* has to be the same at both of its ends although it breaks and comes     *)
(* back: the routes that the page's router has announced (wshrouter.ts)    *)
(* and the event subscriptions (wps.ts).                                   *)
(*                                                                         *)
(* A broken socket is noticed by either end in its own time; until the     *)
(* page notices, what it sends is gone.  Messages of a closed link wait in *)
(* a queue that is worked off at 100 ms intervals, while new messages of   *)
(* an open link are sent at once.  The backend reads what has arrived on a *)
(* broken socket before it accepts the next one.                           *)
(***************************************************************************)
EXTENDS Integers, Sequences, FiniteSets, SequencesExt

CONSTANTS Routes,      \* route ids of the page's clients
          Subscribers, \* event handlers of the page, for one event type, each of a scope of its own
          Broad,       \* those that have no scope: they want all events
          All,         \* allscopes
          MaxOps,      \* bound: calls of the page's code
          MaxFaults,   \* bound: sockets that break or do not open
          GiveUp,      \* reconnectTimes after which reconnect gives up (20)
          MayShutdown  \* whether shutdown is called

ASSUME LinkAssumption == GiveUp \in Nat /\ IsFiniteSet(Routes)

VARIABLES
  open, opening,     \* WSControl.open, opening
  noReconnect, reconnectTimes,
  connectTimer,      \* the setTimeout of reconnect
  stableTimer,       \* onOpenTimeoutId
  msgQueue,
  queueTimers,       \* number of pending setTimeouts of runMsgQueue
  routes,            \* WshRouter.routeMap
  subjects,          \* waveEventSubjects
  wire,              \* the socket: "none", "connecting", "accepted", "up", "broken"
  sent,              \* messages on their way to the backend
  linked,            \* RouteToConnMap: the backend has a link for the page
  bound, bsubs,      \* the link's routes; the page's subscription, or {}
  got,               \* numbers of the calls the backend has received
  ops, faults,
  overtaken,         \* history: a subscription was sent past an older queued one
  dropped            \* history: routes that were unregistered at some time

page == <<open, opening, noReconnect, reconnectTimes, connectTimer, stableTimer, msgQueue, queueTimers>>
backend == <<linked, bound, bsubs, got>>
history == <<overtaken, dropped>>
linkVars == <<page, routes, subjects, wire, sent, backend, ops, faults, history>>

Announce(r) == [type |-> "routeannounce", route |-> r]
Unannounce(r) == [type |-> "routeunannounce", route |-> r]
CallMsg(r, n) == [type |-> "call", route |-> r, id |-> n]

\* updateWaveEventSub: all scopes at once, or none left
Scopes(subs) == IF subs \intersect Broad # {} THEN {All} ELSE subs
updateWaveEventSub(subs) == [type |-> "eventsub", scopes |-> Scopes(subs)]

IsSub(msg) == msg.type = "eventsub"
Queued(P(_)) == \E i \in DOMAIN msgQueue : P(msgQueue[i])

\* The socket is open for the page; it need not have noticed that it is not.
sendMessage(msgs) == sent' = IF wire = "up" THEN sent \o msgs ELSE sent

pushMessage(msg) ==
  IF open
  THEN /\ sendMessage(<<msg>>)
       /\ overtaken' = (overtaken \/ (IsSub(msg) /\ Queued(IsSub)))
       /\ UNCHANGED msgQueue
  ELSE /\ msgQueue' = IF msg.type \in {"routeannounce", "routeunannounce"} THEN msgQueue
                      ELSE Append(msgQueue, msg)
       /\ UNCHANGED <<sent, overtaken>>

(***************************************************************************)
(* The page's code                                                         *)
(***************************************************************************)
Op == ops < MaxOps /\ ops' = ops + 1
UnchangedByOps == <<open, opening, noReconnect, reconnectTimes, connectTimer, stableTimer,
                    queueTimers, wire, backend, faults>>

registerRoute(r) ==
  /\ Op /\ r \notin routes
  /\ routes' = routes \union {r}
  /\ pushMessage(Announce(r))
  /\ UNCHANGED <<subjects, dropped, UnchangedByOps>>

unregisterRoute(r) ==
  /\ Op /\ r \in routes
  /\ routes' = routes \ {r}
  /\ dropped' = dropped \union {r}
  /\ pushMessage(Unannounce(r))
  /\ UNCHANGED <<subjects, UnchangedByOps>>

waveEventSubscribeSingle(s) ==
  /\ Op /\ s \notin subjects
  /\ subjects' = subjects \union {s}
  /\ pushMessage(updateWaveEventSub(subjects'))
  /\ UNCHANGED <<routes, dropped, UnchangedByOps>>

waveEventUnsubscribe(s) ==
  /\ Op /\ s \in subjects
  /\ subjects' = subjects \ {s}
  /\ pushMessage(updateWaveEventSub(subjects'))
  /\ UNCHANGED <<routes, dropped, UnchangedByOps>>

\* An rpc of a client; its answer goes to the client's route.
SendCall(r) ==
  /\ Op /\ r \in routes
  /\ pushMessage(CallMsg(r, ops))
  /\ UNCHANGED <<routes, subjects, dropped, UnchangedByOps>>

\* sendPing, too, is lost on a broken socket; a message changes nothing else.

(***************************************************************************)
(* The connection, as the page sees it                                     *)
(***************************************************************************)
connectNow ==
  /\ connectTimer
  /\ connectTimer' = FALSE
  /\ IF open \/ noReconnect THEN UNCHANGED <<opening, wire, sent>>
     ELSE opening' = TRUE /\ wire' = "connecting" /\ sent' = <<>>
  /\ UNCHANGED <<open, noReconnect, reconnectTimes, stableTimer, msgQueue, queueTimers,
                 routes, subjects, backend, ops, faults, history>>

\* One message, and the timer for the next one.
runMsgQueue ==
  IF msgQueue = <<>> THEN <<>> ELSE <<Head(msgQueue)>>
\* mutation: the message stays in the queue
ShiftedNot == msgQueue

Shifted == IF msgQueue = <<>> THEN <<>> ELSE Tail(msgQueue)

\* mutation: only the subscriptions are repeated
ReconnectedSubsOnly == IF subjects = {} THEN <<>> ELSE <<updateWaveEventSub(subjects)>>

\* The reconnect handlers: reannounceRoutes and wpsReconnectHandler, which
\* goes by the event types that have subjects.
Reconnected ==
  SetToSeq({Announce(r) : r \in routes})
    \o (IF subjects = {} THEN <<>> ELSE <<updateWaveEventSub(subjects)>>)

onopen ==
  /\ wire = "accepted"
  /\ wire' = "up"
  /\ open' = TRUE /\ opening' = FALSE /\ stableTimer' = TRUE
  /\ sent' = sent \o Reconnected \o runMsgQueue
  /\ msgQueue' = Shifted
  /\ queueTimers' = queueTimers + Len(runMsgQueue)
  /\ overtaken' = (overtaken \/ (subjects # {} /\ Queued(IsSub)))
  /\ UNCHANGED <<noReconnect, reconnectTimes, connectTimer, routes, subjects, backend, ops, faults, dropped>>

\* mutation: the timer is not set again
QueueTimerOnce ==
  /\ queueTimers > 0
  /\ queueTimers' = queueTimers - 1
  /\ IF open THEN sendMessage(runMsgQueue) /\ msgQueue' = Shifted ELSE UNCHANGED <<sent, msgQueue>>
  /\ UNCHANGED <<open, opening, noReconnect, reconnectTimes, connectTimer, stableTimer,
                 routes, subjects, wire, backend, ops, faults, history>>

QueueTimer ==
  /\ queueTimers > 0
  /\ IF open
     THEN /\ sendMessage(runMsgQueue)
          /\ msgQueue' = Shifted
          /\ queueTimers' = queueTimers - 1 + Len(runMsgQueue)
     ELSE queueTimers' = queueTimers - 1 /\ UNCHANGED <<sent, msgQueue>>
  /\ UNCHANGED <<open, opening, noReconnect, reconnectTimes, connectTimer, stableTimer,
                 routes, subjects, wire, backend, ops, faults, history>>

StableTimer ==
  /\ stableTimer
  /\ stableTimer' = FALSE /\ reconnectTimes' = 0
  /\ UNCHANGED <<open, opening, noReconnect, connectTimer, msgQueue, queueTimers,
                 routes, subjects, wire, sent, backend, ops, faults, history>>

\* reconnect; the link is closed, and it gives up after too many tries.
reconnect ==
  IF noReconnect THEN UNCHANGED <<reconnectTimes, connectTimer>>
  ELSE /\ reconnectTimes' = reconnectTimes + 1
       /\ connectTimer' = (reconnectTimes' <= GiveUp)

onclose ==
  /\ wire = "broken"
  /\ wire' = "none"
  /\ stableTimer' = FALSE
  /\ IF open \/ opening
     THEN open' = FALSE /\ opening' = FALSE /\ reconnect
     ELSE UNCHANGED <<open, opening, reconnectTimes, connectTimer>>
  /\ UNCHANGED <<noReconnect, msgQueue, queueTimers, routes, subjects, sent, backend,
                 ops, faults, history>>

shutdown ==
  /\ MayShutdown /\ ~noReconnect
  /\ noReconnect' = TRUE
  /\ wire' = IF wire = "none" THEN "none" ELSE "broken"
  /\ UNCHANGED <<open, opening, reconnectTimes, connectTimer, stableTimer, msgQueue, queueTimers,
                 routes, subjects, sent, backend, ops, faults, history>>

(***************************************************************************)
(* The backend (pkg/web/ws.go) and the socket                              *)
(***************************************************************************)
\* registerConn: a link that is left from before is unregistered first.
registerConn ==
  /\ wire = "connecting" /\ sent = <<>>
  /\ wire' = "accepted"
  /\ linked' = TRUE /\ bound' = {} /\ bsubs' = {}
  /\ UNCHANGED <<page, routes, subjects, sent, got, ops, faults, history>>

\* unregisterConn, if no new connection has taken the link over
unregisterConn ==
  /\ linked /\ sent = <<>> /\ wire \in {"broken", "none", "connecting"}
  /\ linked' = FALSE /\ bound' = {} /\ bsubs' = {}
  /\ UNCHANGED <<page, routes, subjects, wire, sent, got, ops, faults, history>>

\* The socket breaks, or is not opened; some of what was sent has arrived.
Break ==
  /\ wire \in {"connecting", "accepted", "up"} /\ faults < MaxFaults
  /\ faults' = faults + 1
  /\ wire' = "broken"
  /\ \E n \in 0 .. Len(sent) : sent' = SubSeq(sent, 1, n)
  /\ UNCHANGED <<page, routes, subjects, backend, ops, history>>

BackendReads ==
  /\ sent # <<>> /\ linked
  /\ sent' = Tail(sent)
  /\ LET msg == Head(sent)
     IN CASE msg.type = "routeannounce" -> bound' = bound \union {msg.route} /\ UNCHANGED <<bsubs, got>>
          [] msg.type = "routeunannounce" -> bound' = bound \ {msg.route} /\ UNCHANGED <<bsubs, got>>
          [] msg.type = "eventsub" -> bsubs' = msg.scopes /\ UNCHANGED <<bound, got>>
          [] msg.type = "call" -> got' = Append(got, msg.id) /\ UNCHANGED <<bound, bsubs>>
  /\ UNCHANGED <<page, routes, subjects, wire, linked, ops, faults, history>>

\* initWshrpc: the first connectNow, and the page's own client registered
LinkInit ==
  /\ open = FALSE /\ opening = TRUE /\ wire = "connecting"
  /\ noReconnect = FALSE /\ reconnectTimes = 0 /\ connectTimer = FALSE /\ stableTimer = FALSE
  /\ msgQueue = <<>> /\ queueTimers = 0
  /\ \E r \in Routes : routes = {r}
  /\ subjects = {} /\ sent = <<>>
  /\ linked = FALSE /\ bound = {} /\ bsubs = {} /\ got = <<>>
  /\ ops = 0 /\ faults = 0 /\ overtaken = FALSE /\ dropped = {}

LinkNext ==
  \/ \E r \in Routes : registerRoute(r) \/ unregisterRoute(r) \/ SendCall(r)
  \/ \E s \in Subscribers : waveEventSubscribeSingle(s) \/ waveEventUnsubscribe(s)
  \/ connectNow \/ onopen \/ QueueTimer \/ StableTimer \/ onclose \/ shutdown
  \/ registerConn \/ unregisterConn \/ Break \/ BackendReads

LinkSpec == LinkInit /\ [][LinkNext]_linkVars

\* Timers and socket events come, and the backend reads and accepts; that a
\* connection stays up long enough to be stable is up to the machine.
LinkFairness ==
  /\ WF_linkVars(connectNow) /\ WF_linkVars(onopen) /\ WF_linkVars(QueueTimer) /\ WF_linkVars(StableTimer)
  /\ WF_linkVars(onclose) /\ WF_linkVars(registerConn) /\ WF_linkVars(unregisterConn) /\ WF_linkVars(BackendReads)
LinkFairSpec == LinkSpec /\ LinkFairness

(***************************************************************************)
(* Properties                                                              *)
(***************************************************************************)
IdsIn(msgs) == {msgs[i].id : i \in {j \in DOMAIN msgs : msgs[j].type = "call"}}
OnceIn(msgs) ==
  \A i, j \in DOMAIN msgs :
    msgs[i].type = "call" /\ msgs[j].type = "call" /\ msgs[i].id = msgs[j].id => i = j

\* The state is well formed; the bounds of the model hold.
LinkTypeOK ==
  /\ {open, opening, noReconnect, connectTimer, stableTimer, linked, overtaken} \subseteq BOOLEAN
  /\ wire \in {"none", "connecting", "accepted", "up", "broken"}
  /\ routes \subseteq Routes /\ bound \subseteq Routes /\ subjects \subseteq Subscribers
  /\ reconnectTimes \in 0 .. GiveUp + 1 /\ queueTimers \in Nat

\* There is one socket at a time: while one is open or opening no timer
\* waits to make another, and otherwise a timer does, unless the page has
\* given up or shut down.
OneSocket ==
  /\ (open \/ opening) => ~connectTimer /\ wire # "none"
  /\ ~(open \/ opening \/ connectTimer) => noReconnect \/ reconnectTimes > GiveUp

\* No call is sent twice, whatever breaks while the queue is worked off.
NoCallTwice ==
  /\ OnceIn(msgQueue) /\ OnceIn(sent) /\ IsInjective(got)
  /\ IdsIn(msgQueue) \intersect IdsIn(sent) = {}
  /\ (IdsIn(msgQueue) \union IdsIn(sent)) \intersect Range(got) = {}

\* What is in order at the backend when nothing is on its way.
LinkSettled == wire = "up" /\ open /\ sent = <<>> /\ linked
RoutesAgree == LinkSettled => bound = routes
SubscriptionsAgree == LinkSettled /\ ~overtaken /\ msgQueue = <<>> => bsubs = Scopes(subjects)

\* One socket, and on a link where nothing is on its way both ends agree.
BackendAgrees == OneSocket /\ RoutesAgree /\ SubscriptionsAgree

\* The backend knows a client's route before it gets a call of it, so that
\* it can answer.
BoundAfter(n) ==
  {r \in Routes :
     /\ r \in bound \/ \E i \in 1 .. n : sent[i] = Announce(r)
     /\ \A i \in 1 .. n : sent[i] = Unannounce(r) => \E j \in i + 1 .. n : sent[j] = Announce(r)}
AnnouncedFirst ==
  \A i \in DOMAIN sent :
    sent[i].type = "call" /\ sent[i].route \notin dropped => sent[i].route \in BoundAfter(i - 1)

\* No call is sent twice, and none reaches the backend before the route that its
\* answer needs.
CallsOnce == NoCallTwice /\ AnnouncedFirst

\* When no more sockets break than the page tries to reconnect, it is
\* connected in the end, has sent what it had queued, and both ends agree.
ComesBack ==
  <>[](noReconnect \/ (LinkSettled /\ msgQueue = <<>> /\ bound = routes))
=============================================================================
