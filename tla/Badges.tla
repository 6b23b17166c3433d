-------------------------------- MODULE Badges --------------------------------
(***************************************************************************)
(* The badges of blocks and tabs, which every page keeps for itself        *)
(* (frontend/app/store/badge.ts) and the backend for the pages to come     *)
(* (pkg/wcore/badge.go).                                                   *)
(*                                                                         *)
(* All of them follow the same events. The broker hands an event to one    *)
(* recipient after the other and to each without waiting for other events, *)
(* so two events may reach two recipients in different orders. A badge has *)
(* a priority and an id that grows with time, and the greater badge stays. *)
(* A page that opens takes the backend's badges and subscribes then.       *)
(*                                                                         *)
(* A subscription lasts: the page's web socket does not break.  Events     *)
(* while it is broken are lost to the page, which subscribes again and     *)
(* does not load the badges again.                                         *)
(***************************************************************************)
EXTENDS Integers, Sequences, FiniteSets

CONSTANTS Pages, Backend,
          Orefs,        \* the blocks and tabs that may have a badge
          Priorities,
          NoBadge,
          MaxEvents     \* bound: events published

\* Priorities are numbers, the backend is no page, NoBadge is no badge, and at any time
\* there are finitely many blocks and tabs.
ASSUME BadgesAssumption ==
  /\ Priorities \subseteq Int /\ Backend \notin Pages /\ IsFiniteSet(Orefs)
  /\ NoBadge \notin [id : Nat, priority : Priorities, pidlinked : BOOLEAN]

VARIABLES
  badges,     \* of every page and of the backend: the badge of each oref
  phase,      \* of a page: new, asking, answered, loaded, subscribed
  snapshot,   \* the answer to GetAllBadges
  asked,      \* events on their way to the broker
  sending,    \* events that the broker hands out, each with who still gets it
  inbox,      \* events on their way to a page
  made,       \* number of events; a badge's id is the number of its event
  apart       \* history: orefs of which a clear met another event, or a page missed one

badgesVars == <<badges, phase, snapshot, asked, sending, inbox, made, apart>>

Recipients == Pages \union {Backend}
NoBadges == [o \in Orefs |-> NoBadge]

\* mutation: of two badges of one priority neither is greater
cmpBadgePriority(x, y) == IF x.priority > y.priority THEN 1 ELSE IF x.priority < y.priority THEN -1 ELSE 0

cmpBadge(x, y) ==
  IF x.priority # y.priority THEN IF x.priority > y.priority THEN 1 ELSE -1
  ELSE IF x.id > y.id THEN 1 ELSE IF x.id < y.id THEN -1 ELSE 0

\* The handler of the event, the same in a page and in the backend.
Handled(own, e) ==
  [o \in Orefs |->
    IF e.kind = "clearall" THEN NoBadge
    ELSE IF o # e.oref THEN own[o]
    ELSE CASE e.kind = "clear" -> NoBadge
           [] e.kind = "clearbyid" -> IF own[o] # NoBadge /\ own[o].id = e.id THEN NoBadge ELSE own[o]
           [] e.kind = "set" -> IF own[o] = NoBadge \/ cmpBadge(e.badge, own[o]) > 0 THEN e.badge ELSE own[o]]

BadgesInit ==
  /\ badges = [r \in Recipients |-> NoBadges]
  /\ phase = [p \in Pages |-> "new"]
  /\ snapshot = [p \in Pages |-> NoBadges]
  /\ asked = {} /\ sending = {} /\ inbox = [p \in Pages |-> <<>>]
  /\ made = 0 /\ apart = {}

(***************************************************************************)
(* Events                                                                  *)
(***************************************************************************)
Event(n, kind, oref, badge, id) == [n |-> n, kind |-> kind, oref |-> oref, badge |-> badge, id |-> id]

\* publishBadgeEvent
PublishAll(es) ==
  /\ made + Cardinality(es) <= MaxEvents
  /\ made' = made + Cardinality(es)
  /\ asked' = asked \union es
  /\ UNCHANGED <<badges, phase, snapshot, sending, inbox, apart>>

\* setBadge by a terminal's bell, or wsh badge
setBadge(o, priority, pidlinked) ==
  PublishAll({Event(made + 1, "set", o, [id |-> made + 1, priority |-> priority, pidlinked |-> pidlinked], 0)})

\* The timer that a focused block or tab with a badge starts
clearBadgesOnFocus(p, o) ==
  /\ phase[p] = "subscribed" /\ badges[p][o] # NoBadge /\ ~badges[p][o].pidlinked
  /\ PublishAll({Event(made + 1, "clear", o, NoBadge, 0)})

\* An event for each block of the tab that has a badge
clearBadgesForTab(p) ==
  LET with == {o \in Orefs : badges[p][o] # NoBadge}
  IN /\ phase[p] = "subscribed" /\ with # {}
     /\ \E number \in [with -> made + 1 .. made + Cardinality(with)] :
          /\ \A o, q \in with : number[o] = number[q] => o = q
          /\ PublishAll({Event(number[o], "clear", o, NoBadge, 0) : o \in with})

\* wsh badge --clear
WshClear(o) == PublishAll({Event(made + 1, "clear", o, NoBadge, 0)})

clearAllBadges == PublishAll({Event(made + 1, "clearall", NoBadge, NoBadge, 0)})

\* BadgeWatchPid: the process that a badge is linked to has ended.
ClearById(id, o) == PublishAll({Event(made + 1, "clearbyid", o, NoBadge, id)})

\* Broker.Publish finds the subscribers of the event ...
About(e) == IF e.kind = "clearall" THEN Orefs ELSE {e.oref}
Crossing(e) == UNION {IF (e.kind = "set") # (s.ev.kind = "set") THEN About(e) \intersect About(s.ev) ELSE {} : s \in sending}
Subscribed == {p \in Pages : phase[p] = "subscribed"}
Late == {p \in Pages : phase[p] \in {"answered", "loaded"}}

\* A clear that meets no event leaves no badge anywhere, once it has come to the
\* backend; no page is between the backend's badges and its subscription.
Healed(e) ==
  IF e.kind \in {"clear", "clearall"} /\ Late = {}
  THEN {o \in About(e) : \A s \in sending : o \notin About(s.ev)} ELSE {}

BrokerPublish(e) ==
  /\ e \in asked
  /\ asked' = asked \ {e}
  /\ sending' = sending \union {[ev |-> e, to |-> Subscribed \union {Backend}]}
  /\ apart' = (apart \ Healed(e)) \union Crossing(e) \union (IF Late = {} THEN {} ELSE About(e))
  /\ UNCHANGED <<badges, phase, snapshot, inbox, made>>

\* ... and sends it to them. The backend handles it in a goroutine.
SendEvent(s, r) ==
  /\ s \in sending /\ r \in s.to
  /\ sending' = (sending \ {s}) \union (IF s.to = {r} THEN {} ELSE {[s EXCEPT !.to = @ \ {r}]})
  /\ IF r = Backend
     THEN badges' = [badges EXCEPT ![Backend] = Handled(@, s.ev)] /\ UNCHANGED inbox
     ELSE inbox' = [inbox EXCEPT ![r] = Append(@, s.ev)] /\ UNCHANGED badges
  /\ UNCHANGED <<phase, snapshot, asked, made, apart>>

HandleBadgeEvent(p) ==
  /\ inbox[p] # <<>>
  /\ badges' = [badges EXCEPT ![p] = Handled(@, Head(inbox[p]))]
  /\ inbox' = [inbox EXCEPT ![p] = Tail(@)]
  /\ UNCHANGED <<phase, snapshot, asked, sending, made, apart>>

(***************************************************************************)
(* A page opens                                                            *)
(***************************************************************************)
At(p, from, to) == phase[p] = from /\ phase' = [phase EXCEPT ![p] = to]

loadBadges(p) ==
  /\ At(p, "new", "asking")
  /\ UNCHANGED <<badges, snapshot, asked, sending, inbox, made, apart>>

\* What the backend has not handled yet the page misses.
GetAllBadges(p) ==
  /\ At(p, "asking", "answered")
  /\ snapshot' = [snapshot EXCEPT ![p] = badges[Backend]]
  /\ apart' = apart \union UNION {About(s.ev) : s \in {x \in sending : Backend \in x.to}}
  /\ UNCHANGED <<badges, asked, sending, inbox, made>>

\* The end of loadBadges, and setupBadgesSubscription
setupBadgesSubscription(p) ==
  /\ At(p, "answered", "loaded")
  /\ badges' = [badges EXCEPT ![p] = [o \in Orefs |-> IF snapshot[p][o] # NoBadge THEN snapshot[p][o] ELSE @[o]]]
  /\ UNCHANGED <<snapshot, asked, sending, inbox, made, apart>>

Subscribe(p) ==
  /\ At(p, "loaded", "subscribed")
  /\ UNCHANGED <<badges, snapshot, asked, sending, inbox, made, apart>>

BadgesNext ==
  \/ \E o \in Orefs :
       \/ \E priority \in Priorities, pidlinked \in BOOLEAN : setBadge(o, priority, pidlinked)
       \/ WshClear(o)
       \/ \E p \in Pages : clearBadgesOnFocus(p, o)
       \/ \E id \in 1 .. made : ClearById(id, o)
  \/ clearAllBadges
  \/ \E e \in asked : BrokerPublish(e)
  \/ \E s \in sending : \E r \in s.to : SendEvent(s, r)
  \/ \E p \in Pages :
       \/ clearBadgesForTab(p) \/ HandleBadgeEvent(p)
       \/ loadBadges(p) \/ GetAllBadges(p) \/ setupBadgesSubscription(p) \/ Subscribe(p)

BadgesSpec == BadgesInit /\ [][BadgesNext]_badgesVars

-----------------------------------------------------------------------------
(* Properties *)

\* With no event under way all pages show the backend's badges, in whatever order
\* each got the events, but for an oref of which a clear met a badge or a page
\* missed an event; and the next clear mends that.
BadgesAgree ==
  asked = {} /\ sending = {} /\ (\A p \in Pages : inbox[p] = <<>>) =>
    \A p \in Subscribed, o \in Orefs \ apart : badges[p][o] = badges[Backend][o]
=============================================================================
