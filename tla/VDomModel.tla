----------------------------- MODULE VDomModel -----------------------------
(***************************************************************************)
(* A Wave app in a block: the view (frontend/app/view/vdom/vdom-model.tsx) *)
(* waits for the app's route, then sends render requests over the RPC      *)
(* link; the app (pkg/waveapp) answers with an update in several chunks.   *)
(* The app's side of a request has 5 s: what does not get out by then may  *)
(* be left out of the answer, its end included, and the view, which sets   *)
(* no timeout, is not told. The app ends by itself, by Ctrl-C in the view  *)
(* or because the block is closed; the view hears of it by route:down.     *)
(***************************************************************************)
EXTENDS UpdateCycle

CONSTANT MaxChunks   \* bound: chunks of an update

VARIABLES
  waveApp,   \* the app: is it up, version of its state, an effect that waits
  link,      \* the route: answer to WaitForRoute, subscription and event of route:down, nudges
  view,      \* the view; m is its update cycle
  request,   \* the render request on its way, or Absent
  vdomCount,       \* how many inputs, changes, effects and faults there were
  vdomRan,   \* history: the events the app ran
  vdomOdd    \* history: what makes an update get lost

vdomVars == <<waveApp, link, view, request, vdomCount, vdomRan, vdomOdd>>

\* The app's update has a number of chunks; of these so many come, and the first one, the
\* head, and the end of the answer or not.
Requests == [resync : BOOLEAN, events : Seq(Nat), dispose : BOOLEAN, at : {"sent", "answered"},
             chunks : Nat, coming : Nat, head : BOOLEAN, ends : BOOLEAN, got : Nat, version : Nat,
             hasWork : BOOLEAN]

\* Absent is no request and no version.
ASSUME RequestAssumption == Absent \notin Requests /\ Absent \notin Nat

-----------------------------------------------------------------------------
(* Initial state *)

\* The constructor queues an update, subscribes to route:down and waits for the
\* route: the block of a persisted view may be opened when its app is gone.
VDomInit ==
  /\ \E up \in BOOLEAN : waveApp = [up |-> up, version |-> 0, effect |-> FALSE]
  /\ link = [wait |-> "asked", subscribed |-> FALSE, down |-> FALSE, nudges |-> 0]
  /\ \E persist \in BOOLEAN :
       view = [m |-> QueueUpdate(Fresh, "quick", FALSE), confirmed |-> FALSE, disposing |-> FALSE,
               disposed |-> FALSE, closed |-> FALSE, root |-> Absent, whole |-> TRUE,
               version |-> FALSE, persist |-> persist]
  /\ request = Absent
  /\ vdomCount = [inputs |-> 0, changes |-> 0, effects |-> 0, faults |-> 0]
  /\ vdomRan = <<>> /\ vdomOdd = {}

QueueUnlessDisposed(p, kind, due) ==
  IF p.disposed THEN p ELSE [p EXCEPT !.m = QueueUpdate(@, kind, due)]

\* doShutdown: the connection ends and with it the route.
AppGone ==
  /\ waveApp' = [waveApp EXCEPT !.up = FALSE]
  /\ link' = [link EXCEPT !.down = @ \/ (link.subscribed /\ ~view.closed)]
  /\ vdomOdd' = IF link.subscribed THEN vdomOdd ELSE vdomOdd \cup {"missed"}

-----------------------------------------------------------------------------
(* The app and the backend. *)

\* WaitForRouteCommand and EventSubCommand run at the same time.
WaitForRoute ==
  /\ link.wait = "asked"
  /\ link' = [link EXCEPT !.wait = IF waveApp.up THEN "yes" ELSE "no"]
  /\ UNCHANGED <<waveApp, view, request, vdomCount, vdomRan, vdomOdd>>

SubscribeRouteDown ==
  /\ ~link.subscribed
  /\ link' = [link EXCEPT !.subscribed = TRUE]
  /\ UNCHANGED <<waveApp, view, request, vdomCount, vdomRan, vdomOdd>>

\* The app changes its state and calls SendAsyncInitiation.
VDomChange ==
  /\ vdomCount.changes < MaxChanges /\ waveApp.up
  /\ vdomCount' = [vdomCount EXCEPT !.changes = @ + 1]
  /\ waveApp' = [waveApp EXCEPT !.version = @ + 1]
  /\ link' = IF view.closed THEN link ELSE [link EXCEPT !.nudges = @ + 1]
  /\ UNCHANGED <<view, request, vdomRan, vdomOdd>>

\* VDomRenderCommand: events, effects, a render of the whole app, and the chunks.
VDomRender(newEffect, chunks) ==
  /\ request # Absent /\ request.at = "sent" /\ waveApp.up /\ ~request.dispose
  /\ newEffect => vdomCount.effects < MaxEffects
  /\ vdomCount' = [vdomCount EXCEPT !.effects = IF newEffect THEN @ + 1 ELSE @]
  /\ LET v == waveApp.version + Len(request.events) + (IF waveApp.effect THEN 1 ELSE 0)
     IN /\ waveApp' = [waveApp EXCEPT !.version = v, !.effect = newEffect]
        /\ request' = [request EXCEPT !.at = "answered", !.version = v, !.hasWork = newEffect,
                                       !.chunks = chunks, !.coming = chunks]
  /\ vdomRan' = vdomRan \o request.events
  /\ UNCHANGED <<link, view, vdomOdd>>

\* A handler, an effect or a component of the app panics when so many events have run. The
\* recovered call returns no channel, which is answered like one without an update.
VDomPanics(ran, worked) ==
  /\ request # Absent /\ request.at = "sent" /\ waveApp.up /\ ~request.dispose
  /\ worked => ran = Len(request.events)
  /\ vdomCount.faults < MaxFaults
  /\ vdomCount' = [vdomCount EXCEPT !.faults = @ + 1]
  /\ waveApp' = [waveApp EXCEPT !.version = @ + ran + (IF worked /\ waveApp.effect THEN 1 ELSE 0),
                                 !.effect = @ /\ ~worked]
  /\ request' = [request EXCEPT !.at = "answered"]
  /\ vdomRan' = vdomRan \o SubSeq(request.events, 1, ran)
  /\ vdomOdd' = vdomOdd \cup {"failed"}
  /\ UNCHANGED <<link, view>>

\* SendResponse after the timeout: once the context of the request is done each chunk, and
\* the end, goes out or not. Of an app that has gone the rest of the answer may be missing.
AnswerCut(coming, head, ends) ==
  /\ request # Absent /\ request.at = "answered"
  /\ request.got <= coming /\ coming <= request.coming
  /\ head => request.head
  /\ ends => request.ends
  /\ head # request.head => request.got = 0 /\ coming < request.coming
  /\ request' = [request EXCEPT !.coming = coming, !.head = head, !.ends = ends]
  /\ request' # request
  /\ IF waveApp.up THEN /\ vdomCount.faults < MaxFaults
                         /\ vdomCount' = [vdomCount EXCEPT !.faults = @ + 1]
                    ELSE head = request.head /\ ~ends /\ UNCHANGED vdomCount
  /\ vdomOdd' = vdomOdd \cup {"cut"}
  /\ UNCHANGED <<waveApp, link, view, vdomRan>>

\* VDomRenderCommand with dispose: nothing is sent back.
VDomDispose ==
  /\ request # Absent /\ request.at = "sent" /\ waveApp.up /\ request.dispose
  /\ AppGone
  /\ request' = [request EXCEPT !.at = "answered"]
  /\ UNCHANGED <<view, vdomCount, vdomRan>>

\* The listener of "blockclose"; or the app ends by itself.
BlockClosed ==
  /\ waveApp.up /\ view.closed
  /\ AppGone
  /\ UNCHANGED <<view, request, vdomCount, vdomRan>>

AppEnds ==
  /\ waveApp.up /\ vdomCount.faults < MaxFaults
  /\ vdomCount' = [vdomCount EXCEPT !.faults = @ + 1]
  /\ AppGone
  /\ UNCHANGED <<view, request, vdomRan>>

-----------------------------------------------------------------------------
(* The view. *)

\* The answer of WaitForRoute.
RouteKnown(due) ==
  /\ link.wait \in {"yes", "no"}
  /\ link' = [link EXCEPT !.wait = "done"]
  /\ view' = IF link.wait = "yes" THEN QueueUnlessDisposed([view EXCEPT !.confirmed = TRUE], "quick", due)
             ELSE [view EXCEPT !.disposed = TRUE, !.closed = @ \/ ~view.persist]
  /\ UNCHANGED <<waveApp, request, vdomCount, vdomRan, vdomOdd>>

\* mutation: only a view that shows something is closed
RouteDownShown ==
  /\ link.down
  /\ link' = [link EXCEPT !.down = FALSE]
  /\ view' = IF view.root = Absent THEN view
             ELSE [view EXCEPT !.disposed = TRUE, !.closed = @ \/ ~view.persist]
  /\ UNCHANGED <<waveApp, request, vdomCount, vdomRan, vdomOdd>>

\* The handler of route:down.
RouteDown ==
  /\ link.down
  /\ link' = [link EXCEPT !.down = FALSE]
  /\ view' = IF view.closed THEN view ELSE [view EXCEPT !.disposed = TRUE, !.closed = ~view.persist]
  /\ UNCHANGED <<waveApp, request, vdomCount, vdomRan, vdomOdd>>

\* handle_vdomasyncinitiation
AsyncInitiation(due) ==
  /\ link.nudges > 0
  /\ link' = [link EXCEPT !.nudges = @ - 1]
  /\ view' = IF view.closed THEN view ELSE QueueUnlessDisposed(view, "quick", due)
  /\ UNCHANGED <<waveApp, request, vdomCount, vdomRan, vdomOdd>>

\* callVDomFunc (a click) is quick, keyDownHandler is slow; the events of a
\* disposed view are batched and never sent.
VDomInput(kind, due) ==
  /\ view.root # Absent /\ ~view.closed
  /\ vdomCount.inputs < MaxInputs
  /\ vdomCount' = [vdomCount EXCEPT !.inputs = @ + 1]
  /\ view' = QueueUnlessDisposed([view EXCEPT !.m = Batch(@, vdomCount.inputs + 1)], kind, due)
  /\ UNCHANGED <<waveApp, link, request, vdomRan, vdomOdd>>

\* keyDownHandler with closeonctrlc
CtrlC(due) ==
  /\ view.root # Absent /\ ~view.closed /\ ~view.disposing
  /\ view' = QueueUnlessDisposed([view EXCEPT !.disposing = TRUE], "quick", due)
  /\ UNCHANGED <<waveApp, link, request, vdomCount, vdomRan, vdomOdd>>

\* The user closes the block, and dispose; a timer may be left.
CloseBlock ==
  /\ ~view.closed
  /\ view' = [view EXCEPT !.closed = TRUE, !.version = FALSE]
  /\ UNCHANGED <<waveApp, link, request, vdomCount, vdomRan, vdomOdd>>

\* _sendRenderRequest(force)
VDomTimer(kind) ==
  /\ Armed(view.m, kind)
  /\ LET m == Fired(view.m, kind)
         silent == view.disposed \/ ~view.confirmed
     IN /\ view' = IF silent THEN [view EXCEPT !.m = m]
                   ELSE IF m.pending THEN [view EXCEPT !.m = Refused(m, kind)]
                   ELSE [view EXCEPT !.m = RequestSent(m), !.disposed = view.disposing]
        /\ vdomOdd' = IF ~silent /\ m.pending /\ kind = "slow" THEN vdomOdd \cup {"unforced"} ELSE vdomOdd
        /\ request' = IF silent \/ m.pending THEN request
                      ELSE [resync |-> m.resync, events |-> m.events, dispose |-> view.disposing,
                            at |-> "sent", chunks |-> 0, coming |-> 0, head |-> TRUE, ends |-> TRUE,
                            got |-> 0, version |-> 0, hasWork |-> FALSE]
  /\ UNCHANGED <<waveApp, link, vdomCount, vdomRan>>

\* mergeBackendUpdates
Chunk ==
  /\ request # Absent /\ request.got < request.coming
  /\ request' = [request EXCEPT !.got = @ + 1]
  /\ UNCHANGED <<waveApp, link, view, vdomCount, vdomRan, vdomOdd>>

SettledView(p, due) ==
  IF p.disposed THEN [p EXCEPT !.m = RequestEnded(@)] ELSE [p EXCEPT !.m = SettleRequest(@, due)]

\* handleBackendUpdate; the root and haswork are in the first chunk.
UpdateHandled(p, u) ==
  IF u.head THEN [p EXCEPT !.root = u.version, !.whole = (u.got = u.chunks), !.version = ~p.closed,
                           !.m = NoteWork(@, u.hasWork)]
  ELSE [p EXCEPT !.version = ~p.closed]

\* The end of the stream, and handleBackendUpdate.
VDomAnswer(due) ==
  /\ request # Absent /\ request.at = "answered" /\ request.ends /\ request.got = request.coming
  /\ request' = Absent
  /\ view' = SettledView(IF request.got = 0 THEN view ELSE UpdateHandled(view, request), due)
  /\ UNCHANGED <<waveApp, link, vdomCount, vdomRan, vdomOdd>>

\* The effect of VDomRoot that calls renderDone; an effect whose update is not
\* queued because the view is disposed is forgotten.
VDomRendered(due) ==
  /\ view.version
  /\ view' = [view EXCEPT !.version = FALSE,
                          !.m = IF view.disposed THEN [@ EXCEPT !.work = FALSE] ELSE RenderDone(@, due)]
  /\ UNCHANGED <<waveApp, link, request, vdomCount, vdomRan, vdomOdd>>

\* The router has no route to an app that is gone. A request that was handed to the app
\* before is not answered at all.
VDomRequestFails ==
  /\ request # Absent /\ request.at = "sent" /\ ~waveApp.up
  /\ request' = Absent
  /\ view' = [view EXCEPT !.m = RequestEnded(@)]
  /\ vdomOdd' = vdomOdd \cup {"failed"}
  /\ UNCHANGED <<waveApp, link, vdomCount, vdomRan>>

VDomBackend == WaitForRoute \/ SubscribeRouteDown \/ BlockClosed \/ VDomDispose
               \/ \E b \in BOOLEAN, n \in 1 .. MaxChunks : VDomRender(b, n)
ViewStep == \/ VDomTimer("quick") \/ VDomTimer("slow") \/ RouteDown \/ Chunk
            \/ \E due \in BOOLEAN : \/ RouteKnown(due) \/ AsyncInitiation(due)
                                    \/ VDomAnswer(due) \/ VDomRendered(due)

VDomNext ==
  \/ VDomBackend \/ ViewStep \/ VDomChange \/ AppEnds \/ CloseBlock \/ VDomRequestFails
  \/ request # Absent /\ \E ran \in 0 .. Len(request.events), worked \in BOOLEAN : VDomPanics(ran, worked)
  \/ \E coming \in 0 .. MaxChunks, head, ends \in BOOLEAN : AnswerCut(coming, head, ends)
  \/ \E due \in BOOLEAN : CtrlC(due) \/ \E kind \in {"quick", "slow"} : VDomInput(kind, due)

VDomSpec == VDomInit /\ [][VDomNext]_vdomVars

\* The backend and the app answer, timers fire and the view handles what it gets. That a
\* request to an app that is gone fails is not assumed.
VDomFairness == WF_vdomVars(VDomBackend) /\ WF_vdomVars(ViewStep)

-----------------------------------------------------------------------------
(* Properties *)

VDomTypeOK ==
  /\ waveApp \in [up : BOOLEAN, version : Nat, effect : BOOLEAN]
  /\ link \in [wait : {"asked", "yes", "no", "done"}, subscribed : BOOLEAN, down : BOOLEAN, nudges : Nat]
  /\ view \in [m : Cycles, confirmed : BOOLEAN, disposing : BOOLEAN, disposed : BOOLEAN, closed : BOOLEAN,
               root : Nat \cup {Absent}, whole : BOOLEAN, version : BOOLEAN, persist : BOOLEAN]
  /\ request \in Requests \cup {Absent}
  /\ vdomCount \in [inputs : Nat, changes : Nat, effects : Nat, faults : Nat]
  /\ vdomRan \in Seq(Nat) /\ vdomOdd \subseteq {"missed", "unforced", "failed", "cut"}

\* When nothing moves any more, a view whose app lives shows its state, has no
\* event left and leaves no effect waiting, whatever came before the route was
\* known: unless a slow timer met a request, a request failed or an answer was cut.
ViewUpToDate ==
  /\ link.wait = "done" /\ link.nudges = 0 /\ request = Absent /\ CycleIdle(view.m) /\ ~view.version
  /\ waveApp.up /\ view.confirmed /\ ~view.disposed /\ ~view.closed
  /\ vdomOdd \cap {"unforced", "failed", "cut"} = {}
  => view.root = waveApp.version /\ view.m.events = <<>> /\ ~waveApp.effect

\* What is shown was put together from all chunks of one answer, unless an answer was
\* cut: restoreVDomElems drops the children whose elements are missing.
WholeUpdates == "cut" \in vdomOdd \/ view.whole

\* The app runs the events in the order they were made, each at most once, and
\* none is lost before the app ends but by a failed request or a disposal; not even
\* when answers are cut.
ViewEventsOnce ==
  /\ Rising(vdomRan)
  /\ waveApp.up /\ "failed" \notin vdomOdd =>
       1 .. vdomCount.inputs \subseteq ToSet(vdomRan) \cup ToSet(view.m.events) \cup CarriedBy(request)

\* A view and its app agree: as long as no answer is cut the view shows whole updates
\* and at rest the app's state; and the app has run every event once, in order, or still
\* gets it.
ViewAgrees == ViewUpToDate /\ WholeUpdates /\ ViewEventsOnce
=============================================================================
