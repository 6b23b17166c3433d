---------------------------- MODULE TsunamiModel ----------------------------
(***************************************************************************)
(* A Tsunami app: the page (tsunami/frontend/src/model/tsunami-model.tsx)  *)
(* shows what the app renders (tsunami/engine). Events go with the page's  *)
(* requests; when the app changes its state by itself the notifier         *)
(* (asyncnotify.go) nudges the page over server-sent events, which also    *)
(* carry modals. The app restarts, the page is reloaded, the event stream  *)
(* breaks or drops an event, and requests fail.                            *)
(***************************************************************************)
EXTENDS UpdateCycle

CONSTANT Modals   \* the modals that the app may show

VARIABLES
  app,       \* the backend: server id, version of its state, effect queue, open modals
  notify,    \* the batch, the wake-up and the timer of asyncInitiationLoop
  sse,       \* the event stream, and what is in it
  fe,        \* the page; m is its update cycle
  req,       \* the render request on its way, or Absent
  results,   \* modal results on their way
  appCount,  \* how many inputs, changes, effects and faults there were
  displayed, \* the modals that were shown
  appRan,    \* history: the events the app ran
  told,      \* history: the version the page was last nudged about
  appOdd     \* history: what makes an update get lost

appVars == <<app, notify, sse, fe, req, results, appCount, displayed, appRan, told, appOdd>>

PageRequests == [resync : BOOLEAN, events : Seq(Nat), answered : BOOLEAN, id : Nat, version : Nat,
                 hasWork : BOOLEAN]

\* Absent is no request, no version, no server and no modal.
ASSUME PageRequestAssumption == Absent \notin PageRequests /\ Absent \notin Nat /\ Absent \notin Modals

-----------------------------------------------------------------------------
(* Initial state *)

NewApp(n) == [id |-> n, version |-> 0, effect |-> FALSE, modals |-> {}]
QuietNotify == [batch |-> FALSE, wake |-> FALSE, armed |-> FALSE, at |-> "select"]
NewAppPage == [m |-> QueueUpdate(Fresh, "quick", FALSE), serverId |-> Absent, root |-> Absent,
               version |-> FALSE, modal |-> Absent]
DownSse == [at |-> "down", q |-> <<>>]

AppInit ==
  /\ app = NewApp(1) /\ notify = QuietNotify
  /\ sse = DownSse /\ fe = NewAppPage /\ req = Absent /\ results = {}
  /\ appCount = [inputs |-> 0, changes |-> 0, effects |-> 0, faults |-> 0]
  /\ displayed = {} /\ appRan = <<>> /\ told = 0 /\ appOdd = {}

-----------------------------------------------------------------------------
(* The app. *)

\* SendSSEvent: nobody hears it while no stream is registered. A nudge carries no id.
Stream(event) == IF sse.at = "open" THEN [sse EXCEPT !.q = Append(@, event)] ELSE sse
Unheard(kind) == IF sse.at = "open" THEN {} ELSE {kind}
Nudge == [type |-> "asyncinitiation", id |-> Absent]

\* Atom.Set outside of a request, and notifyAsyncRenderWork.
AppChange ==
  /\ appCount.changes < MaxChanges
  /\ appCount' = [appCount EXCEPT !.changes = @ + 1]
  /\ app' = [app EXCEPT !.version = @ + 1]
  /\ notify' = [notify EXCEPT !.batch = TRUE, !.wake = TRUE]
  /\ appOdd' = IF notify.at = "sent" THEN appOdd \cup {"raced"} ELSE appOdd
  /\ UNCHANGED <<sse, fe, req, results, displayed, appRan, told>>

\* asyncInitiationLoop: a wake-up arms the timer while there is a batch.
Wake ==
  /\ notify.at = "select" /\ notify.wake
  /\ notify' = [notify EXCEPT !.wake = FALSE, !.armed = notify.batch]
  /\ UNCHANGED <<app, sse, fe, req, results, appCount, displayed, appRan, told, appOdd>>

Fire ==
  /\ notify.at = "select" /\ notify.armed
  /\ sse' = Stream(Nudge)
  /\ notify' = [notify EXCEPT !.armed = FALSE, !.at = "sent"]
  /\ told' = app.version
  /\ appOdd' = appOdd \cup Unheard("unheard")
  /\ UNCHANGED <<app, fe, req, results, appCount, displayed, appRan>>

CloseBatch ==
  /\ notify.at = "sent"
  /\ notify' = [notify EXCEPT !.batch = FALSE, !.at = "select"]
  /\ UNCHANGED <<app, sse, fe, req, results, appCount, displayed, appRan, told, appOdd>>

\* processFrontendUpdate: a resync closes the modals, the events run, the effects
\* of the last render run, and the whole app is rendered.
AppRender(newEffect) ==
  /\ req # Absent /\ ~req.answered
  /\ newEffect => appCount.effects < MaxEffects
  /\ appCount' = [appCount EXCEPT !.effects = IF newEffect THEN @ + 1 ELSE @]
  /\ LET v == app.version + Len(req.events) + (IF app.effect THEN 1 ELSE 0)
     IN /\ app' = [app EXCEPT !.version = v, !.effect = newEffect, !.modals = IF req.resync THEN {} ELSE @]
        /\ req' = [req EXCEPT !.answered = TRUE, !.id = app.id, !.version = v, !.hasWork = newEffect]
  /\ appRan' = appRan \o req.events
  /\ UNCHANGED <<notify, sse, fe, results, displayed, told, appOdd>>

Coming == {sse.q[i].id : i \in {j \in DOMAIN sse.q : sse.q[j].type = "showmodal"}}

\* UseAlertModal or UseConfirmModal and ShowModal.
ShowModal(d) ==
  /\ d \notin displayed
  /\ displayed' = displayed \cup {d}
  /\ app' = [app EXCEPT !.modals = @ \cup {d}]
  /\ sse' = Stream([type |-> "showmodal", id |-> d])
  /\ appOdd' = appOdd \cup Unheard("unheard modal")
                 \cup (IF app.modals # {} \/ fe.modal # Absent \/ results # {} \/ Coming # {}
                       THEN {"overlap"} ELSE {})
  /\ UNCHANGED <<notify, fe, req, results, appCount, appRan, told>>

-----------------------------------------------------------------------------
(* The page. *)

\* callVDomFunc (a click) is quick, keyDownHandler is slow.
AppInput(kind, due) ==
  /\ fe.root # Absent
  /\ appCount.inputs < MaxInputs
  /\ appCount' = [appCount EXCEPT !.inputs = @ + 1]
  /\ fe' = [fe EXCEPT !.m = QueueUpdate(Batch(@, appCount.inputs + 1), kind, due)]
  /\ UNCHANGED <<app, notify, sse, req, results, displayed, appRan, told, appOdd>>

\* _sendRenderRequest(force)
AppTimer(kind) ==
  /\ Armed(fe.m, kind)
  /\ LET m == Fired(fe.m, kind)
     IN IF m.pending
        THEN /\ fe' = [fe EXCEPT !.m = Refused(m, kind)]
             /\ appOdd' = IF kind = "slow" THEN appOdd \cup {"unforced"} ELSE appOdd
             /\ UNCHANGED req
        ELSE /\ fe' = [fe EXCEPT !.m = RequestSent(m)]
             /\ req' = [resync |-> m.resync, events |-> m.events, answered |-> FALSE, id |-> 0,
                        version |-> 0, hasWork |-> FALSE]
             /\ UNCHANGED appOdd
  /\ UNCHANGED <<app, notify, sse, results, appCount, displayed, appRan, told>>

\* reset forgets the queued update, not its timer, and starts from a resync.
ResetCycle(m) == [Fresh EXCEPT !.quick = m.quick, !.slow = m.slow, !.pending = m.pending]

\* The answer is of an app that has been started again.
Again(p, u) == p.serverId \notin {Absent, u.id}

\* mutation: the work of the backend is not noted
HandleUpdateNoWork(p, u) ==
  [p EXCEPT !.serverId = u.id, !.root = u.version, !.version = TRUE,
            !.m = IF Again(p, u) THEN ResetCycle(@) ELSE @]

\* handleBackendUpdate
HandleBackendUpdate(p, u) ==
  [p EXCEPT !.serverId = u.id, !.root = u.version, !.version = TRUE,
            !.m = NoteWork(IF Again(p, u) THEN ResetCycle(@) ELSE @, u.hasWork)]

AppAnswer(due) ==
  /\ req # Absent /\ req.answered
  /\ req' = Absent
  /\ fe' = [HandleBackendUpdate(fe, req) EXCEPT !.m = SettleRequest(@, due)]
  /\ sse' = IF Again(fe, req) \/ sse.at = "closed" THEN DownSse ELSE sse
  /\ appOdd' = appOdd \cup (IF Again(fe, req) THEN {"restart"} ELSE {})
  /\ UNCHANGED <<app, notify, results, appCount, displayed, appRan, told>>

\* The effect of VDomRoot that calls renderDone.
AppRendered(due) ==
  /\ fe.version
  /\ fe' = [fe EXCEPT !.version = FALSE, !.m = RenderDone(@, due)]
  /\ UNCHANGED <<app, notify, sse, req, results, appCount, displayed, appRan, told, appOdd>>

\* The listeners of setupServerEventSource.
Hear(due) ==
  /\ sse.q # <<>>
  /\ sse' = [sse EXCEPT !.q = Tail(@)]
  /\ fe' = IF Head(sse.q).type = "showmodal" THEN [fe EXCEPT !.modal = Head(sse.q).id]
           ELSE [fe EXCEPT !.m = QueueUpdate(@, "quick", due)]
  /\ UNCHANGED <<app, notify, req, results, appCount, displayed, appRan, told, appOdd>>

\* sendModalResult clears whatever modal there is when its request ends.
SendModalResult ==
  /\ fe.modal # Absent /\ [id |-> fe.modal, back |-> FALSE] \notin results
  /\ results' = results \cup {[id |-> fe.modal, back |-> FALSE]}
  /\ UNCHANGED <<app, notify, sse, fe, req, appCount, displayed, appRan, told, appOdd>>

CloseModal(r) ==
  /\ ~r.back
  /\ results' = (results \ {r}) \cup {[r EXCEPT !.back = TRUE]}
  /\ app' = [app EXCEPT !.modals = @ \ {r.id}]
  /\ UNCHANGED <<notify, sse, fe, req, appCount, displayed, appRan, told, appOdd>>

ModalResultSent(r) ==
  /\ r.back
  /\ results' = results \ {r}
  /\ fe' = [fe EXCEPT !.modal = Absent]
  /\ UNCHANGED <<app, notify, sse, req, appCount, displayed, appRan, told, appOdd>>

\* The browser connects the stream, again after it broke.
Connect ==
  /\ sse.at = "down"
  /\ sse' = [sse EXCEPT !.at = "open"]
  /\ UNCHANGED <<app, notify, fe, req, results, appCount, displayed, appRan, told, appOdd>>

-----------------------------------------------------------------------------
(* The faults. *)

AppFault == appCount.faults < MaxFaults /\ appCount' = [appCount EXCEPT !.faults = @ + 1]

\* A request is not answered, before or after the app handled it.
AppRequestFails ==
  /\ AppFault
  /\ req # Absent
  /\ req' = Absent
  /\ fe' = [fe EXCEPT !.m = RequestEnded(@)]
  /\ appOdd' = appOdd \cup {"failed"}
  /\ UNCHANGED <<app, notify, sse, results, displayed, appRan, told>>

\* The stream breaks; an error status closes it for good.
Break ==
  /\ AppFault
  /\ sse.at = "open"
  /\ \E at \in {"down", "closed"} : sse' = [at |-> at, q |-> <<>>]
  /\ appOdd' = IF sse.q # <<>> THEN appOdd \cup {"unheard", "unheard modal"} ELSE appOdd
  /\ UNCHANGED <<app, notify, fe, req, results, displayed, appRan, told>>

\* SendSSEvent drops an event, and says nothing, when the channel of the stream is full.
StreamFull ==
  /\ AppFault
  /\ sse.q # <<>>
  /\ sse' = [sse EXCEPT !.q = Front(@)]
  /\ appOdd' = appOdd \cup {"unheard", "unheard modal"}
  /\ UNCHANGED <<app, notify, fe, req, results, displayed, appRan, told>>

Restart ==
  /\ AppFault
  /\ app' = NewApp(app.id + 1) /\ notify' = QuietNotify /\ told' = 0
  /\ sse' = IF sse.at = "open" THEN DownSse ELSE sse
  /\ results' = {[r EXCEPT !.back = TRUE] : r \in results}
  /\ req' = Absent
  /\ fe' = IF req = Absent THEN fe ELSE [fe EXCEPT !.m = RequestEnded(@)]
  /\ appOdd' = appOdd \cup {"failed"}
  /\ UNCHANGED <<displayed, appRan>>

Reload ==
  /\ AppFault
  /\ fe' = NewAppPage /\ sse' = DownSse /\ req' = Absent /\ results' = {}
  /\ appOdd' = appOdd \cup {"reload"}
  /\ UNCHANGED <<app, notify, displayed, appRan, told>>

AppStep == Wake \/ Fire \/ CloseBatch \/ \E b \in BOOLEAN : AppRender(b)
PageStep == \E due \in BOOLEAN : AppAnswer(due) \/ AppRendered(due) \/ Hear(due)
Timers == AppTimer("quick") \/ AppTimer("slow")
ModalStep == \E r \in results : CloseModal(r) \/ ModalResultSent(r)

AppNext ==
  \/ AppChange \/ AppStep \/ \E d \in Modals : ShowModal(d)
  \/ \E kind \in {"quick", "slow"}, due \in BOOLEAN : AppInput(kind, due)
  \/ Timers \/ PageStep \/ ModalStep \/ SendModalResult \/ Connect
  \/ AppRequestFails \/ Break \/ StreamFull \/ Restart \/ Reload

AppSpec == AppInit /\ [][AppNext]_appVars

\* The app answers, timers fire, the page handles what it gets, the browser connects.
AppFairness == WF_appVars(AppStep) /\ WF_appVars(Timers) /\ WF_appVars(PageStep)
               /\ WF_appVars(ModalStep) /\ WF_appVars(Connect)

-----------------------------------------------------------------------------
(* Properties *)

AppTypeOK ==
  /\ app \in [id : Nat, version : Nat, effect : BOOLEAN, modals : SUBSET Modals]
  /\ notify \in [batch : BOOLEAN, wake : BOOLEAN, armed : BOOLEAN, at : {"select", "sent"}]
  /\ sse \in [at : {"down", "open", "closed"},
              q : Seq([type : {"asyncinitiation", "showmodal"}, id : Modals \cup {Absent}])]
  /\ fe \in [m : Cycles, serverId : Nat \cup {Absent}, root : Nat \cup {Absent}, version : BOOLEAN,
             modal : Modals \cup {Absent}]
  /\ req \in PageRequests \cup {Absent}
  /\ results \subseteq [id : Modals, back : BOOLEAN] /\ displayed \subseteq Modals
  /\ appCount \in [inputs : Nat, changes : Nat, effects : Nat, faults : Nat]
  /\ appRan \in Seq(Nat) /\ told \in Nat

QuietApp == notify = QuietNotify /\ sse.q = <<>> /\ req = Absent
QuietPage == CycleIdle(fe.m) /\ ~fe.version

\* When nothing moves any more the page shows the state of the app, has no event
\* left and no effect waits for a render, unless an update was lost in one of the
\* ways the code has: a nudge that no stream carried, or a full one, or that came between the
\* sending and the closing of a batch, a slow timer that met a request, a request
\* that failed, a restart.
AppUpToDate ==
  QuietApp /\ QuietPage /\ appOdd \cap {"unheard", "raced", "unforced", "failed", "restart"} = {} =>
    /\ fe.root = app.version /\ fe.serverId = app.id
    /\ fe.m.events = <<>> /\ ~app.effect

\* The app runs the events in the order they were made, each at most once,
\* whatever fails, restarts or is reloaded.
RunInOrder == Rising(appRan)

\* An event is lost only by a failed request, a restart or a reload.
NoEventLost ==
  appOdd \cap {"failed", "restart", "reload"} = {} =>
    1 .. appCount.inputs \subseteq ToSet(appRan) \cup ToSet(fe.m.events) \cup CarriedBy(req)

\* What is on the page is never newer than the app, and of the same app never
\* goes back.
NeverBack ==
  [][fe.root # Absent /\ fe'.root # Absent /\ fe.serverId = fe'.serverId => fe'.root >= fe.root]_appVars

\* An open modal is on its way to the page or on it, when modals come one after
\* the other and the stream is up.
ModalFollowed ==
  appOdd \cap {"unheard modal", "overlap", "reload", "failed", "restart"} = {} =>
    \A d \in app.modals : fe.modal = d \/ d \in Coming

\* A page and its app agree: at rest the page shows the app's state and an open
\* modal is on its way to it, and the app runs the events once, in order.
AppAgrees == AppUpToDate /\ RunInOrder /\ NoEventLost /\ ModalFollowed
=============================================================================
