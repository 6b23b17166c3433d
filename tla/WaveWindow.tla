---- MODULE WaveWindow ----
\* The windows of the desktop shell (emain/emain-window.ts) with their tab views
\* and the cache of those (emain/emain-tabview.ts), and the workspaces the
\* backend keeps (pkg/wcore/workspace.go, window.go). A window serializes what
\* changes its contents through a queue of at most two actions; between the
\* awaits of the action in process the user, the timers, the other windows and
\* the pages run. The main process is one thread: while a window is at "turn" or
\* "obtain", a step that no await interrupts, nothing else runs (Quiet).
EXTENDS Naturals, Sequences, FiniteSets, SequencesExt

CONSTANTS Windows, Workspaces, Tabs, Views, None,
          Held,         \* the tabs of each workspace at the start, the first is active
          MaxCacheSize,
          Ops,          \* what the user does in a run
          MaxOps, MaxFailures

VARIABLES
    db,       \* the backend: tabs and active tab of each workspace, workspace of each window,
              \* the saved workspaces (they have a name, an icon and a color), the tabs made so far
    win,      \* the windows
    view,     \* the tab views
    cache,    \* wcvCache: the view of each tab
    recent,   \* the views used less than a second ago (lastUsedTs)
    timers,   \* the pending removeTabViewLater
    asked,    \* calls of the pages between their awaits
    events,   \* electron:closewindow on its way to the shell
    ops, failures,
    lost,     \* history: the actions that were replaced in a queue
    crossed   \* history: the workspaces a window worked on that was not, or not alone, theirs

windowVars == <<db, win, view, cache, recent, timers, asked, events, ops, failures, lost, crossed>>

Replies == {"null", "closewindow", "error"}

\* None is none of the others, and no tab has the name of a reply.
ASSUME WindowAssumption ==
    /\ \A S \in {Workspaces, Tabs, Views, Replies} : None \notin S
    /\ Tabs \cap Replies = {}
    /\ Held \in [Workspaces -> Seq(Tabs)]

Listed(f) == {f[x] : x \in DOMAIN f} \ {None}

----
\* The backend. A workspace without tabs is one that has been deleted.

Exists(s) == db.tabs[s] # <<>>
Owners(d, s) == {w \in Windows : d.win[w] = s}

\* DeleteWorkspace: a saved workspace with tabs stays unless it is forced.
WithoutWorkspace(d, s, force) ==
    IF ~force /\ s \in d.named /\ d.tabs[s] # <<>> THEN d
    ELSE [d EXCEPT !.tabs[s] = <<>>, !.active[s] = None]

\* CloseWindow: the window goes, with its workspace if that may go.
WithoutWindow(d, w) ==
    IF d.win[w] = None THEN d
    ELSE [WithoutWorkspace(d, d.win[w], FALSE) EXCEPT !.win[w] = None]

\* DeleteTab: when the active tab goes the one before it is active.
Position(tabs, t) == CHOOSE i \in DOMAIN tabs : tabs[i] = t
Neighbour(tabs, at) ==
    IF Len(tabs) = 1 THEN None ELSE RemoveAt(tabs, at)[IF at = 1 THEN 1 ELSE at - 1]

WithoutTab(d, s, t) ==
    LET at == Position(d.tabs[s], t) IN
    [d EXCEPT !.tabs[s] = RemoveAt(@, at),
              !.active[s] = IF @ = t THEN Neighbour(d.tabs[s], at) ELSE @]

----
\* The views.

\* WaveTabView.destroy: the tab leaves the cache, whichever view it has there,
\* and the page begins to close. Its "destroyed" event comes later.
Destroyed(vs) == [v \in Views |-> IF v \in vs /\ view[v].life = "live"
                                  THEN [view[v] EXCEPT !.life = "closing"] ELSE view[v]]

Forgotten(c, vs) == [t \in Tabs |-> IF \E v \in vs : view[v].tab = t THEN None ELSE c[t]]

\* removeTabView without force: the tabs that are removed, of some, and the window then.
ActiveTab(w) == IF win[w].active = None THEN None ELSE view[win[w].active].tab
Removed(w, ts) == {t \in ts \ {ActiveTab(w)} : win[w].loaded[t] # None}

\* mutation: the window keeps what is destroyed in its list
UnloadedNothing(w, ts) == win[w]
Unloaded(w, ts) ==
    [win[w] EXCEPT !.loaded = [t \in Tabs |-> IF t \in ts THEN None ELSE win[w].loaded[t]]]
ViewsOf(w, ts) == {win[w].loaded[t] : t \in ts}

\* tryEvictEntry: an active view and one used a moment ago stay; a view whose
\* window is gone is destroyed, any other is removed from its window.
Open(w) == win[w].st = "open"

\* How many windows a "close" handler counts: is this the only one?
Alone(w) == IF \E x \in Windows \ {w} : Open(x) THEN "more" ELSE "sole"
Spared(v) == view[v].active \/ v \in recent
Stale(tried) == {v \in tried : ~Spared(v)}
EvictedFrom(w, tried) ==
    IF Open(w) THEN Removed(w, {view[v].tab : v \in {u \in Stale(tried) : view[u].win = w}}) ELSE {}
Evicted(tried) == {v \in Stale(tried) : ~Open(view[v].win)}
                  \cup UNION {ViewsOf(w, EvictedFrom(w, tried)) : w \in Windows}
AfterEviction(tried) == [w \in Windows |-> Unloaded(w, EvictedFrom(w, tried))]

\* checkAndEvictCache: how many of the cached views are tried. Their order
\* (active first, then lastUsedTs) is any order here.
Tried(c) == {s \in SUBSET Listed(c) :
                Cardinality(s) = IF Cardinality(Listed(c)) > MaxCacheSize
                                 THEN Cardinality(Listed(c)) - MaxCacheSize ELSE 0}

----
\* The windows.

Quiet == \A w \in Windows : win[w].pc \notin {"turn", "obtain"}
NoLoaded == [t \in Tabs |-> None]

Action(op, t, s, backend) == [op |-> op, tab |-> t, ws |-> s, backend |-> backend]

\* _queueActionInternal: at most two actions, a third replaces the second.
Enqueue(w, e) ==
    LET q == win[w].queue IN
    IF Len(q) >= 2
    THEN /\ win' = [win EXCEPT ![w].queue[2] = e]
         /\ lost' = lost \cup {q[2]}
    ELSE /\ win' = [win EXCEPT ![w].queue = Append(q, e),
                               ![w].pc = IF q = <<>> THEN "turn" ELSE @]
         /\ UNCHANGED lost

Asking(op) == Quiet /\ op \in Ops /\ ops < MaxOps /\ ops' = ops + 1
Shows(w) == Open(w) /\ Listed(win[w].loaded) # {}

\* A page of the window sends set-active-tab or create-tab.
SetActiveTab(w, t) ==
    /\ Asking("switchtab") /\ Shows(w) /\ t \in ToSet(db.tabs[win[w].ws])
    /\ Enqueue(w, Action("switchtab", t, None, TRUE))
    /\ UNCHANGED <<db, view, cache, recent, timers, asked, events, failures, crossed>>

CreateTab(w) ==
    /\ Asking("createtab") /\ Shows(w)
    /\ Enqueue(w, Action("createtab", None, None, TRUE))
    /\ UNCHANGED <<db, view, cache, recent, timers, asked, events, failures, crossed>>

\* close-tab: the window is found by the workspace. The page is told true.
CloseTab(w, t) ==
    /\ Asking("closetab") /\ Open(w) /\ t \in ToSet(db.tabs[win[w].ws])
    /\ Enqueue(w, Action("closetab", t, None, TRUE))
    /\ UNCHANGED <<db, view, cache, recent, timers, asked, events, failures, crossed>>

\* switchWorkspace: first the list of the workspaces is awaited ...
Call(w, s, stage, old) == [n |-> ops, win |-> w, ws |-> s, stage |-> stage, old |-> old]
SwitchWorkspace(w, s) ==
    /\ Asking("switchworkspace") /\ Shows(w) /\ Exists(s) /\ s \in db.named /\ s # win[w].ws
    /\ asked' = asked \cup {Call(w, s, "list", None)}
    /\ UNCHANGED <<db, win, view, cache, recent, timers, events, failures, lost, crossed>>

ListWorkspaces(c) ==
    /\ Quiet /\ c.stage = "list"
    /\ asked' = (asked \ {c}) \cup
        {[c EXCEPT !.stage = IF c.ws \in db.named /\ Exists(c.ws) /\ Owners(db, c.ws) # {}
                             THEN "owned" ELSE "free"]}
    /\ UNCHANGED <<db, win, view, cache, recent, timers, events, ops, failures, lost, crossed>>

\* ... then the current workspace: an unsaved one with several tabs keeps its
\* window and the other is opened in a new window. Otherwise the switch is queued.
Unsaved(s) == s \notin db.named /\ Len(db.tabs[s]) > 1
QueueSwitch(c) ==
    /\ Quiet /\ c.stage \in {"free", "owned"}
    /\ c.stage = "owned" \/ ~Unsaved(win[c.win].ws)
    /\ asked' = asked \ {c}
    /\ Enqueue(c.win, Action("switchworkspace", None, c.ws, TRUE))
    /\ UNCHANGED <<db, view, cache, recent, timers, events, ops, failures, crossed>>

\* createWindowForWorkspace, createBrowserWindow: the backend's window, then ours,
\* whose first action shows the active tab.
CreateWindow(c, w) ==
    /\ Quiet /\ c.stage = "free" /\ Unsaved(win[c.win].ws)
    /\ win[w].st = "none" /\ Exists(c.ws)
    /\ asked' = asked \ {c}
    /\ db' = [db EXCEPT !.win[w] = c.ws]
    /\ win' = [win EXCEPT ![w].st = "open", ![w].ws = c.ws, ![w].pc = "turn",
                ![w].queue = <<Action("switchtab", db.active[c.ws], None, FALSE)>>]
    /\ UNCHANGED <<view, cache, recent, timers, events, ops, failures, lost, crossed>>

----
\* The loop of processActionQueue.

\* mutation: the backend is not told of the tab that is shown
TurnLocal(w) ==
    LET q == win[w].queue
        e == q[1]
    IN
    /\ win[w].pc = "turn"
    /\ win' = [win EXCEPT ![w] =
         IF q = <<>> THEN [@ EXCEPT !.pc = "idle"]
         ELSE IF ~Open(w) THEN [@ EXCEPT !.pc = "idle", !.queue = Tail(q)]
         ELSE IF e.op = "switchtab" /\ ActiveTab(w) = e.tab THEN [@ EXCEPT !.queue = Tail(q)]
         ELSE IF e.op = "switchtab" THEN [@ EXCEPT !.pc = "obtain", !.tab = e.tab]
         ELSE [@ EXCEPT !.pc = "call"]]
    /\ UNCHANGED <<db, view, cache, recent, timers, asked, events, ops, failures, lost, crossed>>

Turn(w) ==
    LET q == win[w].queue
        e == q[1]
    IN
    /\ win[w].pc = "turn"
    /\ win' = [win EXCEPT ![w] =
         IF q = <<>> THEN [@ EXCEPT !.pc = "idle"]
         ELSE IF ~Open(w) THEN [@ EXCEPT !.pc = "idle", !.queue = Tail(q)]
         ELSE IF e.op = "switchtab" /\ ActiveTab(w) = e.tab THEN [@ EXCEPT !.queue = Tail(q)]
         ELSE IF e.op = "switchtab" /\ ~e.backend THEN [@ EXCEPT !.pc = "obtain", !.tab = e.tab]
         ELSE [@ EXCEPT !.pc = "call"]]
    /\ UNCHANGED <<db, view, cache, recent, timers, asked, events, ops, failures, lost, crossed>>

\* The finally of the loop, and the next turn or, after a return, none.
NextTurn(r) == [r EXCEPT !.queue = Tail(@), !.pc = "turn", !.reply = None, !.tab = None]
Return(r) == [r EXCEPT !.queue = Tail(@), !.pc = "idle", !.reply = None, !.tab = None]

\* The backend works off the call of the action in process. A reply is a tab to
\* show, "null", "closewindow" or "error".
Replied(w, d, r, ev) ==
    /\ db' = d
    /\ win' = [win EXCEPT ![w].pc = "reply", ![w].reply = r]
    /\ events' = events \cup ev
    /\ UNCHANGED <<view, cache, recent, timers, asked, ops, lost>>

\* The active tab of the workspace s is changed for the window w.
Crosses(w, s) == crossed' = IF Owners(db, s) \subseteq {w} THEN crossed ELSE crossed \cup {s}

InProcess(w) == win[w].queue[1]
Fresh == {t \in Tabs : t \notin db.used}   \* a bound: without one CreateTab fails

BackendCreatesTab(w) ==
    /\ Quiet /\ win[w].pc = "call" /\ InProcess(w).op = "createtab"
    /\ UNCHANGED failures
    /\ Crosses(w, win[w].ws)
    /\ IF ~Exists(win[w].ws) \/ Fresh = {} THEN Replied(w, db, "error", {})
       ELSE \E t \in Fresh :
            Replied(w, [db EXCEPT !.tabs[win[w].ws] = Append(@, t), !.active[win[w].ws] = t,
                                  !.used = @ \cup {t}], t, {})

\* SetActiveTab asks for any tab that exists, of this workspace or not.
BackendSetsActiveTab(w) ==
    LET t == InProcess(w).tab  s == win[w].ws IN
    /\ Quiet /\ win[w].pc = "call" /\ InProcess(w).op = "switchtab"
    /\ UNCHANGED failures
    /\ Crosses(w, s)
    /\ IF Exists(s) /\ \E r \in Workspaces : t \in ToSet(db.tabs[r])
       THEN Replied(w, [db EXCEPT !.active[s] = t], t, {})
       ELSE Replied(w, db, "error", {})

\* CloseTab: with the last tab the window of the workspace is closed too, and
\* the shell is told by an event and by the reply.
BackendClosesTab(w) ==
    LET t == InProcess(w).tab  s == win[w].ws IN
    /\ Quiet /\ win[w].pc = "call" /\ InProcess(w).op = "closetab"
    /\ UNCHANGED failures
    /\ Crosses(w, s)
    /\ IF t \notin ToSet(db.tabs[s]) THEN Replied(w, db, "error", {})
       ELSE LET d == WithoutTab(db, s, t)
            IN IF d.active[s] # None THEN Replied(w, d, d.active[s], {})
               ELSE IF Owners(d, s) = {} THEN Replied(w, d, "closewindow", {})
               ELSE \E o \in Owners(d, s) : Replied(w, WithoutWindow(d, o), "closewindow", {o})

\* SwitchWorkspace: null when the window has the workspace or another one does.
\* The workspace that is left is deleted unless it is saved.
BackendSwitchesWorkspace(w) ==
    LET s == InProcess(w).ws  old == db.win[w] IN
    /\ Quiet /\ win[w].pc = "call" /\ InProcess(w).op = "switchworkspace"
    /\ UNCHANGED <<failures, crossed>>
    /\ IF ~Exists(s) \/ old = None THEN Replied(w, db, "error", {})
       ELSE IF Owners(db, s) # {} THEN Replied(w, db, "null", {})
       ELSE Replied(w, WithoutWorkspace([db EXCEPT !.win[w] = s], old, FALSE), db.active[s], {})

BackendFails(w) ==
    /\ Quiet /\ win[w].pc = "call"
    /\ failures < MaxFailures /\ failures' = failures + 1 /\ UNCHANGED crossed
    /\ Replied(w, db, "error", {})

\* The reply is taken up. An error is logged; a switch of the workspace destroys
\* the views of the one that is left.
Reply(w) ==
    LET r == win[w].reply
        op == InProcess(w).op
    IN
    /\ Quiet /\ win[w].pc = "reply"
    /\ timers' = IF op = "closetab" /\ r # "error" THEN timers \cup {<<w, InProcess(w).tab>>} ELSE timers
    /\ \/ /\ r = "error"
          /\ win' = [win EXCEPT ![w] = NextTurn(@)]
          /\ UNCHANGED <<view, cache>>
       \/ /\ r \in {"null", "closewindow"}
          /\ win' = [win EXCEPT ![w] = Return([win[w] EXCEPT
                              !.asks = IF r = "closewindow" /\ Open(w) /\ @ = "no" THEN Alone(w) ELSE @])]
          /\ UNCHANGED <<view, cache>>
       \/ /\ r \in Tabs /\ op # "switchworkspace"
          /\ win' = [win EXCEPT ![w].pc = "obtain", ![w].tab = r]
          /\ UNCHANGED <<view, cache>>
       \/ /\ r \in Tabs /\ op = "switchworkspace"
          /\ win' = [win EXCEPT ![w].pc = "obtain", ![w].tab = r, ![w].ws = InProcess(w).ws,
                                ![w].loaded = NoLoaded]
          /\ view' = Destroyed(Listed(win[w].loaded))
          /\ cache' = Forgotten(cache, Listed(win[w].loaded))
    /\ UNCHANGED <<db, recent, asked, events, ops, failures, lost, crossed>>

\* setTabViewIntoWindow up to its await, on the windows and views an eviction left.
ShownIn(ww, w, v, pc) ==
    [ww EXCEPT ![w].active = v, ![w].loaded[win[w].tab] = v, ![w].pc = pc]

Activated(vw, w, v) ==
    [u \in Views |-> IF u = v THEN [vw[u] EXCEPT !.active = TRUE, !.shown = @ \cup {w}]
                     ELSE IF u = win[w].active THEN [vw[u] EXCEPT !.active = FALSE] ELSE vw[u]]

\* getOrCreateWebViewForTab finds the view in the cache, or awaits the config.
Obtain(w) ==
    LET v == cache[win[w].tab] IN
    /\ win[w].pc = "obtain"
    /\ recent' = recent \cup ({v} \ {None})
    /\ \/ /\ v = None
          /\ win' = [win EXCEPT ![w].pc = "config"]
          /\ UNCHANGED view
       \/ /\ v # None /\ win[w].active # v
          /\ win' = ShownIn(win, w, v, "settle")
          /\ view' = Activated(view, w, v)
       \/ /\ v # None /\ win[w].active = v
          /\ win' = [win EXCEPT ![w] = NextTurn(@)]
          /\ UNCHANGED view
    /\ UNCHANGED <<db, cache, timers, asked, events, ops, failures, lost, crossed>>

\* The config has come: a new view enters the cache, which may evict others, and
\* is shown in the window, which throws when that is gone. The hot spare is a view
\* like any other here.
Unused == {v \in Views : view[v].life = "none"}
Config(w) ==
    LET t == win[w].tab
        v == CHOOSE u \in Unused : TRUE
        with == [cache EXCEPT ![t] = v]
    IN
    /\ Quiet /\ win[w].pc = "config" /\ Unused # {}
    /\ \E tried \in Tried(with) : LET out == Evicted(tried \ {v}) IN
        /\ cache' = Forgotten(with, out)
        /\ win' = LET ww == ShownIn(AfterEviction(tried \ {v}), w, v, "init")
                  IN IF Open(w) THEN ww ELSE [ww EXCEPT ![w] = NextTurn(@)]
        /\ view' = LET vw == [Destroyed(out) EXCEPT ![v].life = "live", ![v].tab = t, ![v].win = w]
                   IN IF Open(w) THEN Activated(vw, w, v) ELSE [Activated(vw, w, v) EXCEPT ![v].shown = {}]
    /\ recent' = recent \cup {v}
    /\ UNCHANGED <<db, timers, asked, events, ops, failures, lost, crossed>>

ConfigFails(w) ==
    /\ Quiet /\ win[w].pc = "config"
    /\ failures < MaxFailures /\ failures' = failures + 1
    /\ win' = [win EXCEPT ![w] = NextTurn(@)]
    /\ UNCHANGED <<db, view, cache, recent, timers, asked, events, ops, lost, crossed>>

\* initializeTab: the page has loaded, its view becomes a child of the window
\* (which throws when that is gone) and it is told to start.
Initialize(w) ==
    LET v == win[w].active IN
    /\ Quiet /\ win[w].pc = "init" /\ view[v].page = "loaded"
    /\ IF Open(w)
       THEN /\ view' = [view EXCEPT ![v].child = w]
            /\ win' = [win EXCEPT ![w].pc = "ready"]
       ELSE /\ win' = [win EXCEPT ![w] = NextTurn(@)]
            /\ UNCHANGED view
    /\ UNCHANGED <<db, cache, recent, timers, asked, events, ops, failures, lost, crossed>>

\* mutation: the page is never found ready
FinishSettled(w) ==
    /\ Quiet
    /\ win[w].pc = "settle"
    /\ win' = [win EXCEPT ![w] = NextTurn(@)]
    /\ UNCHANGED <<db, view, cache, recent, timers, asked, events, ops, failures, lost, crossed>>

\* The page is ready, or a view that was shown before has been repositioned.
Finish(w) ==
    /\ Quiet
    /\ win[w].pc = "settle" \/ (win[w].pc = "ready" /\ view[win[w].active].page = "ready")
    /\ win' = [win EXCEPT ![w] = NextTurn(@)]
    /\ UNCHANGED <<db, view, cache, recent, timers, asked, events, ops, failures, lost, crossed>>
----
\* The pages, the timers and the end of a window.

\* set-window-init-status: "ready" when the page has loaded, "wave-ready" after
\* it was told to start.
PageAdvances(v) ==
    /\ Quiet /\ view[v].life = "live"
    /\ \/ /\ view[v].page = "loading"
          /\ view' = [view EXCEPT ![v].page = "loaded"]
       \/ /\ view[v].page = "loaded" /\ view[v].child # None
          /\ view' = [view EXCEPT ![v].page = "ready"]
    /\ UNCHANGED <<db, win, cache, recent, timers, asked, events, ops, failures, lost, crossed>>

\* The "destroyed" event of a page: the tab leaves the cache once more.
PageDestroyed(v) ==
    /\ Quiet /\ view[v].life = "closing"
    /\ view' = [view EXCEPT ![v].life = "gone"]
    /\ cache' = Forgotten(cache, {v})
    /\ UNCHANGED <<db, win, recent, timers, asked, events, ops, failures, lost, crossed>>

SecondPasses ==
    /\ Quiet /\ recent # {}
    /\ recent' = {}
    /\ UNCHANGED <<db, win, view, cache, timers, asked, events, ops, failures, lost, crossed>>

\* removeTabView, for an open window.
RemoveTabView(w, t) ==
    LET out == ViewsOf(w, Removed(w, {t})) IN
    /\ win' = [win EXCEPT ![w] = Unloaded(w, Removed(w, {t}))]
    /\ view' = Destroyed(out)
    /\ cache' = Forgotten(cache, out)

RemoveTimer(w, t) ==
    /\ Quiet /\ <<w, t>> \in timers
    /\ timers' = timers \ {<<w, t>>}
    /\ IF Open(w) THEN RemoveTabView(w, t) ELSE UNCHANGED <<win, view, cache>>
    /\ UNCHANGED <<db, recent, asked, events, ops, failures, lost, crossed>>

ClearTabCache ==
    LET out == Evicted(Listed(cache)) IN
    /\ Asking("clear") /\ out # {}
    /\ win' = AfterEviction(Listed(cache))
    /\ view' = Destroyed(out)
    /\ cache' = Forgotten(cache, out)
    /\ UNCHANGED <<db, recent, timers, asked, events, failures, lost, crossed>>

\* The "closed" handler: the views are destroyed, and the backend is told unless
\* the last window is to be kept.
Closed(w, delete) ==
    LET out == Listed(win[w].loaded) IN
    /\ win' = [win EXCEPT ![w].st = IF delete THEN "deleting" ELSE "closed", ![w].asks = "no"]
    /\ view' = Destroyed(out)
    /\ cache' = Forgotten(cache, out)

\* The "close" handler has counted the windows when it awaits the config; a dialog may
\* stop an unsaved workspace with several tabs from being closed.
Close(w) ==
    /\ Asking("close") /\ Open(w) /\ win[w].asks = "no"
    /\ win' = [win EXCEPT ![w].asks = Alone(w)]
    /\ UNCHANGED <<db, view, cache, recent, timers, asked, events, failures, lost, crossed>>

CloseAnswered(w) ==
    /\ Quiet /\ Open(w) /\ win[w].asks # "no"
    /\ \/ /\ Unsaved(win[w].ws)
          /\ win' = [win EXCEPT ![w].asks = "no"]
          /\ UNCHANGED <<view, cache>>
       \/ Closed(w, TRUE)
       \/ win[w].asks = "sole" /\ Closed(w, FALSE)
    /\ UNCHANGED <<db, recent, timers, asked, events, ops, failures, lost, crossed>>

BackendClosesWindow(w) ==
    /\ Quiet /\ win[w].st = "deleting"
    /\ win' = [win EXCEPT ![w].st = "closed"]
    /\ db' = WithoutWindow(db, w)
    /\ UNCHANGED <<view, cache, recent, timers, asked, events, ops, failures, lost, crossed>>

\* electron:closewindow.
HandleCloseWindow(w) ==
    /\ Quiet /\ w \in events
    /\ events' = events \ {w}
    /\ IF Open(w) THEN Closed(w, TRUE) ELSE UNCHANGED <<win, view, cache>>
    /\ UNCHANGED <<db, recent, timers, asked, ops, failures, lost, crossed>>

\* delete-workspace: the backend deletes it and, when a window shows it, names a
\* saved workspace without a window or closes the window.
Claimable(s) == {r \in db.named \ {s} : Exists(r) /\ Owners(db, r) = {}}
DeleteWorkspace(w, s) ==
    /\ Asking("deleteworkspace") /\ Shows(w) /\ Exists(s)
    /\ LET d == WithoutWorkspace(db, s, TRUE) IN
       IF Owners(db, s) = {} \/ Claimable(s) # {}
       THEN /\ db' = d /\ UNCHANGED events
            /\ \E r \in IF Owners(db, s) = {} THEN {None} ELSE Claimable(s) :
                asked' = asked \cup {Call(w, r, "deleted", s)}
       ELSE \E o \in Owners(db, s) :
            /\ db' = WithoutWindow(d, o)
            /\ events' = events \cup {o}
            /\ asked' = asked \cup {Call(w, None, "deleted", s)}
    /\ UNCHANGED <<win, view, cache, recent, timers, failures, lost, crossed>>

DeleteAnswered(c) ==
    LET w == c.win IN
    /\ Quiet /\ c.stage = "deleted"
    /\ asked' = (asked \ {c}) \cup
        IF win[w].ws = c.old /\ c.ws # None /\ c.ws # c.old THEN {Call(w, c.ws, "list", None)} ELSE {}
    /\ IF win[w].ws = c.old /\ c.ws = None /\ Open(w) THEN Closed(w, TRUE)
       ELSE UNCHANGED <<win, view, cache>>
    /\ UNCHANGED <<db, recent, timers, events, ops, failures, lost, crossed>>

----
NewWindow == [st |-> "none", ws |-> None, loaded |-> NoLoaded, active |-> None, queue |-> <<>>,
              pc |-> "idle", tab |-> None, reply |-> None, asks |-> "no"]

NewView == [tab |-> None, win |-> None, active |-> FALSE, life |-> "none", page |-> "loading", child |-> None,
            shown |-> {}]   \* history: the windows it was shown in

\* Some windows are open at the start, each with a workspace of its own that has
\* tabs. They have been relaunched: their first action is to show the active tab.
WindowInit ==
    /\ \E home \in [Windows -> {s \in Workspaces : Held[s] # <<>>} \cup {None}], named \in SUBSET Workspaces :
        /\ \A v, w \in Windows : home[v] = home[w] => v = w \/ home[v] = None
        /\ db = [tabs |-> Held,
                 active |-> [s \in Workspaces |-> IF Held[s] = <<>> THEN None ELSE Held[s][1]],
                 win |-> home,
                 named |-> named,
                 used |-> UNION {ToSet(Held[s]) : s \in Workspaces}]
    /\ win = [w \in Windows |-> IF db.win[w] = None THEN NewWindow
                ELSE [NewWindow EXCEPT !.st = "open", !.ws = db.win[w], !.pc = "turn",
                        !.queue = <<Action("switchtab", db.active[db.win[w]], None, FALSE)>>]]
    /\ view = [v \in Views |-> NewView]
    /\ cache = NoLoaded
    /\ recent = {} /\ timers = {} /\ asked = {} /\ events = {} /\ ops = 0 /\ failures = 0
    /\ lost = {} /\ crossed = {}

User == \/ \E w \in Windows, t \in Tabs : SetActiveTab(w, t) \/ CloseTab(w, t)
        \/ \E w \in Windows : CreateTab(w) \/ Close(w)
        \/ \E w \in Windows, s \in Workspaces : SwitchWorkspace(w, s) \/ DeleteWorkspace(w, s)
        \/ ClearTabCache

Backend(w) == \/ BackendCreatesTab(w) \/ BackendSetsActiveTab(w) \/ BackendClosesTab(w)
              \/ BackendSwitchesWorkspace(w)

Window(w) == \/ Turn(w) \/ Backend(w) \/ Reply(w) \/ Obtain(w) \/ Config(w) \/ Initialize(w) \/ Finish(w)
Asked(c) == ListWorkspaces(c) \/ QueueSwitch(c) \/ DeleteAnswered(c) \/ \E w \in Windows : CreateWindow(c, w)

\* What goes on without the user.
Others == \/ \E w \in Windows : Window(w) \/ BackendFails(w) \/ ConfigFails(w)
                                \/ CloseAnswered(w) \/ BackendClosesWindow(w) \/ HandleCloseWindow(w)
          \/ \E c \in asked : Asked(c)
          \/ \E v \in Views : PageAdvances(v) \/ PageDestroyed(v)
          \/ \E w \in Windows, t \in Tabs : RemoveTimer(w, t)
          \/ SecondPasses

WindowNext == User \/ Others

WindowSpec == WindowInit /\ [][WindowNext]_windowVars

\* The backend answers and the pages of a window that is open load.
WindowFairness == /\ \A w \in Windows : WF_windowVars(Window(w))
                  /\ \A v \in Views : WF_windowVars(PageAdvances(v))

WindowFairSpec == WindowSpec /\ WindowFairness

----
Actions == [op : {"switchtab", "createtab", "closetab", "switchworkspace"},
            tab : Tabs \cup {None}, ws : Workspaces \cup {None}, backend : BOOLEAN]

\* Types; a queue has at most two actions.
WindowTypeOK ==
    /\ \A w \in Windows :
        /\ win[w].st \in {"none", "open", "deleting", "closed"}
        /\ win[w].pc \in {"idle", "turn", "call", "reply", "obtain", "config", "init", "ready", "settle"}
        /\ win[w].queue \in Seq(Actions) /\ Len(win[w].queue) <= 2
        /\ win[w].pc \notin {"idle", "turn"} => win[w].queue # <<>>
        /\ win[w].loaded \in [Tabs -> Views \cup {None}]
        /\ win[w].active \in Views \cup {None}
        /\ win[w].reply \in Tabs \cup {None} \cup Replies
    /\ cache \in [Tabs -> Views \cup {None}]
    /\ \A v \in Views : view[v].life \in {"none", "live", "closing", "gone"}
    /\ recent \subseteq Views /\ lost \subseteq Actions

\* What an open window lists is a view of that tab that was shown in this window,
\* and it is alive (processActionQueue, removeTabView, tryEvictEntry), unless it was
\* made for another window or shown in another one too: an action that meets a
\* switch of the workspace may take a view that another window has from the cache,
\* and whoever is done with it first destroys it; and a view made for a window that
\* was closed meanwhile stays in the cache for the next window that shows its tab.
LoadedIsLive ==
    \A w \in Windows, t \in Tabs : Open(w) /\ win[w].loaded[t] # None =>
        LET v == win[w].loaded[t] IN
        /\ view[v].tab = t /\ w \in view[v].shown
        /\ view[v].win = w /\ view[v].shown = {w} => view[v].life = "live"

\* The view a window waits for or shows is not destroyed under it by a timer, an
\* eviction or another window in which it was not shown, and it is a child of its
\* window. A window that lists none has left a workspace and failed to show the
\* next.
ActiveIsLive ==
    \A w \in Windows :
        LET v == win[w].active IN
        Open(w) /\ v # None /\ Listed(win[w].loaded) # {} /\ view[v].shown = {w} =>
           /\ view[v].life = "live" /\ view[v].active
           /\ win[w].loaded[view[v].tab] = v
           /\ view[v].win = w /\ win[w].pc # "init" => view[v].child = w

ShownIsLive == LoadedIsLive /\ ActiveIsLive

\* With nothing in process a window shows the workspace the backend has for it,
\* unless that was just deleted, and its active tab, unless another window changed
\* that: a window that was closed, or is about to leave the workspace, may still
\* create, show or close a tab in it.
ShowsActiveTab ==
    \A w \in Windows :
        Open(w) /\ win[w].pc = "idle" /\ win[w].active # None /\ db.win[w] # None
        => /\ win[w].ws = db.win[w]
           /\ Exists(win[w].ws) /\ failures = 0 /\ win[w].ws \notin crossed =>
                ActiveTab(w) = db.active[win[w].ws]

\* "we don't mess with [0] because it is 'in process'": whatever heads the queue
\* is being processed.
HeadInProcess ==
    \A w \in Windows : Open(w) /\ win[w].queue # <<>> => win[w].pc # "idle"

\* "we replace [1] because there is no point to run an action that is going to be
\* overwritten": no later action makes up for a tab that was not closed.
LostIsOverwritten == \A e \in lost : e.op \notin {"closetab", "createtab"}

\* "WaveTabViews are unique per tab".
UniquePerTab == \A u, v \in Views :
    view[u].life = "live" /\ view[v].life = "live" /\ view[u].tab = view[v].tab => u = v

\* tryEvictEntry looks up the window of a view: "this shouldn't happen" when there
\* is none.
WindowFound == \A v \in Listed(cache) : Spared(v) \/ Open(view[v].win)

\* A workspace that is open in another window is focused there, not opened again.
OneWindow == \A v, w \in Windows : Open(v) /\ Open(w) /\ win[v].ws = win[w].ws => v = w

\* An action in process comes to its end.
Progress == \A w \in Windows : []<>(win[w].pc = "idle" \/ ~Open(w))
====
