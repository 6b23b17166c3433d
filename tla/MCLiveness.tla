----------------------------- MODULE MCLiveness -----------------------------
(***************************************************************************)
(* What must happen in the end, on small instances of the components of    *)
(* MCAgreement, MCMessages and MCWindow.  As there a behaviour is one of   *)
(* one component, scene says which, and the instances share the variables  *)
(* x1, x2, ...                                                             *)
(* WshRpc is extended: scene "calls" is one request with two partial       *)
(* responses and a last one, any of which may be lost or never come.       *)
(***************************************************************************)
EXTENDS WshRpc

CONSTANTS None, c1, c2, chat, tool, b1, b2, route1, route2, sub1, All,
          w1, home, work, t1, t2, t3, t4

VARIABLES scene, x1, x2, x3, x4, x5, x6, x7, x8, x9, x10,
          x11, x12, x13, x14, x15, x16, x17, x18, x19, x20

xs == <<x1, x2, x3, x4, x5, x6, x7, x8, x9, x10,
        x11, x12, x13, x14, x15, x16, x17, x18, x19, x20>>
vars == <<scene, rpcVars, xs>>

\* Two connections that change at any time, until they no longer do.
Connections == INSTANCE ConnReconcile WITH
  Conns <- {c1, c2}, MaxHandlers <- 2,
  actual <- x1, processed <- x2, reconciling <- x3, reconcileCh <- x4, handlers <- x5,
  worker <- x6, reconcilers <- x7, did <- x8

\* An agent that may never answer, exit or be stopped, and the next one.
Agent == INSTANCE AcpAgent WITH
  Conversations <- {chat}, CallIds <- {tool}, MaxManagers <- 2, MaxIpcCalls <- 2,
  MaxAgentRequests <- 6, MaxPermissions <- 1, Detached <- TRUE,
  agentManagers <- x1, managers <- x2, ipcCalls <- x3

\* A chat over a page load.
Session == INSTANCE AcpSession WITH
  Conversations <- {chat}, CallIds <- {}, NoMode <- None,
  Modes <- {}, Models <- {},
  MaxCalls <- 2, MaxPermissions <- 0, MaxReports <- 0, MaxReloads <- 1,
  store <- x1, hydration <- x2, saved <- x3, agents <- x4, calls <- x5, mail <- x6,
  reloads <- x7, clouded <- x8

\* Queued actions, saves and a page load.
Layout == INSTANCE LayoutModel WITH
  Blocks <- {b1, b2}, MaxChildren <- 2, UserOps <- {"create"},
  BackendOps <- {"insert", "delete", "save", "cleanup"}, MaxActions <- 2,
  MaxReloads <- 1, MaxFailures <- 0,
  m <- x1, drag <- x2, runs <- x3, processed <- x4, tab <- x5, mounted <- x6,
  timer <- x7, saving <- x8, db <- x9, events <- x10, blocks <- x11, deleting <- x12,
  queued <- x13, used <- x14, loads <- x15, failures <- x16, astray <- x17

\* Sockets break fewer times than the page tries again.
Link == INSTANCE PageLink WITH
  Routes <- {route1, route2}, Subscribers <- {sub1}, Broad <- {}, MaxOps <- 3,
  MaxFaults <- 2, GiveUp <- 3, MayShutdown <- FALSE,
  open <- x1, opening <- x2, noReconnect <- x3, reconnectTimes <- x4,
  connectTimer <- x5, stableTimer <- x6, msgQueue <- x7, queueTimers <- x8,
  routes <- x9, subjects <- x10, wire <- x11, sent <- x12, linked <- x13, bound <- x14,
  bsubs <- x15, got <- x16, ops <- x17, faults <- x18, overtaken <- x19, dropped <- x20

OneAtHome == x1.win = [w \in {w1} |-> home] /\ x1.named = {home, work}
TwoAndOne == [s \in {home, work} |-> IF s = home THEN <<t1, t2>> ELSE <<t3>>]

\* Two actions of the user, one of which may fail.
Windows == INSTANCE WaveWindow WITH
  Windows <- {w1}, Workspaces <- {home, work}, Tabs <- {t1, t2, t3, t4},
  Views <- 1 .. 4, Held <- TwoAndOne,
  MaxCacheSize <- 1, Ops <- {"switchtab", "createtab", "closetab", "switchworkspace"},
  MaxOps <- 2, MaxFailures <- 1,
  db <- x1, win <- x2, view <- x3, cache <- x4, recent <- x5, timers <- x6, asked <- x7,
  events <- x8, ops <- x9, failures <- x10, lost <- x11, crossed <- x12

\* A terminal whose file is cleared while a page loads.
Terminal == INSTANCE TermWrap WITH
  MaxOutput <- 1, MaxFile <- 1, MaxOpens <- 2, MinProcessed <- 1, MaxTruncates <- 1, MaxQuits <- 1,
  file <- x1, cache <- x2, rtinfo <- x3, infos <- x4, save <- x5, events <- x6,
  page <- x7, output <- x8, opens <- x9, truncates <- x10, quits <- x11, odd <- x12

\* An app's page; AppScene lets only its event stream break.
App == INSTANCE TsunamiModel WITH
  Absent <- None, Modals <- {}, MaxInputs <- 1, MaxChanges <- 2, MaxFaults <- 1, MaxEffects <- 1,
  app <- x1, notify <- x2, sse <- x3, fe <- x4, req <- x5, results <- x6, appCount <- x7,
  displayed <- x8, appRan <- x9, told <- x10, appOdd <- x11
AppScene == App!AppNext /\ x11' \cap {"failed", "reload"} = {}

\* The view of an app that ends, is closed or gets Ctrl-C.
View == INSTANCE VDomModel WITH
  Absent <- None, MaxInputs <- 1, MaxChanges <- 1, MaxEffects <- 0, MaxFaults <- 1, MaxChunks <- 1,
  waveApp <- x1, link <- x2, view <- x3, request <- x4, vdomCount <- x5, vdomRan <- x6, vdomOdd <- x7

-----------------------------------------------------------------------------
(* The variables that an instance of k variables does not use. *)
Beyond17 == <<x18, x19, x20>>
Beyond12 == <<x13, x14, x15, x16, x17, Beyond17>>
Beyond11 == <<x12, Beyond12>>
Beyond8 == <<x9, x10, x11, Beyond11>>
Beyond7 == <<x8, Beyond8>>
Beyond3 == <<x4, x5, x6, x7, Beyond7>>

Blank17 == x18 = None /\ x19 = None /\ x20 = None
Blank12 == x13 = None /\ x14 = None /\ x15 = None /\ x16 = None /\ x17 = None /\ Blank17
Blank11 == x12 = None /\ Blank12
Blank8 == x9 = None /\ x10 = None /\ x11 = None /\ Blank11
Blank7 == x8 = None /\ Blank8
Blank3 == x4 = None /\ x5 = None /\ x6 = None /\ x7 = None /\ Blank7

Blank == x1 = None /\ x2 = None /\ x3 = None /\ Blank3

Init ==
  /\ RpcInit
  /\ \/ scene = "connections" /\ Connections!Init /\ Blank8
     \/ scene = "agent" /\ Agent!AgentInit /\ Blank3
     \/ scene = "session" /\ Session!Init /\ Blank8
     \/ scene = "layout" /\ Layout!Init /\ Blank17
     \/ scene = "link" /\ Link!LinkInit
     \/ scene = "calls" /\ Blank
     \/ scene = "windows" /\ Windows!WindowInit /\ OneAtHome /\ Blank12
     \/ scene = "terminal" /\ Terminal!TermInit /\ Blank12
     \/ scene = "app" /\ App!AppInit /\ Blank11
     \/ scene = "view" /\ View!VDomInit /\ Blank7

Next ==
  \/ scene = "connections" /\ Connections!Next /\ UNCHANGED <<scene, Beyond8, rpcVars>>
  \/ scene = "agent" /\ Agent!AgentNext /\ UNCHANGED <<scene, Beyond3, rpcVars>>
  \/ scene = "session" /\ Session!Next /\ UNCHANGED <<scene, Beyond8, rpcVars>>
  \/ scene = "layout" /\ Layout!Next /\ UNCHANGED <<scene, Beyond17, rpcVars>>
  \/ scene = "link" /\ Link!LinkNext /\ UNCHANGED <<scene, rpcVars>>
  \/ scene = "calls" /\ RpcNext /\ UNCHANGED <<scene, xs>>
  \/ scene = "windows" /\ Windows!WindowNext /\ UNCHANGED <<scene, Beyond12, rpcVars>>
  \/ scene = "terminal" /\ Terminal!TermNext /\ UNCHANGED <<scene, Beyond12, rpcVars>>
  \/ scene = "app" /\ AppScene /\ UNCHANGED <<scene, Beyond11, rpcVars>>
  \/ scene = "view" /\ View!VDomNext /\ UNCHANGED <<scene, Beyond7, rpcVars>>

-----------------------------------------------------------------------------
(* Fairness: that of each component, for its scene; RpcFairness is in WshRpc. *)

connectionsVars == Connections!vars
agentVars == Agent!agentVars
sessionVars == Session!vars
layoutVars == Layout!vars
linkVars == Link!linkVars
windowsVars == Windows!windowVars
terminalVars == Terminal!termVars
appVars == App!appVars
viewVars == View!vdomVars

ConnectionsFairness ==
  /\ WF_connectionsVars(scene = "connections" /\ Connections!SignalChange)
  /\ WF_connectionsVars(scene = "connections" /\ Connections!WorkerReceives)
  /\ WF_connectionsVars(scene = "connections" /\ Connections!reconcileAllConns)
  /\ \A c \in {c1, c2} : WF_connectionsVars(scene = "connections" /\ Connections!reconcileConn(c))

AgentFairness ==
  /\ \A i \in 1 .. 2 :
        /\ WF_agentVars(scene = "agent" /\ i \in DOMAIN x3 /\ Agent!Resume(i))
        /\ WF_agentVars(scene = "agent" /\ i \in DOMAIN x3 /\ Agent!RequestTimeout(i))
        /\ WF_agentVars(scene = "agent" /\ i \in DOMAIN x3 /\ Agent!TokenReply(i, "error"))
  /\ \A m \in 1 .. 2 :
        WF_agentVars(scene = "agent" /\ m \in DOMAIN x2 /\ Agent!ForceKill(m))

SessionFairness ==
  /\ \A i \in 1 .. 2 :
        /\ WF_sessionVars(scene = "session" /\ i \in DOMAIN x5 /\ Session!MainTakes(i))
        /\ WF_sessionVars(scene = "session" /\ i \in DOMAIN x5
                            /\ \E ok \in BOOLEAN : Session!AgentAnswers(i, ok))
        /\ WF_sessionVars(scene = "session" /\ i \in DOMAIN x5 /\ Session!AgentGone(i))
  /\ WF_sessionVars(scene = "session" /\ Session!PageHandles)
  /\ WF_sessionVars(scene = "session" /\ Session!ListRuntimes)
  /\ WF_sessionVars(scene = "session" /\ Session!Hydrate)

\* Promises and timers run, effects are applied, and the backend answers.
LayoutFairness ==
  /\ []<>(scene # "layout" \/ Layout!Quiet) \/ []<><<scene = "layout" /\ Layout!RunStep>>_layoutVars
  /\ []<>(scene # "layout" \/ x6 \/ ~Layout!Quiet) \/ []<><<scene = "layout" /\ Layout!Mount>>_layoutVars
  /\ WF_layoutVars(scene = "layout" /\ Layout!BackendUpdate)
  /\ WF_layoutVars(scene = "layout" /\ Layout!persistToBackend)
  /\ WF_layoutVars(scene = "layout" /\ Layout!Saved)
  /\ \A block \in {b1, b2} : WF_layoutVars(scene = "layout" /\ Layout!DeleteAnswered(block, TRUE))

LinkFairness ==
  /\ WF_linkVars(scene = "link" /\ Link!connectNow)
  /\ WF_linkVars(scene = "link" /\ Link!onopen) /\ WF_linkVars(scene = "link" /\ Link!QueueTimer)
  /\ WF_linkVars(scene = "link" /\ Link!StableTimer) /\ WF_linkVars(scene = "link" /\ Link!onclose)
  /\ WF_linkVars(scene = "link" /\ Link!registerConn)
  /\ WF_linkVars(scene = "link" /\ Link!unregisterConn)
  /\ WF_linkVars(scene = "link" /\ Link!BackendReads)

WindowsFairness ==
  /\ WF_windowsVars(scene = "windows" /\ Windows!Window(w1))
  /\ \A v \in 1 .. 4 : WF_windowsVars(scene = "windows" /\ Windows!PageAdvances(v))

TerminalFairness == WF_terminalVars(scene = "terminal" /\ Terminal!Load)

AppFairness ==
  /\ WF_appVars(scene = "app" /\ App!AppStep) /\ WF_appVars(scene = "app" /\ App!Timers)
  /\ WF_appVars(scene = "app" /\ App!PageStep) /\ WF_appVars(scene = "app" /\ App!ModalStep)
  /\ WF_appVars(scene = "app" /\ App!Connect)

ViewFairness ==
  /\ WF_viewVars(scene = "view" /\ View!VDomBackend) /\ WF_viewVars(scene = "view" /\ View!ViewStep)

FairSpec ==
  /\ Init /\ [][Next]_vars
  /\ ConnectionsFairness /\ AgentFairness /\ SessionFairness /\ LayoutFairness
  /\ LinkFairness /\ RpcFairness /\ WindowsFairness /\ TerminalFairness /\ AppFairness /\ ViewFairness

-----------------------------------------------------------------------------
(* Properties *)

\* A status of a connection that lasts is acted on in the end.
StatusActedOn ==
  \A c \in {c1, c2}, status \in BOOLEAN :
    []<>(scene = "connections" /\ x1[c] = status => x8[c] = status)

\* Every ipc call returns, although the agent may never answer, may exit or may be
\* stopped while the call waits; and a stopped agent ends, even against its will.
CallsReturn ==
  /\ \A i \in 1 .. 2 : []<>(scene = "agent" => ~(i \in DOMAIN x3 /\ Agent!InFlight(x3[i])))
  /\ \A k \in 1 .. 2 : []<>(scene = "agent" => ~(k \in DOMAIN x2 /\ x2[k].child = "terminating"))

\* A session that is shown as running, which disables the input, does not stay so,
\* unless the manager itself is stuck or a reason is known.
RunningEnds ==
  []<>(scene = "session" /\ chat \in Session!Shown => x4[chat].stuck \/ x1[chat].status # "running")

\* Once nothing more is queued a tab's page comes to rest, and the database then
\* has the page's tree and an empty queue.
LayoutSettles ==
  <>[](scene = "layout" => /\ x6 /\ x3 = <<>> /\ x10 = <<>> /\ x8 = None
                           /\ x9.root = x1.root /\ x9.pend = <<>>)

\* When no more sockets break than the page tries to reconnect, it is connected in
\* the end, has sent what it had queued, and both ends agree on the routes.
ComesBack == <>[](scene = "link" => x3 \/ (Link!LinkSettled /\ x7 = <<>> /\ x14 = x9))

\* A call that has a timeout does not wait for ever, also when the answer is lost.
CallsSettle ==
  []<>(scene = "calls" /\ 1 \in ReqIds /\ reqs[1].timed /\ Own(1)
       => gen[1].phase = "done" \/ (reqs[1].kind = "call" /\ gen[1].phase = "yielded"))

\* An action that a window has in process comes to its end.
Progress == []<>(scene = "windows" => x2[w1].pc = "idle" \/ ~Windows!Open(w1))

\* However the fetches end, a terminal takes input and follows output in the end.
Loads == []<>(scene = "terminal" => x7.at \in {"open", "closed"})

\* A change the page was told about is shown in the end.
EventuallyShown == []<>(scene = "app" => x4.root = None \/ x4.root >= x10 \/ x11 # {})

\* Ctrl-C ends the app, unless a slow timer that was due met a request, a request
\* failed or an answer was cut, after which the view may wait for it for ever; and a
\* view without its app is closed or kept as disposed.
GoneIsClosed ==
  /\ []<>(scene = "view" /\ x3.disposing => ~x1.up \/ x7 \cap {"failed", "unforced", "cut"} # {})
  /\ []<>(scene = "view" /\ ~x1.up => (x3.disposed /\ x3.persist) \/ x3.closed \/ "missed" \in x7)
=============================================================================
