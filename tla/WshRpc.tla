------------------------------- MODULE WshRpc -------------------------------
(***************************************************************************)
(* Remote calls of a page: its clients (frontend/app/store/wshclient.ts),  *)
(* the generators that wait for responses (wshrpcutil-base.ts) and the     *)
(* router between them and the backend (wshrouter.ts).                     *)
(*                                                                         *)
(* A request gets any number of responses with "cont" and a last one       *)
(* without.  The router keeps where a request came from until the last     *)
(* response has passed.  Routing and handing a message to a client happens *)
(* at once; a generator goes on, and an async handler proceeds, later.     *)
(* Messages to and from the backend may be lost with the socket.           *)
(***************************************************************************)
EXTENDS Integers, Sequences, FiniteSets, SequencesExt, TLC

CONSTANTS Clients,     \* the page's clients, all of them registered
          Upstream,    \* the backend
          RpcKinds,    \* of the page's calls: subset of {"call", "stream"}
          MaxRequests, \* bound: requests
          MaxParts,    \* bound: responses to one request, but for the last
          MaxLost,     \* bound: messages lost
          MayCancel    \* whether requests are cancelled

\* The backend is none of the page's clients.
ASSUME RpcAssumption == Upstream \notin Clients

VARIABLES
  reqs,     \* the requests made so far: [src, dst, kind, timed]; the index is the reqid
  rpcMap,   \* WshRouter.rpcMap, a set of reqids
  openRpcs, \* the reqids in the clients' openRpcs
  gen,      \* of a page's call: [phase, queue, last, outcome]
  timers,   \* reqids whose timeout has not fired or been cleared
  serving,  \* what has a request: "none", "running", "over" its handler
  done,     \* reqids whose RpcResponseHelper is done
  denied,   \* reqids of cancels a client takes for a command
  parts,    \* responses sent with cont so far
  up, down, \* messages on their way to and from the backend
  finals,   \* history: last responses that have reached the requester
  seen,     \* history: what the consumer of a call has got
  lost

wires == <<up, down>>
rpcVars == <<reqs, rpcMap, openRpcs, gen, timers, serving, done, denied, parts, wires, finals, seen, lost>>

ReqIds == DOMAIN reqs
Own(id) == reqs[id].src \in Clients
Local(id) == reqs[id].dst \in Clients

Command(id) == [type |-> "command", id |-> id]
Cancel(id) == [type |-> "cancel", id |-> id]
\* what is "data", "null" or "error"; n numbers the responses to a request.
Response(id, what, cont, n) == [type |-> "response", id |-> id, what |-> what, cont |-> cont, n |-> n]

(***************************************************************************)
(* The router                                                              *)
(***************************************************************************)
\* mutation: the last response does not end the route
RouteResponseKept(msg) ==
  LET id == msg.id
  IN IF id \notin rpcMap THEN UNCHANGED <<rpcMap, gen, finals, up>>
     ELSE /\ UNCHANGED rpcMap
          /\ finals' = IF msg.cont THEN finals ELSE [finals EXCEPT ![id] = @ + 1]
          /\ gen' = IF Own(id) /\ id \in openRpcs THEN [gen EXCEPT ![id].queue = Append(@, msg)] ELSE gen
          /\ up' = IF Own(id) THEN up ELSE Append(up, msg)

\* recvRpcMessage of a response: to the source while the route is known.
\* A client that has no entry for it drops it.
RouteResponse(msg) ==
  LET id == msg.id
  IN IF id \notin rpcMap THEN UNCHANGED <<rpcMap, gen, finals, up>>
     ELSE /\ rpcMap' = IF msg.cont THEN rpcMap ELSE rpcMap \ {id}
          /\ finals' = IF msg.cont THEN finals ELSE [finals EXCEPT ![id] = @ + 1]
          /\ gen' = IF Own(id) /\ id \in openRpcs THEN [gen EXCEPT ![id].queue = Append(@, msg)] ELSE gen
          /\ up' = IF Own(id) THEN up ELSE Append(up, msg)

(***************************************************************************)
(* Calls of the page                                                       *)
(***************************************************************************)
NoGenerator == [phase |-> "none", queue |-> <<>>, last |-> FALSE, outcome |-> "none"]
Request(src, dst, kind, timed) ==
  /\ Len(reqs) < MaxRequests
  /\ reqs' = Append(reqs, [src |-> src, dst |-> dst, kind |-> kind, timed |-> timed])
  /\ parts' = Append(parts, 0)
  /\ finals' = Append(finals, 0)
  /\ seen' = Append(seen, <<>>)

\* wshRpcCall, wshRpcStream: the command is sent, then the generator runs to
\* its first yield.  The handler of a client of the page starts at once.
wshRpcCall(c, dst, kind, timed) ==
  LET id == Len(reqs) + 1
  IN /\ Request(c, dst, kind, timed)
     /\ rpcMap' = rpcMap \union {id}
     /\ openRpcs' = openRpcs \union {id}
     /\ gen' = Append(gen, [NoGenerator EXCEPT !.phase = "waiting"])
     /\ timers' = IF timed THEN timers \union {id} ELSE timers
     /\ serving' = Append(serving, IF dst \in Clients THEN "running" ELSE "none")
     /\ up' = IF dst \in Clients THEN up ELSE Append(up, Command(id))
     /\ UNCHANGED <<done, denied, down, lost>>

\* mutation: the timeout wakes nobody
TimeoutSilent(id) ==
  /\ id \in timers
  /\ timers' = timers \ {id}
  /\ UNCHANGED <<reqs, rpcMap, openRpcs, gen, serving, done, denied, parts, wires, finals, seen, lost>>

\* The timeout pushes an error response of its own.
Timeout(id) ==
  /\ id \in timers
  /\ timers' = timers \ {id}
  /\ gen' = [gen EXCEPT ![id].queue = Append(@, Response(id, "error", FALSE, 0))]
  /\ UNCHANGED <<reqs, rpcMap, openRpcs, serving, done, denied, parts, wires, finals, seen, lost>>

\* The finally of rpcResponseGenerator
Finally(id) == openRpcs' = openRpcs \ {id} /\ timers' = timers \ {id}

\* mutation: the newest message is taken
ResumeNewest(id) ==
  /\ gen[id].phase = "waiting" /\ gen[id].queue # <<>>
  /\ LET msg == Last(gen[id].queue)
         ends == msg.what = "error" \/ (~msg.cont /\ msg.what = "null")
     IN /\ gen' = [gen EXCEPT ![id] = [phase |-> IF ends THEN "done" ELSE "yielded", queue |-> Front(@.queue),
                                       last |-> ~msg.cont, outcome |-> msg.what]]
        /\ IF ends THEN Finally(id) ELSE UNCHANGED <<openRpcs, timers>>
        /\ seen' = IF msg.what = "error" THEN seen ELSE [seen EXCEPT ![id] = Append(@, msg.n)]
  /\ UNCHANGED <<reqs, rpcMap, serving, done, denied, parts, wires, finals, lost>>

\* The generator goes on with the next message: it throws, ends or yields.
ResumeGenerator(id) ==
  /\ gen[id].phase = "waiting" /\ gen[id].queue # <<>>
  /\ LET msg == Head(gen[id].queue)
         ends == msg.what = "error" \/ (~msg.cont /\ msg.what = "null")
     IN /\ gen' = [gen EXCEPT ![id] = [phase |-> IF ends THEN "done" ELSE "yielded", queue |-> Tail(@.queue),
                                       last |-> ~msg.cont, outcome |-> msg.what]]
        /\ IF ends THEN Finally(id) ELSE UNCHANGED <<openRpcs, timers>>
        /\ seen' = IF msg.what = "error" THEN seen ELSE [seen EXCEPT ![id] = Append(@, msg.n)]
  /\ UNCHANGED <<reqs, rpcMap, serving, done, denied, parts, wires, finals, lost>>

\* A consumer of a stream asks for more.
AskForMore(id) ==
  /\ reqs[id].kind = "stream" /\ gen[id].phase = "yielded"
  /\ gen' = [gen EXCEPT ![id].phase = IF gen[id].last THEN "done" ELSE "waiting"]
  /\ IF gen[id].last THEN Finally(id) ELSE UNCHANGED <<openRpcs, timers>>
  /\ UNCHANGED <<reqs, rpcMap, serving, done, denied, parts, wires, finals, seen, lost>>

\* It stops with return, or with next(true), which cancels the request.  To
\* a client of the page the cancel looks like a command without a name.
StopStream(id, terminate) ==
  /\ MayCancel /\ reqs[id].kind = "stream" /\ gen[id].phase = "yielded"
  /\ gen' = [gen EXCEPT ![id] = [@ EXCEPT !.phase = "done", !.outcome = "stopped"]]
  /\ Finally(id)
  /\ LET cancels == terminate /\ id \in rpcMap
     IN /\ denied' = IF cancels /\ Local(id) THEN denied \union {id} ELSE denied
        /\ up' = IF cancels /\ ~Local(id) THEN Append(up, Cancel(id)) ELSE up
  /\ UNCHANGED <<reqs, rpcMap, serving, done, parts, down, finals, seen, lost>>

(***************************************************************************)
(* Requests to a client of the page: handleIncomingCommand                 *)
(***************************************************************************)
\* RpcResponseHelper.sendResponse
sendResponse(id, what, cont) ==
  /\ id \notin done
  /\ done' = IF cont THEN done ELSE done \union {id}
  /\ parts' = [parts EXCEPT ![id] = @ + 1]
  /\ RouteResponse(Response(id, what, cont, parts[id] + 1))

\* A handler may respond itself, also with the last response.
HandlerSends(id, cont) ==
  /\ serving[id] = "running" /\ Local(id)
  /\ parts[id] < MaxParts
  /\ sendResponse(id, "data", cont)
  /\ UNCHANGED <<reqs, openRpcs, timers, serving, denied, down, seen, lost>>

\* It returns, or throws: what it has not sent is sent now.
HandlerEnds(id, what) ==
  /\ serving[id] = "running" /\ Local(id)
  /\ serving' = [serving EXCEPT ![id] = "over"]
  /\ IF id \in done THEN UNCHANGED <<done, parts, rpcMap, gen, finals, up>>
     ELSE sendResponse(id, what, FALSE)
  /\ UNCHANGED <<reqs, openRpcs, timers, denied, down, seen, lost>>

\* handle_default answers a cancel, with a helper of its own.
Deny(id) ==
  /\ id \in denied
  /\ denied' = denied \ {id}
  /\ RouteResponse(Response(id, "error", FALSE, 0))
  /\ UNCHANGED <<reqs, openRpcs, timers, serving, done, parts, down, seen, lost>>

\* recvRpcMessage of what comes from the backend
PageReceives ==
  /\ down # <<>>
  /\ down' = Tail(down)
  /\ LET msg == Head(down)
     IN CASE msg.type = "command" ->
               /\ rpcMap' = rpcMap \union {msg.id}
               /\ serving' = [serving EXCEPT ![msg.id] = "running"]
               /\ UNCHANGED <<gen, denied, finals, up>>
          [] msg.type = "cancel" ->
               /\ denied' = IF msg.id \in rpcMap THEN denied \union {msg.id} ELSE denied
               /\ UNCHANGED <<rpcMap, gen, serving, finals, up>>
          [] msg.type = "response" -> RouteResponse(msg) /\ UNCHANGED <<serving, denied>>
  /\ UNCHANGED <<reqs, openRpcs, timers, done, parts, seen, lost>>

(***************************************************************************)
(* The backend                                                             *)
(***************************************************************************)
BackendCalls(c) ==
  /\ Request(Upstream, c, "call", TRUE)
  /\ gen' = Append(gen, NoGenerator)
  /\ serving' = Append(serving, "none")
  /\ down' = Append(down, Command(Len(reqs) + 1))
  /\ UNCHANGED <<rpcMap, openRpcs, timers, done, denied, up, lost>>

\* It gives a request up.
BackendCancels(id) ==
  /\ MayCancel /\ ~Own(id)
  /\ ~ \E i \in DOMAIN down : down[i] = Cancel(id)
  /\ down' = Append(down, Cancel(id))
  /\ UNCHANGED <<reqs, rpcMap, openRpcs, gen, timers, serving, done, denied, parts, up, finals, seen, lost>>

BackendReceives ==
  /\ up # <<>>
  /\ up' = Tail(up)
  /\ serving' = LET msg == Head(up)
                IN IF msg.type = "command" THEN [serving EXCEPT ![msg.id] = "running"] ELSE serving
  /\ UNCHANGED <<reqs, rpcMap, openRpcs, gen, timers, done, denied, parts, down, finals, seen, lost>>

BackendResponds(id, what, cont) ==
  /\ serving[id] = "running" /\ ~Local(id)
  /\ cont => what = "data" /\ parts[id] < MaxParts
  /\ parts' = [parts EXCEPT ![id] = @ + 1]
  /\ serving' = [serving EXCEPT ![id] = IF cont THEN @ ELSE "over"]
  /\ down' = Append(down, Response(id, what, cont, parts[id] + 1))
  /\ UNCHANGED <<reqs, rpcMap, openRpcs, gen, timers, done, denied, up, finals, seen, lost>>

\* The socket breaks: what is on its way is lost.
Lose ==
  /\ lost < MaxLost /\ up \o down # <<>>
  /\ lost' = lost + 1
  /\ up' = <<>> /\ down' = <<>>
  /\ UNCHANGED <<reqs, rpcMap, openRpcs, gen, timers, serving, done, denied, parts, finals, seen>>

RpcInit ==
  /\ reqs = <<>> /\ rpcMap = {} /\ openRpcs = {} /\ gen = <<>> /\ timers = {}
  /\ serving = <<>> /\ done = {} /\ denied = {} /\ parts = <<>> /\ up = <<>> /\ down = <<>>
  /\ finals = <<>> /\ seen = <<>> /\ lost = 0

RpcNext ==
  \/ \E c \in Clients, dst \in Clients \union {Upstream}, kind \in RpcKinds, timed \in BOOLEAN :
       c # dst /\ wshRpcCall(c, dst, kind, timed)
  \/ \E id \in ReqIds :
       \/ Timeout(id) \/ ResumeGenerator(id) \/ AskForMore(id) \/ Deny(id) \/ BackendCancels(id)
       \/ \E flag \in BOOLEAN : StopStream(id, flag) \/ HandlerSends(id, flag)
       \/ \E what \in {"data", "null", "error"} :
            HandlerEnds(id, what) \/ \E cont \in BOOLEAN : BackendResponds(id, what, cont)
  \/ \E c \in Clients : BackendCalls(c)
  \/ PageReceives \/ BackendReceives \/ Lose

RpcSpec == RpcInit /\ [][RpcNext]_rpcVars

\* Timers fire, generators go on and consumers of a stream ask for more.
\* Nothing says that a handler or the backend ever answers.
Requested == 1 .. MaxRequests
RpcFairness ==
  \A id \in Requested :
    WF_rpcVars(id \in ReqIds /\ Timeout(id)) /\ WF_rpcVars(id \in ReqIds /\ ResumeGenerator(id)) /\ WF_rpcVars(id \in ReqIds /\ AskForMore(id))
RpcFairSpec == RpcSpec /\ RpcFairness

(***************************************************************************)
(* Properties                                                              *)
(***************************************************************************)
\* The state is well formed, and a timer runs only for a call whose entry
\* is there to take its error.
RpcTypeOK ==
  /\ Len(gen) = Len(reqs) /\ Len(serving) = Len(reqs) /\ Len(seen) = Len(reqs)
  /\ rpcMap \union openRpcs \union done \union denied \subseteq ReqIds
  /\ timers \subseteq openRpcs
  /\ \A id \in ReqIds : gen[id].phase \in {"none", "waiting", "yielded", "done"}

\* No requester gets two last responses, whatever its handler sends, returns
\* or throws, and though a cancel is answered like a command of its own; and
\* one whose handler is over has got one.
AnsweredOnce ==
  \A id \in ReqIds :
    /\ finals[id] <= 1
    /\ Local(id) /\ serving[id] = "over" => finals[id] = 1

\* The consumer of a call gets the responses in their order and without a
\* gap; when the call ends normally, it has got all of them.
InOrder ==
  lost = 0 => \A id \in ReqIds :
    /\ \A i \in DOMAIN seen[id] : seen[id][i] = i
    /\ (gen[id].phase = "done" /\ gen[id].outcome \in {"data", "null"}) => Len(seen[id]) = parts[id]

\* A call that waits has its entry in openRpcs, and its request's route is
\* known to the router as long as its last response has not come: no
\* response that is still to come is dropped.
WaitingHasRoute ==
  \A id \in ReqIds : gen[id].phase = "waiting" =>
    id \in openRpcs /\ (id \in rpcMap \/ \E i \in DOMAIN gen[id].queue : ~gen[id].queue[i].cont)

\* A waiting call has its entry and its route, and none is answered twice.
WaitingIsRouted == WaitingHasRoute /\ AnsweredOnce

\* The comment in wshRpcCall (wshclient.ts:69): "pass true to force
\* termination of rpc after 1 response (not streaming)".
TerminatedAfterOne ==
  \A id \in ReqIds : reqs[id].kind = "call" /\ gen[id].phase = "yielded" => id \notin openRpcs

\* A call that has a timeout does not wait for ever, also when the answer
\* is lost or never comes.
Settles ==
  \A id \in Requested :
    (id \in ReqIds /\ reqs[id].timed /\ Own(id)) ~> (id \in ReqIds /\ (gen[id].phase = "done" \/ (reqs[id].kind = "call" /\ gen[id].phase = "yielded")))
=============================================================================
