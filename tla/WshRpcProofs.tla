---------------------------- MODULE WshRpcProofs ----------------------------
(***************************************************************************)
(* Proofs about WshRpc: for any number of clients and requests, and with   *)
(* messages lost, cancelled and answered late, no requester gets two last  *)
(* responses, and one whose handler is over has got one.                   *)
(***************************************************************************)
EXTENDS WshRpc, SequenceTheorems, TLAPS

Ends == Clients \union {Upstream}
Message == [type : {"command", "cancel"}, id : Nat]
             \union [type : {"response"}, id : Nat, what : {"data", "null", "error"}, cont : BOOLEAN, n : Nat]

Types ==
  /\ reqs \in Seq([src : Ends, dst : Ends, kind : RpcKinds \union {"call"}, timed : BOOLEAN])
  /\ finals \in Seq(0 .. 1) /\ Len(finals) = Len(reqs)
  /\ serving \in Seq({"none", "running", "over"}) /\ Len(serving) = Len(reqs)
  /\ parts \in Seq(Nat) /\ Len(parts) = Len(reqs)
  /\ rpcMap \subseteq ReqIds /\ done \subseteq ReqIds
  /\ up \in Seq(Message) /\ down \in Seq(Message)

\* A command that is still on its way from the backend has met no handler, and
\* it is the only one of its number.
DownPlace ==
  \A i \in 1 .. Len(down) : down[i].type = "command" =>
    /\ down[i].id \in ReqIds /\ ~Own(down[i].id) /\ serving[down[i].id] = "none"
    /\ \A j \in 1 .. Len(down) : down[j].type = "command" /\ down[j].id = down[i].id => j = i

UpPlace ==
  \A i \in 1 .. Len(up) : up[i].type = "command" =>
    up[i].id \in ReqIds /\ Own(up[i].id) /\ ~Local(up[i].id)

\* The router knows a request exactly as long as its last response has not
\* passed, from when it has met its handler.
Place(id) ==
  /\ id \in rpcMap => finals[id] = 0
  /\ id \in done => finals[id] = 1
  /\ Local(id) /\ serving[id] # "none" => id \in rpcMap \/ finals[id] = 1
  /\ Local(id) /\ serving[id] = "over" => finals[id] = 1
  /\ ~Own(id) /\ serving[id] = "none" => id \notin rpcMap /\ finals[id] = 0
AnswerPlace == \A id \in ReqIds : Place(id)

Inv == Types /\ DownPlace /\ UpPlace /\ AnswerPlace

-----------------------------------------------------------------------------
LEMMA IdsOfRequests == Types => ReqIds = 1 .. Len(reqs) /\ Len(reqs) \in Nat
BY LenProperties DEF Types, ReqIds

LEMMA Messages ==
  /\ \A id \in Nat : Command(id) \in Message /\ Cancel(id) \in Message
  /\ \A id \in Nat, n \in Nat, what \in {"data", "null", "error"}, cont \in BOOLEAN :
        Response(id, what, cont, n) \in Message
  /\ \A msg \in Message : msg.id \in Nat
BY DEF Command, Cancel, Response, Message

\* Sending something that is no command to the backend.
LEMMA SendUp ==
  ASSUME Inv, NEW msg \in Message, msg.type # "command", up' = Append(up, msg), reqs' = reqs
  PROVE  up' \in Seq(Message) /\ UpPlace'
<1>1. /\ up' \in Seq(Message) /\ Len(up') = Len(up) + 1 /\ Len(up) \in Nat
      /\ \A i \in 1 .. Len(up) : up'[i] = up[i]
      /\ up'[Len(up) + 1] = msg
  BY AppendProperties DEF Inv, Types
<1>2. \A i \in 1 .. Len(up') : up'[i].type = "command" => i \in 1 .. Len(up) /\ up'[i] = up[i]
  BY <1>1
<1> QED BY <1>1, <1>2 DEF Inv, UpPlace, ReqIds, Own, Local

\* A response passes the router: nothing changes but for the last response to
\* a request that is known.
Passes(msg) ==
  /\ finals' \in Seq(0 .. 1) /\ Len(finals') = Len(reqs)
  /\ rpcMap' \subseteq ReqIds
  /\ up' \in Seq(Message) /\ UpPlace'
  /\ \A id \in ReqIds :
       \/ finals'[id] = finals[id] /\ (id \in rpcMap' <=> id \in rpcMap)
       \/ id = msg.id /\ id \in rpcMap /\ id \notin rpcMap' /\ finals'[id] = 1
  /\ ~msg.cont => msg.id \notin rpcMap'

LEMMA ResponsePasses ==
  ASSUME Inv, NEW msg \in Message, msg.type = "response", RouteResponse(msg), reqs' = reqs
  PROVE  Passes(msg)
<1> DEFINE id == msg.id
<1>0. ReqIds = 1 .. Len(reqs) /\ Len(reqs) \in Nat
  BY IdsOfRequests DEF Inv
<1>1. CASE id \notin rpcMap
  <2>1. rpcMap' = rpcMap /\ finals' = finals /\ up' = up
    BY <1>1 DEF RouteResponse
  <2> QED BY <1>1, <2>1 DEF Inv, Types, UpPlace, Passes, ReqIds, Own, Local
<1>2. CASE id \in rpcMap
  <2>1. up' = up \/ up' = Append(up, msg)
    BY <1>2 DEF RouteResponse
  <2>2. up' \in Seq(Message) /\ UpPlace'
    BY <2>1, SendUp DEF Inv, Types, UpPlace, ReqIds, Own, Local
  <2>3. id \in ReqIds /\ finals[id] = 0
    BY <1>2 DEF Inv, Types, AnswerPlace, Place
  <2>4. CASE msg.cont
    <3>1. rpcMap' = rpcMap /\ finals' = finals
      BY <1>2, <2>4 DEF RouteResponse
    <3> QED BY <2>2, <2>4, <3>1 DEF Inv, Types, Passes
  <2>5. CASE ~msg.cont
    <3>1. rpcMap' = rpcMap \ {id} /\ finals' = [finals EXCEPT ![id] = @ + 1]
      BY <1>2, <2>5 DEF RouteResponse
    <3>2. /\ finals' \in Seq(0 .. 1) /\ Len(finals') = Len(reqs)
          /\ \A k \in ReqIds : finals'[k] = IF k = id THEN 1 ELSE finals[k]
      BY <1>0, <2>3, <3>1, ExceptSeq DEF Inv, Types
    <3> QED BY <1>2, <2>2, <3>1, <3>2 DEF Inv, Types, Passes
  <2> QED BY <2>4, <2>5
<1> QED BY <1>1, <1>2

\* The place of a request after a response to it or to another one.
LEMMA PlaceAfter ==
  ASSUME Inv, NEW msg, Passes(msg), NEW id \in ReqIds, reqs' = reqs, serving' = serving, done' = done
  PROVE  Place(id)'
BY DEF Inv, AnswerPlace, Place, Passes, Own, Local, ReqIds

LEMMA DownSame ==
  ASSUME Inv, UNCHANGED <<reqs, serving, down>>
  PROVE  DownPlace'
BY DEF Inv, DownPlace, ReqIds, Own

LEMMA UpSame ==
  ASSUME Inv, UNCHANGED <<reqs, up>>
  PROVE  UpPlace'
BY DEF Inv, UpPlace, ReqIds, Own, Local

-----------------------------------------------------------------------------
(* The steps. *)

\* What moves neither requests nor responses.
LEMMA QuietStep ==
  ASSUME Inv, UNCHANGED <<reqs, rpcMap, serving, done, parts, finals, up, down>>
  PROVE  Inv'
BY DEF Inv, Types, DownPlace, UpPlace, AnswerPlace, Place, ReqIds, Own, Local

\* A new request has a number that nothing has yet.
LEMMA NewRequest ==
  ASSUME Inv, NEW src \in Ends, NEW dst \in Ends, NEW kind \in RpcKinds \union {"call"},
         NEW timed \in BOOLEAN, Request(src, dst, kind, timed)
  PROVE  LET new == Len(reqs) + 1
         IN  /\ reqs' \in Seq([src : Ends, dst : Ends, kind : RpcKinds \union {"call"}, timed : BOOLEAN])
             /\ ReqIds = 1 .. Len(reqs) /\ ReqIds' = 1 .. new /\ Len(reqs) \in Nat /\ Len(reqs') = new
             /\ \A id \in ReqIds : reqs'[id] = reqs[id]
             /\ reqs'[new].src = src /\ reqs'[new].dst = dst
             /\ finals' \in Seq(0 .. 1) /\ Len(finals') = new
             /\ \A id \in ReqIds : finals'[id] = finals[id]
             /\ finals'[new] = 0
             /\ parts' \in Seq(Nat) /\ Len(parts') = new
<1> DEFINE new == Len(reqs) + 1
           r == [src |-> src, dst |-> dst, kind |-> kind, timed |-> timed]
           Req == [src : Ends, dst : Ends, kind : RpcKinds \union {"call"}, timed : BOOLEAN]
<1>1. ReqIds = 1 .. Len(reqs) /\ Len(reqs) \in Nat
  BY IdsOfRequests DEF Inv
<1>2. r \in Req
  OBVIOUS
<1>3. reqs \in Seq(Req) /\ reqs' = Append(reqs, r)
  BY DEF Request, Inv, Types
<1> HIDE DEF Req
<1>4. /\ reqs' \in Seq(Req) /\ Len(reqs') = new /\ reqs'[new] = r
      /\ \A id \in 1 .. Len(reqs) : reqs'[id] = reqs[id]
  BY <1>2, <1>3, AppendProperties
<1>5. ReqIds' = 1 .. new
  BY <1>4, LenProperties DEF ReqIds
<1>6. /\ finals' \in Seq(0 .. 1) /\ Len(finals') = new /\ finals'[new] = 0
      /\ \A id \in 1 .. Len(reqs) : finals'[id] = finals[id]
  <2>1. finals' = Append(finals, 0) /\ finals \in Seq(0 .. 1) /\ Len(finals) = Len(reqs) /\ 0 \in 0 .. 1
    BY DEF Request, Inv, Types
  <2> QED BY <2>1, AppendProperties
<1>7. parts' \in Seq(Nat) /\ Len(parts') = new
  <2>1. parts' = Append(parts, 0) /\ parts \in Seq(Nat) /\ Len(parts) = Len(reqs)
    BY DEF Request, Inv, Types
  <2> QED BY <2>1, AppendProperties
<1> QED BY <1>1, <1>4, <1>5, <1>6, <1>7 DEF Req

LEMMA CallInv ==
  ASSUME Upstream \notin Clients, Inv, NEW c \in Clients, NEW dst \in Ends,
         NEW kind \in RpcKinds, NEW timed \in BOOLEAN, wshRpcCall(c, dst, kind, timed)
  PROVE  Inv'
<1>0. PICK new : new = Len(reqs) + 1
  OBVIOUS
<1>1. Request(c, dst, kind, timed)
  BY DEF wshRpcCall
<1>2. /\ new = Len(reqs) + 1 /\ Len(reqs) \in Nat /\ Len(reqs') = new
      /\ ReqIds = 1 .. Len(reqs) /\ ReqIds' = 1 .. new
      /\ \A id \in ReqIds : reqs'[id] = reqs[id] /\ finals'[id] = finals[id]
      /\ reqs'[new].src = c /\ reqs'[new].dst = dst /\ finals'[new] = 0
  BY <1>0, <1>1, NewRequest DEF Ends
<1>3. /\ rpcMap' = rpcMap \union {new} /\ done' = done /\ down' = down
      /\ serving' = Append(serving, IF dst \in Clients THEN "running" ELSE "none")
      /\ up' = IF dst \in Clients THEN up ELSE Append(up, Command(new))
  BY <1>0 DEF wshRpcCall
<1>4. /\ serving' \in Seq({"none", "running", "over"}) /\ Len(serving') = new
      /\ \A id \in ReqIds : serving'[id] = serving[id]
      /\ serving'[new] = IF dst \in Clients THEN "running" ELSE "none"
  <2> DEFINE first == IF dst \in Clients THEN "running" ELSE "none"
  <2>1. first \in {"none", "running", "over"}
    OBVIOUS
  <2> HIDE DEF first
  <2>2. serving' = Append(serving, first) /\ serving \in Seq({"none", "running", "over"})
        /\ Len(serving) = Len(reqs)
    BY <1>3 DEF first, Inv, Types
  <2> QED BY <1>2, <2>1, <2>2, AppendProperties DEF first
<1>5. new \notin ReqIds /\ new \in ReqIds'
  BY <1>2
<1>6. Types'
  <2>1. up' \in Seq(Message)
    BY <1>2, <1>3, Messages, AppendProperties DEF Inv, Types
  <2>2. /\ reqs' \in Seq([src : Ends, dst : Ends, kind : RpcKinds \union {"call"}, timed : BOOLEAN])
        /\ finals' \in Seq(0 .. 1) /\ Len(finals') = new /\ parts' \in Seq(Nat) /\ Len(parts') = new
    BY <1>0, <1>1, NewRequest DEF Ends
  <2>3. rpcMap' \subseteq ReqIds' /\ done' \subseteq ReqIds'
    <3>1. rpcMap \subseteq ReqIds /\ done \subseteq ReqIds
      BY DEF Inv, Types
    <3>2. ReqIds \subseteq ReqIds'
      BY <1>2
    <3> QED BY <1>3, <1>5, <3>1, <3>2
  <2> QED BY <1>2, <1>3, <1>4, <2>1, <2>2, <2>3 DEF Inv, Types
<1>7. DownPlace'
  <2>1. \A id \in ReqIds : id \in ReqIds' /\ (Own(id)' <=> Own(id)) /\ serving'[id] = serving[id]
    BY <1>2, <1>4 DEF Own
  <2> QED BY <1>3, <2>1 DEF Inv, DownPlace
<1>8. UpPlace'
  <2>1. \A id \in ReqIds : id \in ReqIds' /\ (Own(id)' <=> Own(id)) /\ (Local(id)' <=> Local(id))
    BY <1>2 DEF Own, Local
  <2>2. CASE dst \in Clients
    BY <1>3, <2>1, <2>2 DEF Inv, UpPlace
  <2>3. CASE dst \notin Clients
    <3>1. Own(new)' /\ ~Local(new)'
      BY <1>2, <2>3 DEF Own, Local
    <3>2. Command(new) \in Message /\ Command(new).id = new
      BY <1>2, Messages DEF Command
    <3>3. /\ Len(up') = Len(up) + 1 /\ Len(up) \in Nat /\ up'[Len(up) + 1] = Command(new)
          /\ \A i \in 1 .. Len(up) : up'[i] = up[i]
      BY <1>3, <2>3, <3>2, AppendProperties DEF Inv, Types
    <3> QED BY <1>5, <2>1, <3>1, <3>2, <3>3 DEF Inv, UpPlace
  <2> QED BY <2>2, <2>3
<1>9. AnswerPlace'
  <2>1. ASSUME NEW id \in ReqIds PROVE Place(id)'
    <3>1. (Own(id)' <=> Own(id)) /\ (Local(id)' <=> Local(id)) /\ id # new
      BY <1>2, <1>5 DEF Own, Local
    <3>2. /\ serving'[id] = serving[id] /\ finals'[id] = finals[id]
          /\ (id \in rpcMap' <=> id \in rpcMap) /\ done' = done
      BY <1>2, <1>3, <1>4, <3>1
    <3> QED BY <3>1, <3>2 DEF Inv, AnswerPlace, Place
  <2>2. Place(new)'
    <3>1. Own(new)'
      BY <1>2 DEF Own
    <3>2. new \notin done'
      BY <1>3, <1>5 DEF Inv, Types
    <3> QED BY <1>2, <1>3, <1>4, <3>1, <3>2 DEF Place
  <2> QED BY <1>2, <2>1, <2>2 DEF AnswerPlace
<1> QED BY <1>6, <1>7, <1>8, <1>9 DEF Inv

LEMMA BackendCallsInv ==
  ASSUME Upstream \notin Clients, Inv, NEW c \in Clients, BackendCalls(c)
  PROVE  Inv'
<1>0. PICK new : new = Len(reqs) + 1
  OBVIOUS
<1>1. Request(Upstream, c, "call", TRUE)
  BY DEF BackendCalls
<1>2. /\ new = Len(reqs) + 1 /\ Len(reqs) \in Nat /\ Len(reqs') = new
      /\ ReqIds = 1 .. Len(reqs) /\ ReqIds' = 1 .. new
      /\ \A id \in ReqIds : reqs'[id] = reqs[id] /\ finals'[id] = finals[id]
      /\ reqs'[new].src = Upstream /\ reqs'[new].dst = c /\ finals'[new] = 0
      /\ reqs' \in Seq([src : Ends, dst : Ends, kind : RpcKinds \union {"call"}, timed : BOOLEAN])
      /\ finals' \in Seq(0 .. 1) /\ Len(finals') = new /\ parts' \in Seq(Nat) /\ Len(parts') = new
  BY <1>0, <1>1, NewRequest DEF Ends
<1>3. /\ rpcMap' = rpcMap /\ done' = done /\ up' = up
      /\ serving' = Append(serving, "none") /\ down' = Append(down, Command(new))
  BY <1>0 DEF BackendCalls
<1>4. /\ serving' \in Seq({"none", "running", "over"}) /\ Len(serving') = new
      /\ \A id \in ReqIds : serving'[id] = serving[id]
      /\ serving'[new] = "none"
  BY <1>2, <1>3, AppendProperties DEF Inv, Types
<1>5. new \notin ReqIds /\ new \in ReqIds'
  BY <1>2
<1>6. Command(new) \in Message /\ Command(new).type = "command" /\ Command(new).id = new
  BY <1>2, Messages DEF Command
<1>7. /\ down' \in Seq(Message) /\ Len(down') = Len(down) + 1 /\ Len(down) \in Nat
      /\ down'[Len(down) + 1] = Command(new)
      /\ \A i \in 1 .. Len(down) : down'[i] = down[i]
  BY <1>3, <1>6, AppendProperties DEF Inv, Types
<1>8. Types'
  BY <1>2, <1>3, <1>4, <1>7 DEF Inv, Types
<1>9. \A id \in ReqIds : /\ id \in ReqIds' /\ id # new
                          /\ (Own(id)' <=> Own(id)) /\ (Local(id)' <=> Local(id))
  BY <1>2, <1>5 DEF Own, Local
<1>10. ~Own(new)'
  BY <1>2 DEF Own
<1>11. DownPlace'
  <2>1. \A j \in 1 .. Len(down) : down'[j].type = "command" => down'[j].id \in ReqIds
    BY <1>7 DEF Inv, DownPlace
  <2>2. ASSUME NEW i \in 1 .. Len(down'), down'[i].type = "command", NEW id, id = down'[i].id
        PROVE  /\ id \in ReqIds' /\ ~Own(id)' /\ serving'[id] = "none"
               /\ \A j \in 1 .. Len(down') : down'[j].type = "command" /\ down'[j].id = id => j = i
    <3>1. CASE i = Len(down) + 1
      <4>1. id = new
        BY <2>2, <3>1, <1>6, <1>7
      <4>2. \A j \in 1 .. Len(down') : j \in 1 .. Len(down) \/ j = i
        BY <3>1, <1>7
      <4> QED BY <2>1, <4>1, <4>2, <1>4, <1>5, <1>10
    <3>2. CASE i \in 1 .. Len(down)
      <4>1. id \in ReqIds /\ ~Own(id) /\ serving[id] = "none"
        BY <2>2, <3>2, <1>7 DEF Inv, DownPlace
      <4>2. id \in ReqIds' /\ ~Own(id)' /\ serving'[id] = "none"
        BY <4>1, <1>4, <1>9
      <4>3. ASSUME NEW j \in 1 .. Len(down'), down'[j].type = "command", down'[j].id = id
            PROVE  j = i
        <5>1. j # Len(down) + 1
          BY <4>1, <4>3, <1>5, <1>6, <1>7
        <5>2. j \in 1 .. Len(down) /\ down'[j] = down[j]
          BY <5>1, <1>7
        <5> QED BY <2>2, <3>2, <4>3, <5>2, <1>7 DEF Inv, DownPlace
      <4> QED BY <4>2, <4>3
    <3> QED BY <3>1, <3>2, <1>7
  <2> QED BY <2>2 DEF DownPlace, Own
<1>12. UpPlace'
  BY <1>3, <1>9 DEF Inv, UpPlace
<1>13. AnswerPlace'
  <2>1. ASSUME NEW id \in ReqIds PROVE Place(id)'
    <3>1. /\ serving'[id] = serving[id] /\ finals'[id] = finals[id]
          /\ rpcMap' = rpcMap /\ done' = done
      BY <1>2, <1>3, <1>4
    <3> QED BY <3>1, <1>9 DEF Inv, AnswerPlace, Place
  <2>2. Place(new)'
    <3>1. new \notin done' /\ new \notin rpcMap'
      BY <1>3, <1>5 DEF Inv, Types
    <3> QED BY <1>2, <1>4, <1>10, <3>1 DEF Place
  <2> QED BY <1>2, <2>1, <2>2 DEF AnswerPlace
<1> QED BY <1>8, <1>11, <1>12, <1>13 DEF Inv

\* A consumer that stops its stream may send a cancel, which is no command.
LEMMA StopStreamInv ==
  ASSUME Inv, NEW id \in ReqIds, NEW terminate \in BOOLEAN, StopStream(id, terminate)
  PROVE  Inv'
<1>1. UNCHANGED <<reqs, rpcMap, serving, done, parts, down, finals>>
  BY DEF StopStream
<1>2. up' \in Seq(Message) /\ UpPlace'
  <2>1. up' = up \/ up' = Append(up, Cancel(id))
    BY DEF StopStream
  <2>2. id \in Nat
    BY IdsOfRequests DEF Inv
  <2>3. Cancel(id) \in Message /\ Cancel(id).type # "command"
    BY <2>2, Messages DEF Cancel
  <2> QED BY <1>1, <2>1, <2>3, SendUp, UpSame DEF Inv, Types
<1> QED BY <1>1, <1>2, DownSame DEF Inv, Types, AnswerPlace, Place, ReqIds, Own, Local

\* A response that a client of the page sends, or that comes from the backend:
\* the handlers stay where they are.
LEMMA AfterResponse ==
  ASSUME Inv, NEW msg \in Message, Passes(msg), UNCHANGED <<reqs, serving, done, parts>>,
         DownPlace', down' \in Seq(Message)
  PROVE  Inv'
<1>1. Types'
  BY DEF Inv, Types, Passes, ReqIds
<1>2. AnswerPlace'
  BY PlaceAfter DEF AnswerPlace, ReqIds
<1> QED BY <1>1, <1>2 DEF Inv, Passes

\* sendResponse: the last one leaves the request without a route.
LEMMA SendResponse ==
  ASSUME Inv, NEW id \in ReqIds, NEW what \in {"data", "null", "error"}, NEW cont \in BOOLEAN,
         sendResponse(id, what, cont), reqs' = reqs
  PROVE  \E msg \in Message :
           /\ msg.id = id /\ msg.cont = cont /\ Passes(msg)
           /\ done' = IF cont THEN done ELSE done \union {id}
           /\ parts' \in Seq(Nat) /\ Len(parts') = Len(reqs)
<1> DEFINE msg == Response(id, what, cont, parts[id] + 1)
<1>1. /\ parts \in Seq(Nat) /\ Len(parts) = Len(reqs) /\ id \in 1 .. Len(parts) /\ id \in Nat
      /\ parts[id] \in Nat
  <2>1. parts \in Seq(Nat) /\ Len(parts) = Len(reqs)
    BY DEF Inv, Types
  <2>2. id \in 1 .. Len(parts) /\ Len(parts) \in Nat
    BY <2>1, IdsOfRequests DEF Inv
  <2> QED BY <2>1, <2>2, ElementOfSeq
<1>2. msg \in Message /\ msg.id = id /\ msg.cont = cont /\ msg.type = "response"
  BY <1>1, Messages DEF Response
<1>3. /\ done' = IF cont THEN done ELSE done \union {id}
      /\ parts' = [parts EXCEPT ![id] = @ + 1] /\ RouteResponse(msg)
  BY DEF sendResponse
<1>4. Passes(msg)
  BY <1>2, <1>3, ResponsePasses
<1>5. parts' \in Seq(Nat) /\ Len(parts') = Len(reqs)
  BY <1>1, <1>3, ExceptSeq
<1> QED BY <1>2, <1>3, <1>4, <1>5

LEMMA HandlerSendsInv ==
  ASSUME Inv, NEW id \in ReqIds, NEW cont \in BOOLEAN, HandlerSends(id, cont)
  PROVE  Inv'
<1>1. /\ sendResponse(id, "data", cont) /\ UNCHANGED <<reqs, serving, down>>
      /\ serving[id] = "running" /\ Local(id)
  BY DEF HandlerSends
<1>2. PICK msg \in Message :
        /\ msg.id = id /\ msg.cont = cont /\ Passes(msg)
        /\ done' = IF cont THEN done ELSE done \union {id}
        /\ parts' \in Seq(Nat) /\ Len(parts') = Len(reqs)
  BY <1>1, SendResponse
<1>3. Types'
  BY <1>1, <1>2 DEF Inv, Types, Passes, ReqIds
<1>4. AnswerPlace'
  <2>1. ASSUME NEW k \in ReqIds PROVE Place(k)'
    BY <1>1, <1>2 DEF Inv, AnswerPlace, Place, Passes, Own, Local, ReqIds
  <2> QED BY <1>1, <2>1 DEF AnswerPlace, ReqIds
<1> QED BY <1>1, <1>2, <1>3, <1>4, DownSame DEF Inv, Passes

LEMMA HandlerEndsInv ==
  ASSUME Inv, NEW id \in ReqIds, NEW what \in {"data", "null", "error"}, HandlerEnds(id, what)
  PROVE  Inv'
<1>0. ReqIds = 1 .. Len(reqs) /\ Len(reqs) \in Nat
  BY IdsOfRequests DEF Inv
<1>1. /\ UNCHANGED <<reqs, down>> /\ serving[id] = "running" /\ Local(id)
      /\ serving' = [serving EXCEPT ![id] = "over"]
  BY DEF HandlerEnds
<1>2. /\ serving' \in Seq({"none", "running", "over"}) /\ Len(serving') = Len(reqs)
      /\ \A k \in ReqIds : serving'[k] = IF k = id THEN "over" ELSE serving[k]
  BY <1>0, <1>1, ExceptSeq DEF Inv, Types
<1>3. /\ finals' \in Seq(0 .. 1) /\ Len(finals') = Len(reqs)
      /\ parts' \in Seq(Nat) /\ Len(parts') = Len(reqs)
      /\ rpcMap' \subseteq ReqIds /\ done' \subseteq ReqIds
      /\ up' \in Seq(Message) /\ UpPlace'
      /\ \A k \in ReqIds :
           \/ finals'[k] = finals[k] /\ (k \in rpcMap' <=> k \in rpcMap) /\ (k \in done' <=> k \in done)
                /\ (k = id => k \in done \/ k \notin rpcMap')
           \/ k = id /\ finals'[k] = 1 /\ k \notin rpcMap'
           \/ k = id /\ finals'[k] = finals[k] /\ k \notin rpcMap /\ k \notin rpcMap'
  <2>1. CASE id \in done
    <3>1. UNCHANGED <<done, parts, rpcMap, finals, up>>
      BY <2>1 DEF HandlerEnds
    <3> QED BY <1>1, <2>1, <3>1, UpSame DEF Inv, Types
  <2>2. CASE id \notin done
    <3>1. sendResponse(id, what, FALSE)
      BY <2>2 DEF HandlerEnds
    <3>2. PICK msg \in Message :
            /\ msg.id = id /\ msg.cont = FALSE /\ Passes(msg)
            /\ done' = done \union {id}
            /\ parts' \in Seq(Nat) /\ Len(parts') = Len(reqs)
      BY <1>1, <3>1, SendResponse
    <3> QED BY <3>2 DEF Inv, Types, Passes
  <2> QED BY <2>1, <2>2
<1>4. Types'
  BY <1>1, <1>2, <1>3 DEF Inv, Types, ReqIds
<1>5. DownPlace'
  BY <1>1, <1>2 DEF Inv, DownPlace, AnswerPlace, Place, ReqIds, Own
<1>6. AnswerPlace'
  <2>1. ASSUME NEW k \in ReqIds PROVE Place(k)'
    BY <1>1, <1>2, <1>3 DEF Inv, AnswerPlace, Place, Own, Local, ReqIds
  <2> QED BY <1>1, <2>1 DEF AnswerPlace, ReqIds
<1> QED BY <1>3, <1>4, <1>5, <1>6 DEF Inv

\* A cancel that a client takes for a command ends the request's route.
LEMMA DenyInv ==
  ASSUME Inv, NEW id \in ReqIds, Deny(id)
  PROVE  Inv'
<1> DEFINE msg == Response(id, "error", FALSE, 0)
<1>1. UNCHANGED <<reqs, serving, done, parts, down>> /\ RouteResponse(msg)
  BY DEF Deny
<1>2. msg \in Message /\ msg.type = "response"
  <2>1. id \in Nat /\ 0 \in Nat
    BY IdsOfRequests DEF Inv
  <2>2. msg \in Message
    BY <2>1, Messages
  <2> QED BY <2>2 DEF Response
<1>3. Passes(msg)
  BY <1>1, <1>2, ResponsePasses
<1> QED BY <1>1, <1>2, <1>3, AfterResponse, DownSame DEF Inv, Types

\* Something that is no command is put on its way from the backend.
LEMMA SendDown ==
  ASSUME Inv, NEW msg \in Message, msg.type # "command", down' = Append(down, msg), reqs' = reqs,
         \A id \in ReqIds : serving[id] = "none" => serving'[id] = "none"
  PROVE  down' \in Seq(Message) /\ DownPlace'
<1>1. /\ down' \in Seq(Message) /\ Len(down') = Len(down) + 1 /\ Len(down) \in Nat
      /\ \A i \in 1 .. Len(down) : down'[i] = down[i]
      /\ down'[Len(down) + 1] = msg
  BY AppendProperties DEF Inv, Types
<1>2. \A i \in 1 .. Len(down') : down'[i].type = "command" => i \in 1 .. Len(down) /\ down'[i] = down[i]
  BY <1>1
<1> QED BY <1>1, <1>2 DEF Inv, DownPlace, ReqIds, Own

LEMMA BackendCancelsInv ==
  ASSUME Inv, NEW id \in ReqIds, BackendCancels(id)
  PROVE  Inv'
<1>1. /\ UNCHANGED <<reqs, rpcMap, serving, done, parts, up, finals>>
      /\ down' = Append(down, Cancel(id))
  BY DEF BackendCancels
<1>2. Cancel(id) \in Message /\ Cancel(id).type # "command"
  BY IdsOfRequests, Messages DEF Cancel, Inv
<1>3. down' \in Seq(Message) /\ DownPlace'
  BY <1>1, <1>2, SendDown
<1> QED BY <1>1, <1>3, UpSame DEF Inv, Types, AnswerPlace, Place, ReqIds, Own, Local

LEMMA BackendRespondsInv ==
  ASSUME Inv, NEW id \in ReqIds, NEW what \in {"data", "null", "error"}, NEW cont \in BOOLEAN,
         BackendResponds(id, what, cont)
  PROVE  Inv'
<1> DEFINE msg == Response(id, what, cont, parts[id] + 1)
<1>0. ReqIds = 1 .. Len(reqs) /\ Len(reqs) \in Nat
  BY IdsOfRequests DEF Inv
<1>1. /\ UNCHANGED <<reqs, rpcMap, done, up, finals>> /\ serving[id] = "running" /\ ~Local(id)
      /\ parts' = [parts EXCEPT ![id] = @ + 1]
      /\ serving' = [serving EXCEPT ![id] = IF cont THEN @ ELSE "over"]
      /\ down' = Append(down, msg)
  BY DEF BackendResponds
<1>2. /\ parts \in Seq(Nat) /\ Len(parts) = Len(reqs)
      /\ serving \in Seq({"none", "running", "over"}) /\ Len(serving) = Len(reqs)
  BY DEF Inv, Types
<1>3. parts[id] \in Nat /\ id \in Nat
  BY <1>0, <1>2, ElementOfSeq
<1>4. msg \in Message /\ msg.type # "command"
  BY <1>3, Messages DEF Response
<1>5. parts' \in Seq(Nat) /\ Len(parts') = Len(reqs)
  BY <1>0, <1>1, <1>2, <1>3, ExceptSeq
<1>6. /\ serving' \in Seq({"none", "running", "over"}) /\ Len(serving') = Len(reqs)
      /\ \A k \in ReqIds : k # id => serving'[k] = serving[k]
      /\ serving'[id] \in {"running", "over"}
  <2> DEFINE next == IF cont THEN serving[id] ELSE "over"
  <2>1. next \in {"running", "over"} /\ serving' = [serving EXCEPT ![id] = next]
    BY <1>1
  <2> HIDE DEF next
  <2> QED BY <1>0, <1>2, <2>1, ExceptSeq
<1>7. down' \in Seq(Message) /\ DownPlace'
  BY <1>1, <1>4, <1>6, SendDown
<1>8. Types'
  BY <1>1, <1>5, <1>6, <1>7 DEF Inv, Types, ReqIds
<1>9. AnswerPlace'
  <2>1. ASSUME NEW k \in ReqIds PROVE Place(k)'
    BY <1>1, <1>6 DEF Inv, AnswerPlace, Place, Own, Local, ReqIds
  <2> QED BY <1>1, <2>1 DEF AnswerPlace, ReqIds
<1> QED BY <1>1, <1>7, <1>8, <1>9, UpSame DEF Inv

\* The head of a line of messages, and what is left of the line.
LEMMA Line ==
  ASSUME NEW line, line \in Seq(Message), line # <<>>
  PROVE  /\ Head(line) \in Message /\ Head(line) = line[1] /\ 1 \in 1 .. Len(line)
         /\ Tail(line) \in Seq(Message) /\ Len(Tail(line)) = Len(line) - 1 /\ Len(line) \in Nat
         /\ \A i \in 1 .. Len(Tail(line)) : Tail(line)[i] = line[i + 1] /\ i + 1 \in 2 .. Len(line)
BY HeadTailProperties, LenProperties

LEMMA BackendReceivesInv ==
  ASSUME Inv, BackendReceives
  PROVE  Inv'
<1> DEFINE msg == Head(up)
<1>0. ReqIds = 1 .. Len(reqs) /\ Len(reqs) \in Nat
  BY IdsOfRequests DEF Inv
<1>1. /\ UNCHANGED <<reqs, rpcMap, done, parts, down, finals>> /\ up # <<>> /\ up' = Tail(up)
      /\ serving' = IF msg.type = "command" THEN [serving EXCEPT ![msg.id] = "running"] ELSE serving
  BY DEF BackendReceives
<1>2. /\ msg \in Message /\ msg = up[1] /\ 1 \in 1 .. Len(up)
      /\ up' \in Seq(Message) /\ Len(up') = Len(up) - 1 /\ Len(up) \in Nat
      /\ \A i \in 1 .. Len(up') : up'[i] = up[i + 1] /\ i + 1 \in 2 .. Len(up)
  BY <1>1, Line DEF Inv, Types
<1>3. UpPlace'
  BY <1>1, <1>2 DEF Inv, UpPlace, ReqIds, Own, Local
<1>4. /\ serving' \in Seq({"none", "running", "over"}) /\ Len(serving') = Len(reqs)
      /\ \A k \in ReqIds : serving'[k] = serving[k] \/ (Own(k) /\ ~Local(k))
  <2>1. CASE msg.type = "command"
    <3>1. msg.id \in ReqIds /\ Own(msg.id) /\ ~Local(msg.id)
      BY <1>2, <2>1 DEF Inv, UpPlace
    <3> QED BY <1>0, <1>1, <2>1, <3>1, ExceptSeq DEF Inv, Types
  <2>2. CASE msg.type # "command"
    BY <1>1, <2>2 DEF Inv, Types
  <2> QED BY <2>1, <2>2
<1>5. Types'
  BY <1>1, <1>2, <1>4 DEF Inv, Types, ReqIds
<1>6. DownPlace'
  BY <1>1, <1>4 DEF Inv, DownPlace, ReqIds, Own
<1>7. AnswerPlace'
  <2>1. ASSUME NEW k \in ReqIds PROVE Place(k)'
    BY <1>1, <1>4 DEF Inv, AnswerPlace, Place, Own, Local, ReqIds
  <2> QED BY <1>1, <2>1 DEF AnswerPlace, ReqIds
<1> QED BY <1>3, <1>5, <1>6, <1>7 DEF Inv

\* The router takes the next message from the backend.
LEMMA ReceiveInv ==
  ASSUME Inv, PageReceives
  PROVE  Inv'
<1> DEFINE msg == Head(down)
<1>0. ReqIds = 1 .. Len(reqs) /\ Len(reqs) \in Nat
  BY IdsOfRequests DEF Inv
<1>1. UNCHANGED <<reqs, done, parts>> /\ down # <<>> /\ down' = Tail(down)
  BY DEF PageReceives
<1>2. /\ msg \in Message /\ msg = down[1] /\ 1 \in 1 .. Len(down)
      /\ down' \in Seq(Message) /\ Len(down') = Len(down) - 1 /\ Len(down) \in Nat
      /\ \A i \in 1 .. Len(down') : down'[i] = down[i + 1] /\ i + 1 \in 2 .. Len(down)
  BY <1>1, Line DEF Inv, Types
<1>3. ASSUME \A k \in ReqIds : serving'[k] = serving[k] \/ (msg.type = "command" /\ k = msg.id)
      PROVE  DownPlace'
  <2>1. ASSUME NEW i \in 1 .. Len(down'), down'[i].type = "command", NEW id, id = down'[i].id
        PROVE  /\ id \in ReqIds /\ ~Own(id) /\ serving[id] = "none"
               /\ (msg.type = "command" => id # msg.id)
               /\ \A j \in 1 .. Len(down') : down'[j].type = "command" /\ down'[j].id = id => j = i
    <3>1. i + 1 \in 1 .. Len(down) /\ down[i + 1].type = "command" /\ down[i + 1].id = id
      BY <1>2, <2>1
    <3>2. id \in ReqIds /\ ~Own(id) /\ serving[id] = "none"
      BY <3>1 DEF Inv, DownPlace
    <3>3. \A j \in 1 .. Len(down) : down[j].type = "command" /\ down[j].id = id => j = i + 1
      BY <3>1 DEF Inv, DownPlace
    <3>4. i \in Nat /\ i + 1 # 1
      BY <1>2, <2>1
    <3>5. msg.type = "command" => id # msg.id
      BY <1>2, <3>3, <3>4
    <3>6. ASSUME NEW j \in 1 .. Len(down'), down'[j].type = "command", down'[j].id = id PROVE j = i
      <4>1. j + 1 \in 1 .. Len(down) /\ down[j + 1].type = "command" /\ down[j + 1].id = id
        BY <1>2, <3>6
      <4> QED BY <3>3, <3>4, <4>1
    <3> QED BY <3>2, <3>5, <3>6
  <2> HIDE DEF msg
  <2>2. \A i \in 1 .. Len(down') : down'[i].type = "command" =>
          /\ down'[i].id \in ReqIds /\ ~Own(down'[i].id) /\ serving'[down'[i].id] = "none"
          /\ \A j \in 1 .. Len(down') : down'[j].type = "command" /\ down'[j].id = down'[i].id => j = i
    BY <1>3, <2>1
  <2> QED BY <1>1, <2>2 DEF DownPlace, ReqIds, Own
<1>4. CASE msg.type = "command"
  <2>1. /\ rpcMap' = rpcMap \union {msg.id} /\ serving' = [serving EXCEPT ![msg.id] = "running"]
        /\ UNCHANGED <<finals, up>>
    BY <1>4 DEF PageReceives
  <2>2. msg.id \in ReqIds /\ ~Own(msg.id) /\ serving[msg.id] = "none"
    BY <1>2, <1>4 DEF Inv, DownPlace
  <2>3. /\ serving' \in Seq({"none", "running", "over"}) /\ Len(serving') = Len(reqs)
        /\ \A k \in ReqIds : serving'[k] = IF k = msg.id THEN "running" ELSE serving[k]
    BY <1>0, <2>1, <2>2, ExceptSeq DEF Inv, Types
  <2>4. DownPlace'
    BY <1>3, <1>4, <2>3
  <2>5. rpcMap \subseteq ReqIds /\ done \subseteq ReqIds
    BY DEF Inv, Types
  <2>6. Types'
    BY <1>1, <1>2, <2>1, <2>2, <2>3, <2>5 DEF Inv, Types, ReqIds
  <2>7. AnswerPlace'
    <3>1. ASSUME NEW k \in ReqIds PROVE Place(k)'
      BY <1>1, <2>1, <2>2, <2>3 DEF Inv, AnswerPlace, Place, Own, Local, ReqIds
    <3> QED BY <1>1, <3>1 DEF AnswerPlace, ReqIds
  <2> QED BY <1>1, <2>1, <2>4, <2>6, <2>7, UpSame DEF Inv
<1>5. CASE msg.type = "cancel"
  <2>1. UNCHANGED <<rpcMap, serving, finals, up>>
    BY <1>5 DEF PageReceives
  <2>2. DownPlace'
    BY <1>3, <2>1
  <2> QED BY <1>1, <1>2, <2>1, <2>2, UpSame DEF Inv, Types, AnswerPlace, Place, ReqIds, Own, Local
<1>6. CASE msg.type = "response"
  <2>1. RouteResponse(msg) /\ UNCHANGED serving
    BY <1>6 DEF PageReceives
  <2>2. DownPlace'
    BY <1>3, <2>1
  <2>3. Passes(msg)
    BY <1>1, <1>2, <1>6, <2>1, ResponsePasses
  <2> QED BY <1>1, <1>2, <2>1, <2>2, <2>3, AfterResponse
<1> QED BY <1>2, <1>4, <1>5, <1>6 DEF Message

LEMMA LoseInv ==
  ASSUME Inv, Lose
  PROVE  Inv'
<1>1. /\ UNCHANGED <<reqs, rpcMap, serving, done, parts, finals>> /\ up' = <<>> /\ down' = <<>>
  BY DEF Lose
<1>2. /\ up' \in Seq(Message) /\ down' \in Seq(Message) /\ Len(up') = 0 /\ Len(down') = 0
  BY <1>1, EmptySeq
<1> QED BY <1>1, <1>2 DEF Inv, Types, DownPlace, UpPlace, AnswerPlace, Place, ReqIds, Own, Local

LEMMA InitInv == RpcInit => Inv
<1> SUFFICES ASSUME RpcInit PROVE Inv
  OBVIOUS
<1>1. /\ reqs = <<>> /\ rpcMap = {} /\ serving = <<>> /\ done = {} /\ parts = <<>> /\ finals = <<>>
      /\ up = <<>> /\ down = <<>>
  BY DEF RpcInit
<1>2. \A S : <<>> \in Seq(S) /\ Len(<<>>) = 0
  BY EmptySeq
<1>3. ReqIds = {}
  BY <1>1 DEF ReqIds
<1> QED BY <1>1, <1>2, <1>3 DEF Inv, Types, DownPlace, UpPlace, AnswerPlace

-----------------------------------------------------------------------------
LEMMA NextInv ==
  ASSUME Upstream \notin Clients
  PROVE  Inv /\ [RpcNext]_rpcVars => Inv'
<1> SUFFICES ASSUME Inv, [RpcNext]_rpcVars PROVE Inv'
  OBVIOUS
<1>1. CASE \E c \in Clients, dst \in Clients \union {Upstream}, kind \in RpcKinds, timed \in BOOLEAN :
             c # dst /\ wshRpcCall(c, dst, kind, timed)
  BY <1>1, CallInv DEF Ends
<1>2. CASE \E id \in ReqIds : Timeout(id) \/ ResumeGenerator(id) \/ AskForMore(id)
  <2>1. UNCHANGED <<reqs, rpcMap, serving, done, parts, finals, up, down>>
    BY <1>2 DEF Timeout, ResumeGenerator, AskForMore, wires
  <2> QED BY <2>1, QuietStep
<1>3. CASE \E id \in ReqIds : Deny(id) \/ BackendCancels(id)
  BY <1>3, DenyInv, BackendCancelsInv
<1>4. CASE \E id \in ReqIds, flag \in BOOLEAN : StopStream(id, flag) \/ HandlerSends(id, flag)
  BY <1>4, StopStreamInv, HandlerSendsInv
<1>5. CASE \E id \in ReqIds, what \in {"data", "null", "error"} :
             HandlerEnds(id, what) \/ \E cont \in BOOLEAN : BackendResponds(id, what, cont)
  BY <1>5, HandlerEndsInv, BackendRespondsInv
<1>6. CASE \E c \in Clients : BackendCalls(c)
  BY <1>6, BackendCallsInv
<1>7. CASE PageReceives
  BY <1>7, ReceiveInv
<1>8. CASE BackendReceives
  BY <1>8, BackendReceivesInv
<1>9. CASE Lose
  BY <1>9, LoseInv
<1>10. CASE UNCHANGED rpcVars
  <2>1. UNCHANGED <<reqs, rpcMap, serving, done, parts, finals, up, down>>
    BY <1>10 DEF rpcVars, wires
  <2> QED BY <2>1, QuietStep
<1> QED BY <1>1, <1>2, <1>3, <1>4, <1>5, <1>6, <1>7, <1>8, <1>9, <1>10 DEF RpcNext

\* For any number of clients and requests, and whatever is lost: no requester
\* gets two last responses, and one whose handler in the page is over has got one
\* (RpcResponseHelper and WshRouter).  The backend is none of the page's clients.
THEOREM AnsweredOnceAlways ==
  RpcSpec => []AnsweredOnce
<1>1. Inv => AnsweredOnce
  <2> SUFFICES ASSUME Inv, NEW id \in ReqIds
               PROVE  finals[id] <= 1 /\ (Local(id) /\ serving[id] = "over" => finals[id] = 1)
    BY DEF AnsweredOnce
  <2>1. finals \in Seq(0 .. 1) /\ Len(finals) = Len(reqs) /\ id \in 1 .. Len(reqs)
    BY IdsOfRequests DEF Inv, Types
  <2>2. finals[id] \in 0 .. 1
    BY <2>1, ElementOfSeq
  <2> QED BY <2>2 DEF Inv, AnswerPlace, Place
<1>2. Inv /\ [RpcNext]_rpcVars => Inv'
  BY RpcAssumption, NextInv
<1> QED BY <1>1, <1>2, InitInv, PTL DEF RpcSpec

-----------------------------------------------------------------------------
(***************************************************************************)
(* What the consumer of a call gets, and that its responses reach it.      *)
(***************************************************************************)
Reply == [type : {"response"}, id : Nat, what : {"data", "null", "error"}, cont : BOOLEAN, n : Nat]
GenRec == [phase : {"none", "waiting", "yielded", "done"}, queue : Seq(Reply), last : BOOLEAN,
           outcome : {"none", "data", "null", "error", "stopped"}]

GenTypes ==
  /\ gen \in Seq(GenRec) /\ Len(gen) = Len(reqs)
  /\ seen \in Seq(Seq(Nat)) /\ Len(seen) = Len(reqs)
  /\ openRpcs \subseteq ReqIds /\ timers \subseteq openRpcs /\ denied \subseteq ReqIds
  /\ lost \in Nat

Owned == \A id \in ReqIds : Own(id) \/ Local(id)

\* A command on its way to the backend has met no handler, and it is the only
\* one of its number.
UpOnce ==
  \A i \in 1 .. Len(up) : up[i].type = "command" =>
    /\ serving[up[i].id] = "none"
    /\ \A j \in 1 .. Len(up) : up[j].type = "command" /\ up[j].id = up[i].id => j = i

\* The backend cancels only what it asked for, and a last response that is
\* still on its way from it is the last of all.
DownAnswers ==
  \A i \in 1 .. Len(down) :
    /\ down[i].type = "cancel" => down[i].id \in ReqIds /\ ~Own(down[i].id)
    /\ down[i].type = "response" =>
         /\ down[i].id \in ReqIds /\ ~Local(down[i].id)
         /\ ~down[i].cont => down[i].n = parts[down[i].id] /\ serving[down[i].id] = "over"

Wire == Owned /\ UpOnce /\ DownAnswers

Live(id) == gen[id].phase \in {"waiting", "yielded"}
Finished(id) == IF Local(id) THEN id \in done ELSE serving[id] = "over"

\* A call that has not ended keeps its entry and nobody denies it; its route
\* is there, or its last response has come.
WaitPlace(id) ==
  Live(id) =>
    /\ Own(id) /\ id \in openRpcs /\ id \notin denied
    /\ Local(id) => id \in rpcMap \/ id \in done
    /\ \/ id \in rpcMap
       \/ \E i \in 1 .. Len(gen[id].queue) : ~gen[id].queue[i].cont
       \/ gen[id].phase = "yielded" /\ gen[id].last
Waits == \A id \in ReqIds : WaitPlace(id)

\* The responses to a request on a line are numbered from base + 1 to top, in
\* this order.
Answers(msg, id) == msg.type = "response" /\ msg.id = id
Continues(line, id, base, top) ==
  /\ base <= top
  /\ \A i \in 1 .. Len(line) : Answers(line[i], id) => line[i].n \in base + 1 .. top
  /\ \A n \in base + 1 .. top : \E i \in 1 .. Len(line) : Answers(line[i], id) /\ line[i].n = n
  /\ \A i, j \in 1 .. Len(line) :
       i < j /\ Answers(line[i], id) /\ Answers(line[j], id) => line[i].n < line[j].n

\* The consumer has got the responses from the first, its queue continues
\* what it has got, and what is on its way continues the queue, up to what
\* has been sent.  An error ends a call: what comes behind it does not count.
Clean(q, k) == \A i \in 1 .. k : q[i].what # "error"
OrderPlace(id) ==
  LET q == gen[id].queue
      s == Len(seen[id])
  IN /\ \A i \in 1 .. s : seen[id][i] = i
     /\ Live(id) =>
          /\ \A i \in 1 .. Len(q) :
               Clean(q, i) => q[i].n = s + i /\ (~q[i].cont => q[i].n = parts[id] /\ Finished(id))
          /\ Clean(q, Len(q)) => Continues(down, id, s + Len(q), parts[id])
     /\ gen[id].phase = "yielded" /\ gen[id].last => s = parts[id] /\ Finished(id)
     /\ gen[id].phase = "done" /\ gen[id].outcome \in {"data", "null"} => s = parts[id] /\ Finished(id)
Order == lost = 0 => \A id \in ReqIds : OrderPlace(id)

CallsInv == Inv /\ GenTypes /\ Wire /\ Waits

-----------------------------------------------------------------------------
(* What a line of messages says of one request. *)

LEMMA ContinuesOther ==
  ASSUME NEW line \in Seq(Message), NEW msg \in Message, NEW id, ~Answers(msg, id),
         NEW base \in Nat, NEW top \in Nat, Continues(line, id, base, top)
  PROVE  Continues(Append(line, msg), id, base, top)
<1> DEFINE new == Append(line, msg)
<1>1. /\ Len(new) = Len(line) + 1 /\ Len(line) \in Nat /\ new[Len(line) + 1] = msg
      /\ \A i \in 1 .. Len(line) : new[i] = line[i]
  BY AppendProperties, LenProperties
<1> HIDE DEF new
<1>2. \A i \in 1 .. Len(new) : Answers(new[i], id) => i \in 1 .. Len(line) /\ new[i] = line[i]
  BY <1>1
<1>3. \A i \in 1 .. Len(line) : i \in 1 .. Len(new)
  BY <1>1
<1>4. Continues(new, id, base, top)
  BY <1>1, <1>2, <1>3 DEF Continues
<1> QED BY <1>4 DEF new

LEMMA ContinuesNext ==
  ASSUME NEW line \in Seq(Message), NEW msg \in Message, NEW id, Answers(msg, id),
         NEW base \in Nat, NEW top \in Nat, msg.n = top + 1, Continues(line, id, base, top)
  PROVE  Continues(Append(line, msg), id, base, top + 1)
<1> DEFINE new == Append(line, msg)
<1>1. /\ Len(new) = Len(line) + 1 /\ Len(line) \in Nat /\ new[Len(line) + 1] = msg
      /\ \A i \in 1 .. Len(line) : new[i] = line[i] /\ i \in 1 .. Len(new)
  BY AppendProperties, LenProperties
<1> HIDE DEF new
<1>2. \A i \in 1 .. Len(new) : i = Len(line) + 1 \/ (i \in 1 .. Len(line) /\ new[i] = line[i])
  BY <1>1
<1>3. Len(line) + 1 \in 1 .. Len(new)
  BY <1>1
<1>4. \A i \in 1 .. Len(new) : Answers(new[i], id) => new[i].n \in base + 1 .. top + 1
  BY <1>1, <1>2 DEF Continues
<1>5. ASSUME NEW n \in base + 1 .. top + 1
      PROVE  \E i \in 1 .. Len(new) : Answers(new[i], id) /\ new[i].n = n
  <2>1. CASE n = top + 1
    BY <1>1, <1>3, <2>1
  <2>2. CASE n # top + 1
    <3>1. n \in base + 1 .. top
      BY <1>5, <2>2
    <3> QED BY <1>1, <3>1 DEF Continues
  <2> QED BY <2>1, <2>2
<1>6. ASSUME NEW i \in 1 .. Len(new), NEW j \in 1 .. Len(new), i < j,
             Answers(new[i], id), Answers(new[j], id)
      PROVE  new[i].n < new[j].n
  <2>1. i \in 1 .. Len(line) /\ new[i] = line[i]
    BY <1>1, <1>2, <1>6
  <2>2. CASE j = Len(line) + 1
    <3>1. new[i].n \in base + 1 .. top /\ new[j].n = top + 1
      BY <1>1, <1>6, <2>1, <2>2 DEF Continues
    <3> QED BY <3>1
  <2>3. CASE j \in 1 .. Len(line) /\ new[j] = line[j]
    BY <1>6, <2>1, <2>3 DEF Continues
  <2> QED BY <1>2, <2>2, <2>3
<1>7. base <= top + 1
  BY DEF Continues
<1>8. Continues(new, id, base, top + 1)
  BY ONLY <1>4, <1>5, <1>6, <1>7 DEF Continues
<1> QED BY <1>8 DEF new

LEMMA ContinuesTailOther ==
  ASSUME NEW line \in Seq(Message), line # <<>>, NEW id, ~Answers(Head(line), id),
         NEW base \in Nat, NEW top \in Nat, Continues(line, id, base, top)
  PROVE  Continues(Tail(line), id, base, top)
<1> DEFINE new == Tail(line)
<1>1. /\ Head(line) = line[1] /\ Len(new) = Len(line) - 1 /\ Len(line) \in Nat
      /\ \A i \in 1 .. Len(new) : new[i] = line[i + 1] /\ i + 1 \in 1 .. Len(line)
  BY Line
<1> HIDE DEF new
<1>2. ASSUME NEW i \in 1 .. Len(line), Answers(line[i], id)
      PROVE  i - 1 \in 1 .. Len(new) /\ new[i - 1] = line[i]
  <2>1. i # 1
    BY <1>1, <1>2
  <2>2. i - 1 \in 1 .. Len(new) /\ (i - 1) + 1 = i
    BY <1>1, <2>1
  <2> QED BY <1>1, <2>2
<1>3. \A i \in 1 .. Len(new) : Answers(new[i], id) => new[i].n \in base + 1 .. top
  BY <1>1 DEF Continues
<1>4. \A n \in base + 1 .. top : \E i \in 1 .. Len(new) : Answers(new[i], id) /\ new[i].n = n
  BY <1>2 DEF Continues
<1>5. ASSUME NEW i \in 1 .. Len(new), NEW j \in 1 .. Len(new), i < j,
             Answers(new[i], id), Answers(new[j], id)
      PROVE  new[i].n < new[j].n
  <2>1. i + 1 < j + 1 /\ i + 1 \in 1 .. Len(line) /\ j + 1 \in 1 .. Len(line)
    BY <1>1, <1>5
  <2> QED BY <1>1, <1>5, <2>1 DEF Continues
<1>6. Continues(new, id, base, top)
  BY <1>3, <1>4, <1>5 DEF Continues
<1> QED BY <1>6 DEF new

LEMMA ContinuesTail ==
  ASSUME NEW line \in Seq(Message), line # <<>>, NEW id, Answers(Head(line), id),
         NEW base \in Nat, NEW top \in Nat, Continues(line, id, base, top)
  PROVE  Head(line).n = base + 1 /\ base + 1 <= top /\ Continues(Tail(line), id, base + 1, top)
<1> DEFINE new == Tail(line)
<1>1. /\ Head(line) = line[1] /\ 1 \in 1 .. Len(line) /\ Len(new) = Len(line) - 1 /\ Len(line) \in Nat
      /\ \A i \in 1 .. Len(new) : new[i] = line[i + 1] /\ i + 1 \in 1 .. Len(line) /\ i + 1 > 1
  BY Line
<1> HIDE DEF new
<1>2. line[1].n \in base + 1 .. top
  BY <1>1 DEF Continues
<1>3. base + 1 \in base + 1 .. top
  BY <1>2
<1>4. PICK k \in 1 .. Len(line) : Answers(line[k], id) /\ line[k].n = base + 1
  BY <1>3 DEF Continues
<1>5. k = 1
  <2>1. ~(1 < k)
    <3> SUFFICES ASSUME 1 < k PROVE FALSE
      OBVIOUS
    <3>1. line[1].n < line[k].n
      BY <1>1, <1>4 DEF Continues
    <3> QED BY <1>2, <1>4, <3>1
  <2> QED BY <2>1
<1>6. \A i \in 1 .. Len(new) : Answers(new[i], id) => new[i].n \in base + 2 .. top
  <2> SUFFICES ASSUME NEW i \in 1 .. Len(new), Answers(new[i], id) PROVE new[i].n \in base + 2 .. top
    OBVIOUS
  <2>1. i + 1 \in 1 .. Len(line) /\ i + 1 > 1 /\ new[i] = line[i + 1]
    BY <1>1
  <2>2. line[i + 1].n \in base + 1 .. top /\ line[1].n < line[i + 1].n
    BY <1>1, <2>1 DEF Continues
  <2> QED BY <1>4, <1>5, <2>1, <2>2
<1>7. ASSUME NEW n \in base + 2 .. top
      PROVE  \E i \in 1 .. Len(new) : Answers(new[i], id) /\ new[i].n = n
  <2>1. n \in base + 1 .. top
    OBVIOUS
  <2>2. PICK i \in 1 .. Len(line) : Answers(line[i], id) /\ line[i].n = n
    BY <2>1 DEF Continues
  <2>3. i # 1
    BY <1>4, <1>5, <2>2
  <2>4. i - 1 \in 1 .. Len(new) /\ (i - 1) + 1 = i
    BY <1>1, <2>3
  <2> QED BY <1>1, <2>2, <2>4
<1>8. ASSUME NEW i \in 1 .. Len(new), NEW j \in 1 .. Len(new), i < j,
             Answers(new[i], id), Answers(new[j], id)
      PROVE  new[i].n < new[j].n
  <2>1. i + 1 < j + 1 /\ i + 1 \in 1 .. Len(line) /\ j + 1 \in 1 .. Len(line)
    BY <1>1, <1>8
  <2> QED BY <1>1, <1>8, <2>1 DEF Continues
<1>9. (base + 1) + 1 = base + 2 /\ base + 1 <= top
  BY <1>2
<1>10. Continues(new, id, base + 1, top)
  BY <1>6, <1>7, <1>8, <1>9 DEF Continues
<1> QED BY <1>1, <1>4, <1>5, <1>9, <1>10 DEF new

\* Without an answer on the line there is nothing to continue.
LEMMA ContinuesNone ==
  ASSUME NEW line \in Seq(Message), NEW id, \A i \in 1 .. Len(line) : ~Answers(line[i], id),
         NEW base \in Nat
  PROVE  Continues(line, id, base, base) /\ \A top \in Nat : Continues(line, id, base, top) => top = base
<1>1. Continues(line, id, base, base)
  BY DEF Continues
<1>2. ASSUME NEW top \in Nat, Continues(line, id, base, top), top # base PROVE FALSE
  <2>1. top \in base + 1 .. top
    BY <1>2 DEF Continues
  <2> QED BY <1>2, <2>1 DEF Continues
<1> QED BY <1>1, <1>2

-----------------------------------------------------------------------------
(* Frames: what a step leaves alone keeps its place. *)

LEMMA CallTypes ==
  ASSUME CallsInv, NEW id \in ReqIds
  PROVE  /\ ReqIds = 1 .. Len(reqs) /\ Len(reqs) \in Nat /\ id \in Nat
         /\ gen[id] \in GenRec /\ gen[id].queue \in Seq(Reply) /\ Len(gen[id].queue) \in Nat
         /\ seen[id] \in Seq(Nat) /\ Len(seen[id]) \in Nat
         /\ parts[id] \in Nat
<1>1. ReqIds = 1 .. Len(reqs) /\ Len(reqs) \in Nat
  BY IdsOfRequests DEF CallsInv, Inv
<1>2. /\ gen \in Seq(GenRec) /\ Len(gen) = Len(reqs) /\ seen \in Seq(Seq(Nat)) /\ Len(seen) = Len(reqs)
      /\ parts \in Seq(Nat) /\ Len(parts) = Len(reqs)
  BY DEF CallsInv, Inv, Types, GenTypes
<1>3. gen[id] \in GenRec /\ seen[id] \in Seq(Nat) /\ parts[id] \in Nat
  BY <1>1, <1>2, ElementOfSeq
<1>4. gen[id].queue \in Seq(Reply)
  BY <1>3 DEF GenRec
<1>5. Len(gen[id].queue) \in Nat /\ Len(seen[id]) \in Nat
  BY <1>3, <1>4, LenProperties
<1> QED BY <1>1, <1>3, <1>4, <1>5

Becomes(id, g) == gen' = [gen EXCEPT ![id] = g]

LEMMA GenStep ==
  ASSUME CallsInv, NEW id \in ReqIds, NEW g \in GenRec, Becomes(id, g)
  PROVE  /\ gen' \in Seq(GenRec) /\ Len(gen') = Len(reqs)
         /\ \A k \in ReqIds : gen'[k] = IF k = id THEN g ELSE gen[k]
<1>1. gen \in Seq(GenRec) /\ Len(gen) = Len(reqs) /\ ReqIds = 1 .. Len(reqs)
  BY CallTypes DEF CallsInv, GenTypes
<1> QED BY <1>1, ExceptSeq DEF Becomes

Unmoved(id) ==
  /\ reqs'[id] = reqs[id] /\ gen'[id] = gen[id]
  /\ Live(id) =>
       /\ id \in openRpcs => id \in openRpcs'
       /\ id \in rpcMap => id \in rpcMap'
       /\ id \in denied' => id \in denied
       /\ id \in done => id \in done'

LEMMA UnmovedWaits ==
  ASSUME NEW id, Unmoved(id), WaitPlace(id)
  PROVE  WaitPlace(id)'
BY DEF Unmoved, WaitPlace, Live, Own, Local

\* Nothing is sent once the last response has been.
Settled(id) == Finished(id) => Finished(id)' /\ parts'[id] = parts[id]

Undisturbed(id) ==
  /\ gen'[id] = gen[id] /\ seen'[id] = seen[id] /\ Settled(id)
  /\ Live(id) =>
       \A base \in Nat : Continues(down, id, base, parts[id]) => Continues(down', id, base, parts'[id])

LEMMA UndisturbedOrder ==
  ASSUME CallsInv, NEW id \in ReqIds, Undisturbed(id), OrderPlace(id)
  PROVE  OrderPlace(id)'
<1>1. Len(gen[id].queue) \in Nat /\ Len(seen[id]) \in Nat
  BY CallTypes
<1>2. Len(seen[id]) + Len(gen[id].queue) \in Nat
  <2>1. \A a, b \in Nat : a + b \in Nat
    OBVIOUS
  <2> QED BY ONLY <1>1, <2>1
<1>3. (Live(id)' <=> Live(id)) /\ gen'[id].queue = gen[id].queue
  BY DEF Undisturbed, Live
<1> QED BY <1>2, <1>3 DEF Undisturbed, OrderPlace, Settled

\* A message is put in the queue of a call.
Taken(id, msg) ==
  /\ reqs'[id] = reqs[id]
  /\ gen'[id].queue = Append(gen[id].queue, msg) /\ gen'[id].phase = gen[id].phase
  /\ gen'[id].last = gen[id].last /\ gen'[id].outcome = gen[id].outcome

LEMMA TakenQueue ==
  ASSUME CallsInv, NEW id \in ReqIds, NEW msg \in Reply, Taken(id, msg)
  PROVE  /\ Len(gen'[id].queue) = Len(gen[id].queue) + 1 /\ Len(gen[id].queue) \in Nat
         /\ gen'[id].queue[Len(gen[id].queue) + 1] = msg
         /\ \A i \in 1 .. Len(gen[id].queue) :
              gen'[id].queue[i] = gen[id].queue[i] /\ i \in 1 .. Len(gen'[id].queue)
<1>1. gen[id].queue \in Seq(Reply) /\ Len(gen[id].queue) \in Nat
  BY CallTypes
<1>2. gen'[id].queue = Append(gen[id].queue, msg)
  BY DEF Taken
<1>3. PICK q \in Seq(Reply) : q = gen[id].queue
  BY <1>1
<1>4. Len(q) \in Nat
  BY <1>1, <1>3
<1>5. /\ Len(Append(q, msg)) = Len(q) + 1 /\ Append(q, msg)[Len(q) + 1] = msg
      /\ \A i \in 1 .. Len(q) : Append(q, msg)[i] = q[i]
  BY AppendProperties
<1>6. \A i \in 1 .. Len(q) : i \in 1 .. Len(Append(q, msg))
  BY <1>4, <1>5
<1> QED BY <1>2, <1>3, <1>4, <1>5, <1>6

LEMMA TakenWaits ==
  ASSUME CallsInv, NEW id \in ReqIds, NEW msg \in Reply, Taken(id, msg),
         Live(id) => id \in openRpcs' /\ id \notin denied',
         Local(id) => id \in rpcMap' \/ id \in done',
         id \in rpcMap => id \in rpcMap' \/ ~msg.cont
  PROVE  WaitPlace(id)'
<1>1. (Live(id)' <=> Live(id)) /\ (Own(id)' <=> Own(id)) /\ (Local(id)' <=> Local(id))
  BY DEF Taken, Live, Own, Local
<1>2. Len(gen[id].queue) + 1 \in 1 .. Len(gen'[id].queue)
  BY TakenQueue
<1>3. (\E i \in 1 .. Len(gen[id].queue) : ~gen[id].queue[i].cont) =>
        \E i \in 1 .. Len(gen'[id].queue) : ~gen'[id].queue[i].cont
  BY TakenQueue
<1>4. ~msg.cont => \E i \in 1 .. Len(gen'[id].queue) : ~gen'[id].queue[i].cont
  BY <1>2, TakenQueue
<1>5. WaitPlace(id) /\ gen'[id].phase = gen[id].phase /\ gen'[id].last = gen[id].last
  BY DEF CallsInv, Waits, Taken
<1> QED BY <1>1, <1>3, <1>4, <1>5 DEF WaitPlace

\* It is an error, or the next response.
LEMMA TakenOrder ==
  ASSUME CallsInv, NEW id \in ReqIds, NEW msg \in Reply, Taken(id, msg), Settled(id),
         seen'[id] = seen[id],
         Live(id) /\ Clean(gen[id].queue, Len(gen[id].queue)) /\ msg.what # "error" =>
           /\ msg.n = Len(seen[id]) + (Len(gen[id].queue) + 1)
           /\ ~msg.cont => msg.n = parts'[id] /\ Finished(id)'
           /\ Continues(down', id, Len(seen[id]) + (Len(gen[id].queue) + 1), parts'[id]),
         OrderPlace(id)
  PROVE  OrderPlace(id)'
<1>0. PICK q, r, s, m : q = gen[id].queue /\ r = gen'[id].queue /\ s = Len(seen[id]) /\ m = Len(q)
  OBVIOUS
<1>1. /\ Len(r) = m + 1 /\ m \in Nat /\ r[m + 1] = msg
      /\ \A i \in 1 .. m : r[i] = q[i]
  BY <1>0, TakenQueue
<1>2. Live(id)' <=> Live(id)
  BY DEF Taken, Live
<1>3. \A i \in 1 .. m : Clean(r, i) => Clean(q, i)
  BY <1>1 DEF Clean
<1>4. ASSUME Clean(r, m + 1) PROVE Clean(q, m) /\ msg.what # "error"
  BY <1>1, <1>4 DEF Clean
<1>5. ASSUME Live(id), NEW i \in 1 .. Len(r), Clean(r, i)
      PROVE  r[i].n = s + i /\ (~r[i].cont => r[i].n = parts'[id] /\ Finished(id)')
  <2>1. CASE i \in 1 .. m
    <3>1. Clean(q, i) /\ r[i] = q[i]
      BY <1>1, <1>3, <1>5, <2>1
    <3> QED BY <1>0, <1>5, <2>1, <3>1 DEF OrderPlace, Settled
  <2>2. CASE i = m + 1
    <3>1. Clean(q, m) /\ msg.what # "error" /\ r[i] = msg
      BY <1>1, <1>4, <1>5, <2>2
    <3> QED BY <1>0, <1>5, <2>2, <3>1
  <2>3. i \in 1 .. m \/ i = m + 1
    BY <1>1
  <2> QED BY <2>1, <2>2, <2>3
<1>6. ASSUME Live(id), Clean(r, Len(r)) PROVE Continues(down', id, s + Len(r), parts'[id])
  BY <1>0, <1>1, <1>4, <1>6
<1>7. /\ gen'[id].phase = gen[id].phase /\ gen'[id].last = gen[id].last
      /\ gen'[id].outcome = gen[id].outcome
  BY DEF Taken
<1>8. /\ \A i \in 1 .. s : seen'[id][i] = i
      /\ gen'[id].phase = "yielded" /\ gen'[id].last => s = parts'[id] /\ Finished(id)'
      /\ gen'[id].phase = "done" /\ gen'[id].outcome \in {"data", "null"} => s = parts'[id] /\ Finished(id)'
  BY <1>0, <1>7 DEF OrderPlace, Settled
<1> QED BY <1>0, <1>2, <1>5, <1>6, <1>8 DEF OrderPlace

LEMMA Replies ==
  /\ \A id \in Nat, n \in Nat, what \in {"data", "null", "error"}, cont \in BOOLEAN :
       Response(id, what, cont, n) \in Reply
  /\ \A msg \in Reply : msg \in Message /\ msg.type = "response" /\ msg.n \in Nat /\ msg.id \in Nat
  /\ \A msg \in Message : msg.type = "response" => msg \in Reply
BY DEF Response, Reply, Message

LEMMA UpOnceKept ==
  ASSUME CallsInv, reqs' = reqs, \A k \in ReqIds : ~Local(k) => serving'[k] = serving[k],
         up' = up \/ \E msg \in Message : msg.type # "command" /\ up' = Append(up, msg)
  PROVE  UpOnce'
<1>1. \A i \in 1 .. Len(up) : up[i].type = "command" => serving'[up[i].id] = "none"
  BY DEF CallsInv, Wire, UpOnce, Inv, UpPlace
<1>2. CASE up' = up
  BY <1>1, <1>2 DEF CallsInv, Wire, UpOnce
<1>3. CASE \E msg \in Message : msg.type # "command" /\ up' = Append(up, msg)
  <2>1. PICK msg \in Message : msg.type # "command" /\ up' = Append(up, msg)
    BY <1>3
  <2>2. /\ Len(up') = Len(up) + 1 /\ Len(up) \in Nat /\ up'[Len(up) + 1] = msg
        /\ \A i \in 1 .. Len(up) : up'[i] = up[i]
    BY <2>1, AppendProperties, LenProperties DEF CallsInv, Inv, Types
  <2>3. \A i \in 1 .. Len(up') : up'[i].type = "command" => i \in 1 .. Len(up) /\ up'[i] = up[i]
    BY <2>1, <2>2
  <2> QED BY <1>1, <2>3 DEF CallsInv, Wire, UpOnce
<1> QED BY <1>2, <1>3

LEMMA DownAnswersKept ==
  ASSUME CallsInv, reqs' = reqs, down' = down,
         \A k \in ReqIds : ~Local(k) => parts'[k] = parts[k] /\ (serving[k] = "over" => serving'[k] = "over")
  PROVE  DownAnswers'
BY DEF CallsInv, Wire, DownAnswers, ReqIds, Own, Local

LEMMA OwnedKept ==
  ASSUME CallsInv, reqs' = reqs
  PROVE  Owned'
BY DEF CallsInv, Wire, Owned, Own, Local, ReqIds

\* A response reaches the queue of the call whose route and entry are there.
Delivers(msg) ==
  /\ gen' \in Seq(GenRec) /\ Len(gen') = Len(reqs)
  /\ \A k \in ReqIds :
       /\ k \in rpcMap' <=> k \in rpcMap /\ (k = msg.id => msg.cont)
       /\ ~(k = msg.id /\ k \in rpcMap /\ Own(k) /\ k \in openRpcs) => gen'[k] = gen[k]
       /\ k = msg.id /\ k \in rpcMap /\ Own(k) /\ k \in openRpcs =>
            /\ gen'[k].queue = Append(gen[k].queue, msg) /\ gen'[k].phase = gen[k].phase
            /\ gen'[k].last = gen[k].last /\ gen'[k].outcome = gen[k].outcome
  /\ up' = up \/ up' = Append(up, msg)

LEMMA Delivery ==
  ASSUME CallsInv, NEW msg \in Reply, RouteResponse(msg)
  PROVE  Delivers(msg)
<1> DEFINE id == msg.id
           g == [gen[id] EXCEPT !.queue = Append(gen[id].queue, msg)]
<1>0. gen \in Seq(GenRec) /\ Len(gen) = Len(reqs) /\ rpcMap \subseteq ReqIds
  BY DEF CallsInv, GenTypes, Inv, Types
<1>1. CASE id \notin rpcMap
  BY <1>0, <1>1 DEF RouteResponse, Delivers
<1>2. CASE id \in rpcMap
  <2>1. id \in ReqIds
    BY <1>0, <1>2
  <2>2. /\ rpcMap' = IF msg.cont THEN rpcMap ELSE rpcMap \ {id}
        /\ gen' = IF Own(id) /\ id \in openRpcs THEN [gen EXCEPT ![id] = g] ELSE gen
        /\ up' = up \/ up' = Append(up, msg)
    BY <1>2 DEF RouteResponse
  <2>3. gen[id] \in GenRec /\ gen[id].queue \in Seq(Reply)
    BY <2>1, CallTypes
  <2>4. Append(gen[id].queue, msg) \in Seq(Reply)
    BY <2>3, AppendProperties
  <2>5. /\ g \in GenRec /\ g.queue = Append(gen[id].queue, msg) /\ g.phase = gen[id].phase
        /\ g.last = gen[id].last /\ g.outcome = gen[id].outcome
    BY <2>3, <2>4 DEF GenRec
  <2> HIDE DEF g
  <2>6. CASE Own(id) /\ id \in openRpcs
    <3>0. Becomes(id, g)
      BY <2>2, <2>6 DEF Becomes
    <3>1. /\ gen' \in Seq(GenRec) /\ Len(gen') = Len(reqs)
          /\ \A k \in ReqIds : gen'[k] = IF k = id THEN g ELSE gen[k]
      BY <2>1, <2>5, <3>0, GenStep
    <3> QED BY <1>2, <2>1, <2>2, <2>5, <2>6, <3>1 DEF Delivers
  <2>7. CASE ~(Own(id) /\ id \in openRpcs)
    <3>1. gen' = gen
      BY <2>2, <2>7
    <3> QED BY <1>0, <1>2, <2>2, <2>7, <3>1 DEF Delivers
  <2> QED BY <2>6, <2>7
<1> QED BY <1>1, <1>2

-----------------------------------------------------------------------------
(* The steps. *)

Keeps == GenTypes' /\ Wire' /\ Waits' /\ (Order => Order')

\* The order of every call is kept, unless something has been lost before.
LEMMA OrderKept ==
  ASSUME ReqIds' = ReqIds, lost' = lost, \A id \in ReqIds : OrderPlace(id) => OrderPlace(id)'
  PROVE  Order => Order'
BY DEF Order

LEMMA WaitsKept ==
  ASSUME ReqIds' = ReqIds, \A id \in ReqIds : WaitPlace(id)'
  PROVE  Waits'
BY DEF Waits

\* A step of the generator of one call, which sends at most a cancel.
LEMMA GeneratorStep ==
  ASSUME CallsInv, NEW id \in ReqIds, NEW g \in GenRec, Becomes(id, g),
         UNCHANGED <<reqs, rpcMap, serving, done, parts, down, finals, lost>>,
         up' = up \/ \E msg \in Message : msg.type # "command" /\ up' = Append(up, msg),
         openRpcs' = openRpcs \/ (openRpcs' = openRpcs \ {id} /\ timers' = timers \ {id}),
         timers' \subseteq timers,
         denied' = denied \/ (denied' = denied \union {id} /\ ~Live(id)'),
         seen' \in Seq(Seq(Nat)), Len(seen') = Len(seen),
         \A k \in ReqIds : k # id => seen'[k] = seen[k],
         WaitPlace(id)', OrderPlace(id) => OrderPlace(id)'
  PROVE  Keeps
<1>1. /\ gen' \in Seq(GenRec) /\ Len(gen') = Len(reqs)
      /\ \A k \in ReqIds : gen'[k] = IF k = id THEN g ELSE gen[k]
  BY GenStep
<1>2. ReqIds' = ReqIds
  BY DEF ReqIds
<1>3. GenTypes'
  BY <1>1, <1>2 DEF CallsInv, GenTypes
<1>4. Wire'
  BY UpOnceKept, DownAnswersKept, OwnedKept DEF Wire
<1>5. ASSUME NEW k \in ReqIds PROVE WaitPlace(k)'
  <2>1. CASE k = id
    BY <2>1
  <2>2. CASE k # id
    <3>1. WaitPlace(k)
      BY DEF CallsInv, Waits
    <3>2. Unmoved(k)
      BY <1>1, <2>2 DEF Unmoved
    <3> QED BY <3>1, <3>2, UnmovedWaits
  <2> QED BY <2>1, <2>2
<1>6. ASSUME NEW k \in ReqIds, OrderPlace(k) PROVE OrderPlace(k)'
  <2>1. CASE k = id
    BY <1>6, <2>1
  <2>2. CASE k # id
    <3>1. Undisturbed(k)
      BY <1>1, <2>2 DEF Undisturbed, Settled, Finished, Local
    <3> QED BY <1>6, <3>1, UndisturbedOrder
  <2> QED BY <2>1, <2>2
<1> QED BY <1>2, <1>3, <1>4, <1>5, <1>6, OrderKept, WaitsKept DEF Keeps

LEMMA TimeoutKeeps ==
  ASSUME CallsInv, NEW id \in ReqIds, Timeout(id)
  PROVE  Keeps
<1>0. PICK msg, g : /\ msg = Response(id, "error", FALSE, 0)
                    /\ g = [gen[id] EXCEPT !.queue = Append(gen[id].queue, msg)]
  OBVIOUS
<1>1. /\ gen[id] \in GenRec /\ gen[id].queue \in Seq(Reply) /\ id \in Nat
  BY CallTypes
<1>2. msg \in Reply /\ msg.what = "error" /\ msg.cont = FALSE
  BY <1>0, <1>1, Replies DEF Response
<1>3. Append(gen[id].queue, msg) \in Seq(Reply)
  BY <1>1, <1>2, AppendProperties
<1>4. /\ g \in GenRec /\ g.queue = Append(gen[id].queue, msg) /\ g.phase = gen[id].phase
      /\ g.last = gen[id].last /\ g.outcome = gen[id].outcome
  BY <1>0, <1>1, <1>3 DEF GenRec
<1>5. Becomes(id, g)
  BY <1>0 DEF Timeout, Becomes
<1>6. /\ UNCHANGED <<reqs, rpcMap, openRpcs, serving, done, denied, parts, up, down, finals, seen, lost>>
      /\ timers' = timers \ {id}
  BY DEF Timeout, wires
<1>7. gen'[id] = g
  BY <1>4, <1>5, GenStep
<1>8. Taken(id, msg)
  BY <1>4, <1>6, <1>7 DEF Taken
<1>9. WaitPlace(id)
  BY DEF CallsInv, Waits
<1>10. WaitPlace(id)'
  <2>1. CASE Live(id)
    <3>1. id \in openRpcs /\ id \notin denied /\ (Local(id) => id \in rpcMap \/ id \in done)
      BY <1>9, <2>1 DEF WaitPlace
    <3> QED BY <1>2, <1>6, <1>8, <3>1, TakenWaits
  <2>2. CASE ~Live(id)
    BY <1>8, <2>2 DEF WaitPlace, Taken, Live
  <2> QED BY <2>1, <2>2
<1>11. ASSUME OrderPlace(id) PROVE OrderPlace(id)'
  <2>1. Settled(id) /\ seen'[id] = seen[id]
    BY <1>6 DEF Settled, Finished, Local
  <2> QED BY <1>2, <1>8, <1>11, <2>1, TakenOrder
<1>12. seen' \in Seq(Seq(Nat))
  BY <1>6 DEF CallsInv, GenTypes
<1> QED BY <1>4, <1>5, <1>6, <1>10, <1>11, <1>12, GeneratorStep

\* The generator takes the first message of its queue.
LEMMA ResumeKeeps ==
  ASSUME CallsInv, NEW id \in ReqIds, ResumeGenerator(id)
  PROVE  Keeps
<1>0. PICK q, msg, s, g :
        /\ q = gen[id].queue /\ msg = Head(q) /\ s = Len(seen[id])
        /\ g = [phase |-> IF msg.what = "error" \/ (~msg.cont /\ msg.what = "null") THEN "done" ELSE "yielded",
                queue |-> Tail(q), last |-> ~msg.cont, outcome |-> msg.what]
  OBVIOUS
<1>1. gen[id].phase = "waiting" /\ q # <<>> /\ Becomes(id, g)
  BY <1>0 DEF ResumeGenerator, Becomes
<1>2. /\ openRpcs' = openRpcs \/ (openRpcs' = openRpcs \ {id} /\ timers' = timers \ {id})
      /\ timers' \subseteq timers
      /\ UNCHANGED <<reqs, rpcMap, serving, done, denied, parts, up, down, finals, lost>>
      /\ g.phase = "yielded" => openRpcs' = openRpcs
  BY <1>0 DEF ResumeGenerator, Finally, wires
<1>3. seen' = IF msg.what = "error" THEN seen ELSE [seen EXCEPT ![id] = Append(seen[id], msg.n)]
  BY <1>0 DEF ResumeGenerator
<1>4. gen[id] \in GenRec /\ q \in Seq(Reply) /\ s \in Nat /\ seen[id] \in Seq(Nat)
  BY <1>0, CallTypes
<1>5. /\ msg \in Reply /\ msg = q[1] /\ 1 \in 1 .. Len(q)
      /\ Tail(q) \in Seq(Reply) /\ Len(Tail(q)) = Len(q) - 1 /\ Len(q) \in Nat
      /\ \A i \in 1 .. Len(Tail(q)) : Tail(q)[i] = q[i + 1] /\ i + 1 \in 2 .. Len(q)
  BY <1>0, <1>1, <1>4, HeadTailProperties, LenProperties
<1>6. WaitPlace(id)
  BY DEF CallsInv, Waits
<1>7. g \in GenRec
  BY <1>0, <1>5 DEF GenRec, Reply
<1>8. gen'[id] = g
  BY <1>1, <1>7, GenStep
<1>9. \/ msg.what = "error" /\ g.phase = "done" /\ g.outcome = "error"
      \/ /\ msg.what # "error" /\ g.queue = Tail(q) /\ g.last = ~msg.cont /\ g.outcome = msg.what
         /\ g.phase = "yielded" \/ (g.phase = "done" /\ ~msg.cont)
  BY <1>0
<1>10. /\ seen' \in Seq(Seq(Nat)) /\ Len(seen') = Len(seen)
       /\ \A k \in ReqIds : k # id => seen'[k] = seen[k]
       /\ msg.what # "error" => seen'[id] = Append(seen[id], msg.n)
       /\ msg.what = "error" => seen'[id] = seen[id]
  <2>1. seen \in Seq(Seq(Nat)) /\ Len(seen) = Len(reqs) /\ ReqIds = 1 .. Len(reqs)
    BY CallTypes DEF CallsInv, GenTypes
  <2>2. Append(seen[id], msg.n) \in Seq(Nat)
    BY <1>4, <1>5, Replies, AppendProperties
  <2>3. CASE msg.what = "error"
    BY <1>3, <2>1, <2>3
  <2>4. CASE msg.what # "error"
    <3>1. PICK one : one = Append(seen[id], msg.n)
      OBVIOUS
    <3>2. one \in Seq(Nat) /\ seen' = [seen EXCEPT ![id] = one]
      BY <1>3, <2>2, <2>4, <3>1
    <3>3. /\ seen' \in Seq(Seq(Nat)) /\ Len(seen') = Len(seen)
          /\ \A k \in 1 .. Len(seen) : seen'[k] = IF k = id THEN one ELSE seen[k]
      BY <2>1, <3>2, ExceptSeq
    <3> QED BY <2>1, <2>4, <3>1, <3>3
  <2> QED BY <2>3, <2>4
<1>11. WaitPlace(id)'
  <2>1. Live(id)
    BY <1>1 DEF Live
  <2>2. CASE g.phase = "yielded"
    <3>1. openRpcs' = openRpcs /\ gen'[id].phase = "yielded" /\ msg.what # "error"
      BY <1>2, <1>8, <1>9, <2>2
    <3>2. gen'[id].queue = Tail(q) /\ gen'[id].last = ~msg.cont
      BY <1>8, <1>9, <3>1
    <3>3. /\ Own(id) /\ id \in openRpcs /\ id \notin denied
          /\ Local(id) => id \in rpcMap \/ id \in done
          /\ id \in rpcMap \/ \E i \in 1 .. Len(q) : ~q[i].cont
      BY <1>0, <1>1, <1>6, <2>1 DEF WaitPlace
    <3>4. id \in rpcMap \/ (\E i \in 1 .. Len(Tail(q)) : ~Tail(q)[i].cont) \/ ~msg.cont
      <4>1. ASSUME NEW i \in 1 .. Len(q), ~q[i].cont, msg.cont PROVE \E j \in 1 .. Len(Tail(q)) : ~Tail(q)[j].cont
        <5>1. i # 1
          BY <1>5, <4>1
        <5>2. i - 1 \in 1 .. Len(Tail(q)) /\ (i - 1) + 1 = i
          BY <1>5, <5>1
        <5> QED BY <1>5, <4>1, <5>2
      <4> QED BY <3>3, <4>1
    <3>5. (Own(id)' <=> Own(id)) /\ (Local(id)' <=> Local(id)) /\ UNCHANGED <<openRpcs, denied, rpcMap, done>>
      BY <1>2, <3>1 DEF Own, Local
    <3> QED BY <3>1, <3>2, <3>3, <3>4, <3>5 DEF WaitPlace
  <2>3. CASE g.phase = "done"
    BY <1>8, <2>3 DEF WaitPlace, Live
  <2> QED BY <1>9, <2>2, <2>3
<1>12. ASSUME OrderPlace(id) PROVE OrderPlace(id)'
  <2>1. Live(id) /\ (Finished(id)' <=> Finished(id)) /\ parts' = parts /\ down' = down
    BY <1>1, <1>2 DEF Live, Finished, Local
  <2>2. \A i \in 1 .. s : seen[id][i] = i
    BY <1>0, <1>12 DEF OrderPlace
  <2>3. /\ \A i \in 1 .. Len(q) :
             Clean(q, i) => q[i].n = s + i /\ (~q[i].cont => q[i].n = parts[id] /\ Finished(id))
        /\ Clean(q, Len(q)) => Continues(down, id, s + Len(q), parts[id])
    BY <1>0, <1>12, <2>1 DEF OrderPlace
  <2>4. CASE msg.what = "error"
    <3>1. gen'[id].phase = "done" /\ gen'[id].outcome = "error" /\ seen'[id] = seen[id]
      BY <1>8, <1>9, <1>10, <2>4
    <3> QED BY <1>0, <2>2, <3>1 DEF OrderPlace, Live
  <2>5. CASE msg.what # "error"
    <3>1. PICK r, t : r = Tail(q) /\ t = seen'[id]
      OBVIOUS
    <3>2. Clean(q, 1)
      BY <1>5, <2>5 DEF Clean
    <3>3. msg.n = s + 1 /\ (~msg.cont => parts[id] = s + 1 /\ Finished(id))
      BY <1>5, <2>3, <3>2
    <3>4. Len(t) = s + 1 /\ \A i \in 1 .. Len(t) : t[i] = i
      <4>1. t = Append(seen[id], msg.n) /\ msg.n \in Nat
        BY <1>5, <1>10, <2>5, <3>1, Replies
      <4>2. Len(t) = s + 1 /\ t[s + 1] = msg.n /\ \A i \in 1 .. s : t[i] = seen[id][i]
        BY <1>0, <1>4, <4>1, AppendProperties
      <4> QED BY <1>4, <2>2, <3>3, <4>2
    <3>5. /\ Len(r) = Len(q) - 1 /\ Len(q) \in Nat
          /\ \A i \in 1 .. Len(r) : r[i] = q[i + 1] /\ i + 1 \in 1 .. Len(q)
      BY <1>5, <3>1
    <3>6. ASSUME NEW i \in 0 .. Len(r), Clean(r, i) PROVE Clean(q, i + 1)
      <4> SUFFICES ASSUME NEW j \in 1 .. i + 1 PROVE q[j].what # "error"
        BY DEF Clean
      <4>1. CASE j = 1
        BY <1>5, <2>5, <4>1
      <4>2. CASE j # 1
        <5>1. j - 1 \in 1 .. i /\ j - 1 \in 1 .. Len(r) /\ (j - 1) + 1 = j
          BY <3>5, <4>2
        <5> QED BY <3>5, <3>6, <5>1 DEF Clean
      <4> QED BY <4>1, <4>2
    <3>7. ASSUME NEW i \in 1 .. Len(r), Clean(r, i)
          PROVE  r[i].n = (s + 1) + i /\ (~r[i].cont => r[i].n = parts[id] /\ Finished(id))
      <4>1. i \in 0 .. Len(r) /\ i \in Nat /\ i + 1 \in 1 .. Len(q) /\ r[i] = q[i + 1]
        BY <3>5
      <4>2. Clean(q, i + 1)
        BY <3>6, <3>7, <4>1
      <4>3. q[i + 1].n = s + (i + 1) /\ (~q[i + 1].cont => q[i + 1].n = parts[id] /\ Finished(id))
        BY <2>3, <4>1, <4>2
      <4> QED BY <1>4, <4>1, <4>3
    <3>8. ASSUME Clean(r, Len(r)) PROVE Continues(down, id, (s + 1) + Len(r), parts[id])
      <4>1. Len(r) \in 0 .. Len(r) /\ Len(r) + 1 = Len(q) /\ (s + 1) + Len(r) = s + Len(q)
        BY <1>4, <1>5, <3>5
      <4> QED BY <2>3, <3>6, <3>8, <4>1
    <3>9. /\ gen'[id].queue = r /\ Len(seen'[id]) = s + 1 /\ gen'[id].last = ~msg.cont
          /\ gen'[id].phase = "yielded" \/ (gen'[id].phase = "done" /\ ~msg.cont)
      BY <1>8, <1>9, <2>5, <3>1, <3>4
    <3>10. /\ \A i \in 1 .. Len(seen'[id]) : seen'[id][i] = i
           /\ gen'[id].phase = "yielded" /\ gen'[id].last => Len(seen'[id]) = parts[id] /\ Finished(id)
           /\ gen'[id].phase = "done" => Len(seen'[id]) = parts[id] /\ Finished(id)
      BY <3>1, <3>3, <3>4, <3>9
    <3> QED BY <2>1, <3>7, <3>8, <3>9, <3>10 DEF OrderPlace
  <2> QED BY <2>4, <2>5
<1> QED BY <1>1, <1>2, <1>7, <1>10, <1>11, <1>12, GeneratorStep


LEMMA AskForMoreKeeps ==
  ASSUME CallsInv, NEW id \in ReqIds, AskForMore(id)
  PROVE  Keeps
<1>0. PICK g : g = [gen[id] EXCEPT !.phase = IF gen[id].last THEN "done" ELSE "waiting"]
  OBVIOUS
<1>1. gen[id] \in GenRec
  BY CallTypes
<1>2. /\ g \in GenRec /\ g.queue = gen[id].queue /\ g.last = gen[id].last /\ g.outcome = gen[id].outcome
      /\ g.phase = IF gen[id].last THEN "done" ELSE "waiting"
  BY <1>0, <1>1 DEF GenRec
<1>3. Becomes(id, g) /\ gen[id].phase = "yielded"
  BY <1>0 DEF AskForMore, Becomes
<1>4. /\ openRpcs' = openRpcs \/ (openRpcs' = openRpcs \ {id} /\ timers' = timers \ {id})
      /\ timers' \subseteq timers
      /\ ~gen[id].last => openRpcs' = openRpcs
      /\ UNCHANGED <<reqs, rpcMap, serving, done, denied, parts, up, down, finals, seen, lost>>
  BY DEF AskForMore, Finally, wires
<1>5. gen'[id] = g
  BY <1>2, <1>3, GenStep
<1>6. Live(id) /\ WaitPlace(id) /\ (Live(id)' => ~gen[id].last)
  BY <1>2, <1>3, <1>5 DEF CallsInv, Waits, Live
<1>7. WaitPlace(id)'
  BY <1>2, <1>3, <1>4, <1>5, <1>6 DEF WaitPlace, Own, Local
<1>8. ASSUME OrderPlace(id) PROVE OrderPlace(id)'
  <2>1. (Finished(id)' <=> Finished(id))
    BY <1>4 DEF Finished, Local
  <2> QED BY <1>2, <1>3, <1>4, <1>5, <1>6, <1>8, <2>1 DEF OrderPlace
<1>9. seen' \in Seq(Seq(Nat)) /\ seen' = seen
  BY <1>4 DEF CallsInv, GenTypes
<1> QED BY <1>2, <1>3, <1>4, <1>7, <1>8, <1>9, GeneratorStep

LEMMA StopStreamKeeps ==
  ASSUME CallsInv, NEW id \in ReqIds, NEW terminate \in BOOLEAN, StopStream(id, terminate)
  PROVE  Keeps
<1>0. PICK g : g = [gen[id] EXCEPT !.phase = "done", !.outcome = "stopped"]
  OBVIOUS
<1>1. gen[id] \in GenRec /\ id \in Nat
  BY CallTypes
<1>2. g \in GenRec /\ g.queue = gen[id].queue /\ g.phase = "done" /\ g.outcome = "stopped"
  BY <1>0, <1>1 DEF GenRec
<1>3. Becomes(id, g)
  BY <1>0 DEF StopStream, Becomes
<1>4. /\ openRpcs' = openRpcs \ {id} /\ timers' = timers \ {id}
      /\ denied' = denied \/ denied' = denied \union {id}
      /\ up' = up \/ up' = Append(up, Cancel(id))
      /\ UNCHANGED <<reqs, rpcMap, serving, done, parts, down, finals, seen, lost>>
  BY DEF StopStream, Finally
<1>5. gen'[id] = g
  BY <1>2, <1>3, GenStep
<1>6. Cancel(id) \in Message /\ Cancel(id).type # "command"
  BY <1>1, Messages DEF Cancel
<1>7. ~Live(id)' /\ WaitPlace(id)'
  BY <1>2, <1>5 DEF WaitPlace, Live
<1>8. ASSUME OrderPlace(id) PROVE OrderPlace(id)'
  <2>1. \A i \in 1 .. Len(seen[id]) : seen[id][i] = i
    BY <1>8 DEF OrderPlace
  <2> QED BY <1>2, <1>4, <1>5, <1>7, <2>1 DEF OrderPlace
<1>9. seen' \in Seq(Seq(Nat)) /\ seen' = seen
  BY <1>4 DEF CallsInv, GenTypes
<1> QED BY <1>2, <1>3, <1>4, <1>6, <1>7, <1>8, <1>9, GeneratorStep

\* The handlers and the router: gen changes as Delivers says.
LEMMA RouterStep ==
  ASSUME CallsInv, UNCHANGED <<reqs, openRpcs, timers, seen, lost>>,
         gen' \in Seq(GenRec), Len(gen') = Len(reqs), denied' \subseteq ReqIds, Wire',
         \A k \in ReqIds : WaitPlace(k)', \A k \in ReqIds : OrderPlace(k) => OrderPlace(k)'
  PROVE  Keeps
<1>1. ReqIds' = ReqIds
  BY DEF ReqIds
<1>2. GenTypes'
  BY <1>1 DEF CallsInv, GenTypes
<1> QED BY <1>1, <1>2, OrderKept, WaitsKept DEF Keeps

\* A handler of the page sends a response to a request that has not got its last.
LEMMA SendsKeeps ==
  ASSUME CallsInv, NEW id \in ReqIds, Local(id), NEW what \in {"data", "null", "error"},
         NEW cont \in BOOLEAN, sendResponse(id, what, cont),
         UNCHANGED <<reqs, openRpcs, timers, denied, down, seen, lost>>,
         \A k \in ReqIds : ~Local(k) => serving'[k] = serving[k]
  PROVE  Keeps
<1>0. PICK msg : msg = Response(id, what, cont, parts[id] + 1)
  OBVIOUS
<1>1. id \in Nat /\ parts[id] \in Nat /\ ReqIds = 1 .. Len(reqs)
  BY CallTypes
<1>2. /\ msg \in Reply /\ msg.id = id /\ msg.cont = cont /\ msg.n = parts[id] + 1
      /\ msg.type # "command" /\ msg \in Message
  <2>1. parts[id] + 1 \in Nat
    BY <1>1
  <2> QED BY <1>0, <1>1, <2>1, Replies DEF Response
<1>3. /\ id \notin done /\ done' = IF cont THEN done ELSE done \union {id}
      /\ parts' = [parts EXCEPT ![id] = parts[id] + 1] /\ RouteResponse(msg)
  BY <1>0 DEF sendResponse
<1>4. \A k \in ReqIds : parts'[k] = IF k = id THEN parts[id] + 1 ELSE parts[k]
  BY <1>1, <1>3 DEF CallsInv, Inv, Types
<1>5. Delivers(msg)
  BY <1>2, <1>3, Delivery
<1>6. Wire'
  <2>1. UpOnce'
    BY <1>2, <1>5, UpOnceKept DEF Delivers
  <2>2. DownAnswers'
    BY <1>4, DownAnswersKept
  <2> QED BY <2>1, <2>2, OwnedKept DEF Wire
<1>7. \A k \in ReqIds : (Local(k)' <=> Local(k)) /\ (k # id => (k \in done' <=> k \in done))
  BY <1>3 DEF Local
<1>8. ASSUME NEW k \in ReqIds, k # id PROVE WaitPlace(k)' /\ (OrderPlace(k) => OrderPlace(k)')
  <2>1. Unmoved(k) /\ WaitPlace(k)
    BY <1>2, <1>3, <1>5, <1>8 DEF Unmoved, Delivers, CallsInv, Waits
  <2>2. Finished(k) => Finished(k)'
    BY <1>7, <1>8 DEF Finished
  <2>3. gen'[k] = gen[k] /\ parts'[k] = parts[k]
    BY <1>2, <1>4, <1>5, <1>8 DEF Delivers
  <2>4. Undisturbed(k)
    BY <2>2, <2>3 DEF Undisturbed, Settled
  <2> QED BY <2>1, <2>4, UnmovedWaits, UndisturbedOrder
<1>9. ~Finished(id) /\ Settled(id)
  BY <1>3 DEF Finished, Settled
<1>10. WaitPlace(id)
  BY DEF CallsInv, Waits
<1>11. CASE ~Live(id)
  <2>1. \/ Taken(id, msg)
        \/ gen'[id] = gen[id]
    BY <1>2, <1>5 DEF Taken, Delivers
  <2>2. ~Live(id)'
    BY <1>11, <2>1 DEF Live, Taken
  <2>3. WaitPlace(id)'
    BY <2>2 DEF WaitPlace
  <2>4. ASSUME OrderPlace(id) PROVE OrderPlace(id)'
    <3>1. CASE gen'[id] = gen[id]
      BY <1>9, <1>11, <2>4, <3>1, UndisturbedOrder DEF Undisturbed
    <3>2. CASE Taken(id, msg)
      BY <1>2, <1>9, <1>11, <2>4, <3>2, TakenOrder
    <3> QED BY <2>1, <3>1, <3>2
  <2> QED BY <1>5, <1>6, <1>8, <2>3, <2>4, RouterStep DEF Delivers, CallsInv, GenTypes
<1>12. CASE Live(id)
  <2>1. Own(id) /\ id \in openRpcs /\ id \notin denied /\ id \in rpcMap
    BY <1>3, <1>10, <1>12 DEF WaitPlace
  <2>2. Taken(id, msg)
    BY <1>2, <1>5, <2>1 DEF Taken, Delivers
  <2>3. Local(id)' /\ (id \in rpcMap' \/ id \in done') /\ (~cont => Finished(id)')
    BY <1>2, <1>3, <1>5, <1>7, <2>1 DEF Delivers, Finished
  <2>4. WaitPlace(id)'
    BY <1>2, <1>5, <2>1, <2>2, <2>3, TakenWaits DEF Delivers
  <2>5. ASSUME OrderPlace(id) PROVE OrderPlace(id)'
    <3>1. PICK q, s, p : q = gen[id].queue /\ s = Len(seen[id]) /\ p = parts[id]
      OBVIOUS
    <3>2. Len(q) \in Nat /\ s \in Nat /\ p \in Nat
      BY <3>1, CallTypes
    <3>3. s + Len(q) \in Nat /\ s + (Len(q) + 1) \in Nat /\ s + (Len(q) + 1) = (s + Len(q)) + 1
      BY <3>2
    <3>4. \A i \in 1 .. Len(down) : ~Answers(down[i], id)
      BY DEF Answers, CallsInv, Wire, DownAnswers
    <3>5. down \in Seq(Message)
      BY DEF CallsInv, Inv, Types
    <3>6. ASSUME Clean(q, Len(q))
          PROVE  msg.n = s + (Len(q) + 1) /\ Continues(down, id, s + (Len(q) + 1), p + 1)
      <4>1. Continues(down, id, s + Len(q), p)
        BY <1>12, <2>5, <3>1, <3>6 DEF OrderPlace
      <4>2. p = s + Len(q)
        BY <3>2, <3>3, <3>4, <3>5, <4>1, ContinuesNone
      <4>3. Continues(down, id, s + (Len(q) + 1), s + (Len(q) + 1))
        BY <3>3, <3>4, <3>5, ContinuesNone
      <4> QED BY <1>2, <3>1, <3>3, <4>2, <4>3
    <3>7. Clean(q, Len(q)) =>
            /\ msg.n = s + (Len(q) + 1)
            /\ ~msg.cont => msg.n = parts'[id] /\ Finished(id)'
            /\ Continues(down', id, s + (Len(q) + 1), parts'[id])
      <4>1. parts'[id] = p + 1 /\ msg.n = p + 1
        BY <1>2, <1>4, <3>1
      <4> QED BY <1>2, <2>3, <3>6, <4>1
    <3> QED BY <1>2, <1>9, <2>2, <2>5, <3>1, <3>7, TakenOrder
  <2> QED BY <1>5, <1>6, <1>8, <2>4, <2>5, RouterStep DEF Delivers, CallsInv, GenTypes
<1> QED BY <1>11, <1>12


LEMMA QuietCalls ==
  ASSUME CallsInv, UNCHANGED <<reqs, openRpcs, timers, gen, seen, lost>>, denied' \subseteq ReqIds, Wire',
         \A k \in ReqIds : Unmoved(k) /\ Undisturbed(k)
  PROVE  Keeps
<1>1. \A k \in ReqIds : WaitPlace(k)' /\ (OrderPlace(k) => OrderPlace(k)')
  BY UnmovedWaits, UndisturbedOrder DEF CallsInv, Waits
<1>2. gen' \in Seq(GenRec) /\ Len(gen') = Len(reqs)
  BY DEF CallsInv, GenTypes
<1> QED BY <1>1, <1>2, RouterStep

LEMMA HandlerSendsKeeps ==
  ASSUME CallsInv, NEW id \in ReqIds, NEW cont \in BOOLEAN, HandlerSends(id, cont)
  PROVE  Keeps
BY SendsKeeps DEF HandlerSends

LEMMA HandlerEndsKeeps ==
  ASSUME CallsInv, NEW id \in ReqIds, NEW what \in {"data", "null", "error"}, HandlerEnds(id, what)
  PROVE  Keeps
<1>1. /\ Local(id) /\ serving' = [serving EXCEPT ![id] = "over"]
      /\ UNCHANGED <<reqs, openRpcs, timers, denied, down, seen, lost>>
  BY DEF HandlerEnds
<1>2. \A k \in ReqIds : ~Local(k) => serving'[k] = serving[k]
  <2>1. serving \in Seq({"none", "running", "over"}) /\ Len(serving) = Len(reqs) /\ ReqIds = 1 .. Len(reqs)
    BY CallTypes DEF CallsInv, Inv, Types
  <2>2. \A k \in ReqIds : k # id => serving'[k] = serving[k]
    BY <1>1, <2>1, ExceptSeq
  <2> QED BY <1>1, <2>2
<1>3. CASE id \in done
  <2>1. UNCHANGED <<done, parts, rpcMap, gen, finals, up>>
    BY <1>3 DEF HandlerEnds
  <2>2. Wire'
    BY <1>1, <1>2, <2>1, UpOnceKept, DownAnswersKept, OwnedKept DEF Wire
  <2>3. ASSUME NEW k \in ReqIds PROVE Unmoved(k) /\ Undisturbed(k)
    BY <1>1, <1>2, <2>1 DEF Unmoved, Undisturbed, Settled, Finished, Local
  <2>4. denied' \subseteq ReqIds
    BY <1>1 DEF CallsInv, GenTypes
  <2> QED BY <1>1, <2>1, <2>2, <2>3, <2>4, QuietCalls
<1>4. CASE id \notin done
  <2>1. sendResponse(id, what, FALSE)
    BY <1>4 DEF HandlerEnds
  <2> QED BY <1>1, <1>2, <2>1, SendsKeeps
<1> QED BY <1>3, <1>4

\* A request that a client takes a cancel for has no consumer any more.
LEMMA DenyKeeps ==
  ASSUME CallsInv, NEW id \in ReqIds, Deny(id)
  PROVE  Keeps
<1>0. PICK msg : msg = Response(id, "error", FALSE, 0)
  OBVIOUS
<1>1. /\ id \in denied /\ denied' = denied \ {id} /\ RouteResponse(msg)
      /\ UNCHANGED <<reqs, openRpcs, timers, serving, done, parts, down, seen, lost>>
  BY <1>0 DEF Deny
<1>2. msg \in Reply /\ msg.id = id /\ msg.what = "error" /\ msg.type # "command" /\ msg \in Message
  <2>1. id \in Nat
    BY CallTypes
  <2> QED BY <1>0, <2>1, Replies DEF Response
<1>3. Delivers(msg)
  BY <1>1, <1>2, Delivery
<1>4. Wire'
  <2>1. UpOnce'
    BY <1>1, <1>2, <1>3, UpOnceKept DEF Delivers
  <2> QED BY <1>1, <2>1, DownAnswersKept, OwnedKept DEF Wire
<1>5. \A k \in ReqIds : Settled(k)
  BY <1>1 DEF Settled, Finished, Local
<1>6. ASSUME NEW k \in ReqIds, k # id PROVE WaitPlace(k)' /\ (OrderPlace(k) => OrderPlace(k)')
  <2>1. Unmoved(k) /\ WaitPlace(k)
    BY <1>1, <1>2, <1>3, <1>6 DEF Unmoved, Delivers, CallsInv, Waits
  <2>2. gen'[k] = gen[k]
    BY <1>2, <1>3, <1>6 DEF Delivers
  <2>3. Undisturbed(k)
    BY <1>1, <1>5, <2>2 DEF Undisturbed
  <2> QED BY <2>1, <2>3, UnmovedWaits, UndisturbedOrder
<1>7. ~Live(id)
  BY <1>1 DEF CallsInv, Waits, WaitPlace
<1>8. Taken(id, msg) \/ gen'[id] = gen[id]
  BY <1>1, <1>2, <1>3 DEF Taken, Delivers
<1>9. WaitPlace(id)'
  BY <1>7, <1>8 DEF Live, Taken, WaitPlace
<1>10. ASSUME OrderPlace(id) PROVE OrderPlace(id)'
  <2>1. CASE gen'[id] = gen[id]
    BY <1>1, <1>5, <1>7, <1>10, <2>1, UndisturbedOrder DEF Undisturbed
  <2>2. CASE Taken(id, msg)
    BY <1>1, <1>2, <1>5, <1>7, <1>10, <2>2, TakenOrder
  <2> QED BY <1>8, <2>1, <2>2
<1>11. denied' \subseteq ReqIds
  BY <1>1 DEF CallsInv, GenTypes
<1> QED BY <1>1, <1>3, <1>4, <1>6, <1>9, <1>10, <1>11, RouterStep DEF Delivers

\* Something that is no response is put on its way from the backend.
LEMMA DownOther ==
  ASSUME CallsInv, NEW msg \in Message, msg.type # "response", down' = Append(down, msg),
         reqs' = reqs, msg.type = "cancel" => msg.id \in ReqIds /\ ~Own(msg.id),
         \A k \in ReqIds : ~Local(k) => parts'[k] = parts[k] /\ serving'[k] = serving[k]
  PROVE  /\ DownAnswers'
         /\ \A k \in ReqIds, base, top \in Nat : Continues(down, k, base, top) => Continues(down', k, base, top)
<1>1. down \in Seq(Message)
  BY DEF CallsInv, Inv, Types
<1>2. /\ Len(down') = Len(down) + 1 /\ Len(down) \in Nat /\ down'[Len(down) + 1] = msg
      /\ \A i \in 1 .. Len(down) : down'[i] = down[i]
  BY <1>1, AppendProperties, LenProperties
<1>3. \A i \in 1 .. Len(down') : (i \in 1 .. Len(down) /\ down'[i] = down[i]) \/ down'[i] = msg
  BY <1>2
<1>4. DownAnswers'
  BY <1>3 DEF CallsInv, Wire, DownAnswers, ReqIds, Own, Local
<1>5. ASSUME NEW k \in ReqIds, NEW base \in Nat, NEW top \in Nat, Continues(down, k, base, top)
      PROVE  Continues(down', k, base, top)
  <2>1. ~Answers(msg, k)
    BY DEF Answers
  <2> QED BY <1>1, <1>5, <2>1, ContinuesOther
<1> QED BY <1>4, <1>5

LEMMA BackendCancelsKeeps ==
  ASSUME CallsInv, NEW id \in ReqIds, BackendCancels(id)
  PROVE  Keeps
<1>0. PICK msg : msg = Cancel(id)
  OBVIOUS
<1>1. /\ ~Own(id) /\ down' = Append(down, msg)
      /\ UNCHANGED <<reqs, rpcMap, openRpcs, gen, timers, serving, done, denied, parts, up, finals, seen, lost>>
  BY <1>0 DEF BackendCancels
<1>2. msg \in Message /\ msg.type = "cancel" /\ msg.id = id
  BY <1>0, CallTypes, Messages DEF Cancel
<1>3. /\ DownAnswers'
      /\ \A k \in ReqIds, base, top \in Nat : Continues(down, k, base, top) => Continues(down', k, base, top)
  BY <1>1, <1>2, DownOther
<1>4. Wire'
  BY <1>1, <1>3, UpOnceKept, OwnedKept DEF Wire
<1>5. ASSUME NEW k \in ReqIds PROVE Unmoved(k) /\ Undisturbed(k)
  <2>1. parts[k] \in Nat
    BY CallTypes
  <2> QED BY <1>1, <1>3, <2>1 DEF Unmoved, Undisturbed, Settled, Finished, Local
<1>6. denied' \subseteq ReqIds
  BY <1>1 DEF CallsInv, GenTypes
<1> QED BY <1>1, <1>4, <1>5, <1>6, QuietCalls

LEMMA BackendReceivesKeeps ==
  ASSUME CallsInv, BackendReceives
  PROVE  Keeps
<1>0. PICK msg : msg = Head(up)
  OBVIOUS
<1>1. /\ up # <<>> /\ up' = Tail(up)
      /\ serving' = IF msg.type = "command" THEN [serving EXCEPT ![msg.id] = "running"] ELSE serving
      /\ UNCHANGED <<reqs, rpcMap, openRpcs, gen, timers, done, denied, parts, down, finals, seen, lost>>
  BY <1>0 DEF BackendReceives
<1>2. /\ msg = up[1] /\ 1 \in 1 .. Len(up) /\ Len(up') = Len(up) - 1 /\ Len(up) \in Nat
      /\ \A i \in 1 .. Len(up') : up'[i] = up[i + 1] /\ i + 1 \in 2 .. Len(up)
  BY <1>0, <1>1, Line DEF CallsInv, Inv, Types
<1>3. \A k \in ReqIds : \/ serving'[k] = serving[k]
                        \/ msg.type = "command" /\ k = msg.id /\ serving[k] = "none"
  <2>1. CASE msg.type = "command"
    <3>1. serving[msg.id] = "none" /\ msg.id \in ReqIds
      BY <1>2, <2>1 DEF CallsInv, Wire, UpOnce, Inv, UpPlace
    <3>2. serving \in Seq({"none", "running", "over"}) /\ Len(serving) = Len(reqs) /\ ReqIds = 1 .. Len(reqs)
      BY <3>1, CallTypes DEF CallsInv, Inv, Types
    <3>3. \A k \in ReqIds : k # msg.id => serving'[k] = serving[k]
      BY <1>1, <2>1, <3>1, <3>2, ExceptSeq
    <3> QED BY <2>1, <3>1, <3>3
  <2>2. CASE msg.type # "command"
    BY <1>1, <2>2
  <2> QED BY <2>1, <2>2
<1>4. UpOnce'
  <2>1. ASSUME NEW i \in 1 .. Len(up'), up'[i].type = "command", NEW id, id = up'[i].id
        PROVE  /\ serving'[id] = "none"
               /\ \A j \in 1 .. Len(up') : up'[j].type = "command" /\ up'[j].id = id => j = i
    <3>1. i + 1 \in 1 .. Len(up) /\ up[i + 1].type = "command" /\ up[i + 1].id = id /\ i + 1 # 1
      BY <1>2, <2>1
    <3>2. /\ serving[id] = "none" /\ id \in ReqIds
          /\ \A j \in 1 .. Len(up) : up[j].type = "command" /\ up[j].id = id => j = i + 1
      BY <3>1 DEF CallsInv, Wire, UpOnce, Inv, UpPlace
    <3>3. ~(msg.type = "command" /\ msg.id = id)
      BY <1>2, <3>1, <3>2
    <3>4. ASSUME NEW j \in 1 .. Len(up'), up'[j].type = "command", up'[j].id = id PROVE j = i
      <4>1. j + 1 \in 1 .. Len(up) /\ up[j + 1].type = "command" /\ up[j + 1].id = id
        BY <1>2, <3>4
      <4>2. j + 1 = i + 1
        BY <3>2, <4>1
      <4> QED BY <4>2
    <3> QED BY <1>3, <3>2, <3>3, <3>4
  <2>2. \A i \in 1 .. Len(up') : up'[i].type = "command" =>
          /\ serving'[up'[i].id] = "none"
          /\ \A j \in 1 .. Len(up') : up'[j].type = "command" /\ up'[j].id = up'[i].id => j = i
    BY <2>1
  <2> QED BY <2>2 DEF UpOnce
<1>5. \A k \in ReqIds : serving[k] = "over" => serving'[k] = "over"
  BY <1>3
<1>6. Wire'
  BY <1>1, <1>4, <1>5, DownAnswersKept, OwnedKept DEF Wire
<1>7. ASSUME NEW k \in ReqIds PROVE Unmoved(k) /\ Undisturbed(k)
  BY <1>1, <1>5 DEF Unmoved, Undisturbed, Settled, Finished, Local
<1>8. denied' \subseteq ReqIds
  BY <1>1 DEF CallsInv, GenTypes
<1> QED BY <1>1, <1>6, <1>7, <1>8, QuietCalls


LEMMA BackendRespondsKeeps ==
  ASSUME CallsInv, NEW id \in ReqIds, NEW what \in {"data", "null", "error"}, NEW cont \in BOOLEAN,
         BackendResponds(id, what, cont)
  PROVE  Keeps
<1>0. PICK msg : msg = Response(id, what, cont, parts[id] + 1)
  OBVIOUS
<1>1. id \in Nat /\ parts[id] \in Nat /\ ReqIds = 1 .. Len(reqs)
  BY CallTypes
<1>2. /\ msg \in Reply /\ msg.id = id /\ msg.cont = cont /\ msg.n = parts[id] + 1
      /\ msg.type = "response" /\ msg \in Message
  <2>1. parts[id] + 1 \in Nat
    BY <1>1
  <2> QED BY <1>0, <1>1, <2>1, Replies DEF Response
<1>3. /\ serving[id] = "running" /\ ~Local(id) /\ down' = Append(down, msg)
      /\ parts' = [parts EXCEPT ![id] = parts[id] + 1]
      /\ serving' = [serving EXCEPT ![id] = IF cont THEN serving[id] ELSE "over"]
      /\ UNCHANGED <<reqs, rpcMap, openRpcs, gen, timers, done, denied, up, finals, seen, lost>>
  BY <1>0 DEF BackendResponds
<1>4. \A k \in ReqIds : parts'[k] = IF k = id THEN parts[id] + 1 ELSE parts[k]
  BY <1>1, <1>3 DEF CallsInv, Inv, Types
<1>5. \A k \in ReqIds : serving'[k] = IF k = id THEN (IF cont THEN serving[id] ELSE "over") ELSE serving[k]
  BY <1>1, <1>3 DEF CallsInv, Inv, Types
<1>6. down \in Seq(Message)
  BY DEF CallsInv, Inv, Types
<1>7. /\ Len(down') = Len(down) + 1 /\ Len(down) \in Nat /\ down'[Len(down) + 1] = msg
      /\ \A i \in 1 .. Len(down) : down'[i] = down[i]
  BY <1>2, <1>3, <1>6, AppendProperties, LenProperties
<1>8. \A i \in 1 .. Len(down') : (i \in 1 .. Len(down) /\ down'[i] = down[i]) \/ down'[i] = msg
  BY <1>7
<1>9. ASSUME NEW i \in 1 .. Len(down')
      PROVE  /\ down'[i].type = "cancel" => down'[i].id \in ReqIds /\ ~Own(down'[i].id)
             /\ down'[i].type = "response" =>
                  /\ down'[i].id \in ReqIds /\ ~Local(down'[i].id)
                  /\ ~down'[i].cont => down'[i].n = parts'[down'[i].id] /\ serving'[down'[i].id] = "over"
  <2>1. CASE i \in 1 .. Len(down) /\ down'[i] = down[i]
    <3>1. /\ down[i].type = "cancel" => down[i].id \in ReqIds /\ ~Own(down[i].id)
          /\ down[i].type = "response" =>
               /\ down[i].id \in ReqIds /\ ~Local(down[i].id)
               /\ ~down[i].cont => down[i].n = parts[down[i].id] /\ serving[down[i].id] = "over"
      BY <2>1 DEF CallsInv, Wire, DownAnswers
    <3>2. down[i].type = "response" /\ ~down[i].cont => down[i].id # id
      BY <1>3, <3>1
    <3> QED BY <1>4, <1>5, <2>1, <3>1, <3>2
  <2>2. CASE down'[i] = msg
    <3>1. ~cont => serving'[id] = "over"
      BY <1>5
    <3>2. parts'[id] = parts[id] + 1
      BY <1>4
    <3> QED BY <1>2, <1>3, <2>2, <3>1, <3>2
  <2> QED BY <1>8, <2>1, <2>2
<1>10. DownAnswers'
  BY <1>3, <1>9 DEF DownAnswers, ReqIds, Own, Local
<1>11. UpOnce'
  BY <1>3, <1>5 DEF CallsInv, Wire, UpOnce, Inv, UpPlace
<1>12. Wire'
  BY <1>3, <1>10, <1>11, OwnedKept DEF Wire
<1>13. ASSUME NEW k \in ReqIds PROVE Unmoved(k) /\ Undisturbed(k)
  <2>0. parts[k] \in Nat
    BY CallTypes
  <2>1. Settled(k)
    BY <1>3, <1>4, <1>5 DEF Settled, Finished, Local
  <2>2. ASSUME NEW base \in Nat, Continues(down, k, base, parts[k])
        PROVE  Continues(down', k, base, parts'[k])
    <3>1. CASE k = id
      <4>1. Answers(msg, id)
        BY <1>2 DEF Answers
      <4>2. Continues(Append(down, msg), id, base, parts[id] + 1)
        BY <1>1, <1>2, <1>6, <2>2, <3>1, <4>1, ContinuesNext
      <4> QED BY <1>3, <1>4, <3>1, <4>2
    <3>2. CASE k # id
      <4>1. ~Answers(msg, k)
        BY <1>2, <3>2 DEF Answers
      <4>2. Continues(Append(down, msg), k, base, parts[k])
        BY <1>2, <1>6, <2>0, <2>2, <4>1, ContinuesOther
      <4> QED BY <1>3, <1>4, <3>2, <4>2
    <3> QED BY <3>1, <3>2
  <2> QED BY <1>3, <2>1, <2>2 DEF Unmoved, Undisturbed
<1>14. denied' \subseteq ReqIds
  BY <1>3 DEF CallsInv, GenTypes
<1> QED BY <1>3, <1>12, <1>13, <1>14, QuietCalls

\* What is left of the line from the backend.
LEMMA DownTail ==
  ASSUME CallsInv, reqs' = reqs, parts' = parts, down # <<>>, down' = Tail(down),
         \A k \in ReqIds : ~Local(k) => serving'[k] = serving[k]
  PROVE  DownAnswers'
<1>1. \A i \in 1 .. Len(down') : down'[i] = down[i + 1] /\ i + 1 \in 1 .. Len(down)
  BY Line DEF CallsInv, Inv, Types
<1>2. \A i \in 1 .. Len(down') :
        /\ down'[i].type = "cancel" => down'[i].id \in ReqIds /\ ~Own(down'[i].id)
        /\ down'[i].type = "response" =>
             /\ down'[i].id \in ReqIds /\ ~Local(down'[i].id)
             /\ ~down'[i].cont => down'[i].n = parts[down'[i].id] /\ serving[down'[i].id] = "over"
  BY <1>1 DEF CallsInv, Wire, DownAnswers
<1> QED BY <1>2 DEF DownAnswers, ReqIds, Own, Local

\* The next message from the backend is a response.
LEMMA ResponseKeeps ==
  ASSUME CallsInv, NEW msg, down # <<>>, msg = Head(down), msg.type = "response",
         down' = Tail(down), RouteResponse(msg),
         UNCHANGED <<reqs, openRpcs, timers, serving, done, denied, parts, seen, lost>>
  PROVE  Keeps
<1>0. PICK id : id = msg.id
  OBVIOUS
<1>1. down \in Seq(Message) /\ msg = down[1] /\ 1 \in 1 .. Len(down) /\ msg \in Message
  BY Line DEF CallsInv, Inv, Types
<1>2. /\ msg \in Reply /\ id \in ReqIds /\ ~Local(id)
      /\ ~msg.cont => msg.n = parts[id] /\ serving[id] = "over"
  BY <1>0, <1>1, Replies DEF CallsInv, Wire, DownAnswers
<1>3. Delivers(msg)
  BY <1>2, Delivery
<1>4. Wire'
  <2>1. UpOnce'
    BY <1>1, <1>3, UpOnceKept DEF Delivers
  <2> QED BY <2>1, DownTail, OwnedKept DEF Wire
<1>5. \A k \in ReqIds : Settled(k) /\ parts[k] \in Nat /\ WaitPlace(k)
  BY CallTypes DEF Settled, Finished, Local, CallsInv, Waits
<1>6. ASSUME NEW k \in ReqIds, k # id PROVE WaitPlace(k)' /\ (OrderPlace(k) => OrderPlace(k)')
  <2>1. Unmoved(k) /\ gen'[k] = gen[k]
    BY <1>0, <1>3, <1>6 DEF Unmoved, Delivers
  <2>2. ~Answers(Head(down), k)
    BY <1>0, <1>6 DEF Answers
  <2>3. \A base \in Nat : Continues(down, k, base, parts[k]) => Continues(Tail(down), k, base, parts[k])
    BY <1>1, <1>5, <2>2, ContinuesTailOther
  <2>4. Undisturbed(k)
    BY <1>5, <2>1, <2>3 DEF Undisturbed
  <2> QED BY <1>5, <2>1, <2>4, UnmovedWaits, UndisturbedOrder
<1>7. /\ id \in rpcMap /\ Own(id) /\ id \in openRpcs => Taken(id, msg)
      /\ ~(id \in rpcMap /\ Own(id) /\ id \in openRpcs) => gen'[id] = gen[id]
      /\ id \in rpcMap' <=> id \in rpcMap /\ msg.cont
  BY <1>0, <1>2, <1>3 DEF Taken, Delivers
<1>8. CASE ~Live(id)
  <2>1. WaitPlace(id)'
    BY <1>7, <1>8 DEF Live, Taken, WaitPlace
  <2>2. ASSUME OrderPlace(id) PROVE OrderPlace(id)'
    <3>1. CASE gen'[id] = gen[id]
      BY <1>2, <1>5, <1>8, <2>2, <3>1, UndisturbedOrder DEF Undisturbed
    <3>2. CASE Taken(id, msg)
      BY <1>2, <1>5, <1>8, <2>2, <3>2, TakenOrder
    <3> QED BY <1>7, <3>1, <3>2
  <2> QED BY <1>3, <1>4, <1>6, <2>1, <2>2, RouterStep DEF Delivers, CallsInv, GenTypes
<1>9. CASE Live(id)
  <2>1. Own(id) /\ id \in openRpcs /\ id \notin denied
    BY <1>2, <1>5, <1>9 DEF WaitPlace
  <2>2. WaitPlace(id)'
    <3>1. CASE id \in rpcMap
      <4>1. Taken(id, msg) /\ (id \in rpcMap' \/ ~msg.cont)
        BY <1>7, <2>1, <3>1
      <4> QED BY <1>2, <2>1, <4>1, TakenWaits
    <3>2. CASE id \notin rpcMap
      <4>1. Unmoved(id)
        BY <1>7, <3>2 DEF Unmoved
      <4> QED BY <1>2, <1>5, <4>1, UnmovedWaits
    <3> QED BY <3>1, <3>2
  <2>3. ASSUME OrderPlace(id) PROVE OrderPlace(id)'
    <3>1. PICK q, s, p : q = gen[id].queue /\ s = Len(seen[id]) /\ p = parts[id]
      OBVIOUS
    <3>2. Len(q) \in Nat /\ s \in Nat /\ p \in Nat
      BY <1>2, <3>1, CallTypes
    <3>3. s + Len(q) \in Nat /\ (s + Len(q)) + 1 = s + (Len(q) + 1)
      BY <3>2
    <3>4. ASSUME Clean(q, Len(q))
          PROVE  /\ msg.n = s + (Len(q) + 1) /\ s + (Len(q) + 1) <= p
                 /\ Continues(down', id, s + (Len(q) + 1), p)
      <4>1. Continues(down, id, s + Len(q), p)
        BY <1>9, <2>3, <3>1, <3>4 DEF OrderPlace
      <4>2. Answers(Head(down), id)
        BY <1>0 DEF Answers
      <4>3. /\ Head(down).n = (s + Len(q)) + 1 /\ (s + Len(q)) + 1 <= p
            /\ Continues(Tail(down), id, (s + Len(q)) + 1, p)
        BY <1>1, <3>2, <3>3, <4>1, <4>2, ContinuesTail
      <4> QED BY <3>3, <4>3
    <3>5. CASE id \in rpcMap
      <4>1. Taken(id, msg) /\ Settled(id)
        BY <1>2, <1>5, <1>7, <2>1, <3>5
      <4>2. ~msg.cont => msg.n = parts'[id] /\ Finished(id)'
        BY <1>2 DEF Finished, Local
      <4> QED BY <1>2, <2>3, <3>1, <3>4, <4>1, <4>2, TakenOrder
    <3>6. CASE id \notin rpcMap
      <4>1. ~Clean(q, Len(q))
        <5> SUFFICES ASSUME Clean(q, Len(q)) PROVE FALSE
          OBVIOUS
        <5>1. s + (Len(q) + 1) <= p
          BY <3>4
        <5>2. CASE \E i \in 1 .. Len(q) : ~q[i].cont
          <6>1. PICK i \in 1 .. Len(q) : ~q[i].cont
            BY <5>2
          <6>2. Clean(q, i)
            BY <3>2 DEF Clean
          <6>3. q[i].n = s + i /\ q[i].n = p
            BY <1>9, <2>3, <3>1, <6>1, <6>2 DEF OrderPlace
          <6> QED BY <3>2, <5>1, <6>3
        <5>3. CASE gen[id].phase = "yielded" /\ gen[id].last
          <6>1. s = p
            BY <2>3, <3>1, <5>3 DEF OrderPlace
          <6> QED BY <3>2, <5>1, <6>1
        <5> QED BY <1>2, <1>5, <1>9, <3>1, <3>6, <5>2, <5>3 DEF WaitPlace
      <4>2. gen'[id] = gen[id]
        BY <1>7, <3>6
      <4>3. Finished(id)' <=> Finished(id)
        BY DEF Finished, Local
      <4> QED BY <2>3, <3>1, <4>1, <4>2, <4>3 DEF OrderPlace, Live
    <3> QED BY <3>5, <3>6
  <2> QED BY <1>3, <1>4, <1>6, <2>2, <2>3, RouterStep DEF Delivers, CallsInv, GenTypes
<1> QED BY <1>8, <1>9

LEMMA ReceiveKeeps ==
  ASSUME CallsInv, PageReceives
  PROVE  Keeps
<1>0. PICK msg : msg = Head(down)
  OBVIOUS
<1>1. /\ down # <<>> /\ down' = Tail(down)
      /\ UNCHANGED <<reqs, openRpcs, timers, done, parts, seen, lost>>
  BY DEF PageReceives
<1>2. down \in Seq(Message) /\ msg = down[1] /\ 1 \in 1 .. Len(down) /\ msg \in Message
  BY <1>0, <1>1, Line DEF CallsInv, Inv, Types
<1>3. ASSUME msg.type # "response", NEW k \in ReqIds
      PROVE  \A base \in Nat : Continues(down, k, base, parts[k]) => Continues(down', k, base, parts'[k])
  <2>1. ~Answers(Head(down), k) /\ parts[k] \in Nat
    BY <1>0, <1>3, CallTypes DEF Answers
  <2> QED BY <1>1, <1>2, <2>1, ContinuesTailOther
<1>4. CASE msg.type = "command"
  <2>1. /\ rpcMap' = rpcMap \union {msg.id} /\ serving' = [serving EXCEPT ![msg.id] = "running"]
        /\ UNCHANGED <<gen, denied, finals, up>>
    BY <1>0, <1>4 DEF PageReceives
  <2>2. msg.id \in ReqIds /\ ~Own(msg.id) /\ Local(msg.id)
    BY <1>2, <1>4 DEF CallsInv, Inv, DownPlace, Wire, Owned
  <2>3. \A k \in ReqIds : ~Local(k) => serving'[k] = serving[k]
    BY <2>1, <2>2, CallTypes DEF CallsInv, Inv, Types
  <2>4. Wire'
    <3>1. DownAnswers'
      BY <1>1, <2>3, DownTail
    <3> QED BY <1>1, <2>1, <2>3, <3>1, UpOnceKept, OwnedKept DEF Wire
  <2>5. ASSUME NEW k \in ReqIds PROVE Unmoved(k) /\ Undisturbed(k)
    <3>1. Settled(k)
      BY <1>1, <2>3 DEF Settled, Finished, Local
    <3> QED BY <1>1, <1>3, <1>4, <2>1, <3>1 DEF Unmoved, Undisturbed
  <2>6. denied' \subseteq ReqIds
    BY <2>1 DEF CallsInv, GenTypes
  <2> QED BY <1>1, <2>1, <2>4, <2>5, <2>6, QuietCalls
<1>5. CASE msg.type = "cancel"
  <2>1. /\ denied' = denied \/ denied' = denied \union {msg.id}
        /\ UNCHANGED <<rpcMap, gen, serving, finals, up>>
    BY <1>0, <1>5 DEF PageReceives
  <2>2. msg.id \in ReqIds /\ ~Own(msg.id)
    BY <1>2, <1>5 DEF CallsInv, Wire, DownAnswers
  <2>3. Wire'
    BY <1>1, <2>1, UpOnceKept, OwnedKept, DownTail DEF Wire
  <2>4. ASSUME NEW k \in ReqIds PROVE Unmoved(k) /\ Undisturbed(k)
    <3>1. Settled(k)
      BY <1>1, <2>1 DEF Settled, Finished, Local
    <3>2. Live(k) => k # msg.id
      BY <2>2 DEF CallsInv, Waits, WaitPlace
    <3> QED BY <1>1, <1>3, <1>5, <2>1, <3>1, <3>2 DEF Unmoved, Undisturbed
  <2>5. denied' \subseteq ReqIds
    BY <2>1, <2>2 DEF CallsInv, GenTypes
  <2> QED BY <1>1, <2>1, <2>3, <2>4, <2>5, QuietCalls
<1>6. CASE msg.type = "response"
  <2>1. RouteResponse(msg) /\ UNCHANGED <<serving, denied>>
    BY <1>0, <1>6 DEF PageReceives
  <2> QED BY <1>0, <1>1, <1>6, <2>1, ResponseKeeps
<1> QED BY <1>2, <1>4, <1>5, <1>6 DEF Message

\* What is lost ends the order, and nothing else.
LEMMA LoseKeeps ==
  ASSUME CallsInv, Lose
  PROVE  Keeps
<1>1. /\ lost' = lost + 1 /\ up' = <<>> /\ down' = <<>>
      /\ UNCHANGED <<reqs, rpcMap, openRpcs, gen, timers, serving, done, denied, parts, finals, seen>>
  BY DEF Lose
<1>2. Len(up') = 0 /\ Len(down') = 0
  BY <1>1, EmptySeq
<1>3. ReqIds' = ReqIds /\ lost' \in Nat /\ lost' # 0
  BY <1>1 DEF ReqIds, CallsInv, GenTypes
<1>4. GenTypes'
  BY <1>1, <1>3 DEF CallsInv, GenTypes
<1>5. Wire'
  BY <1>1, <1>2, OwnedKept DEF Wire, UpOnce, DownAnswers
<1>6. ASSUME NEW k \in ReqIds PROVE WaitPlace(k)'
  <2>1. Unmoved(k) /\ WaitPlace(k)
    BY <1>1 DEF Unmoved, CallsInv, Waits
  <2> QED BY <2>1, UnmovedWaits
<1> QED BY <1>3, <1>4, <1>5, <1>6, WaitsKept DEF Keeps, Order


\* A new request has a number that nothing has yet.
LEMMA NewCall ==
  ASSUME CallsInv, NEW src \in Ends, NEW dst \in Ends, NEW kind \in RpcKinds \union {"call"},
         NEW timed \in BOOLEAN, Request(src, dst, kind, timed), NEW g \in GenRec, gen' = Append(gen, g)
  PROVE  LET new == Len(reqs) + 1
         IN  /\ ReqIds = 1 .. Len(reqs) /\ ReqIds' = 1 .. new /\ Len(reqs) \in Nat /\ Len(reqs') = new
             /\ reqs'[new].src = src /\ reqs'[new].dst = dst
             /\ gen' \in Seq(GenRec) /\ Len(gen') = new /\ gen'[new] = g
             /\ seen' \in Seq(Seq(Nat)) /\ Len(seen') = new /\ seen'[new] = <<>> /\ parts'[new] = 0
             /\ \A k \in ReqIds : /\ reqs'[k] = reqs[k] /\ gen'[k] = gen[k]
                                  /\ seen'[k] = seen[k] /\ parts'[k] = parts[k]
<1>0. PICK new : new = Len(reqs) + 1
  OBVIOUS
<1>1. /\ ReqIds = 1 .. Len(reqs) /\ ReqIds' = 1 .. new /\ Len(reqs) \in Nat /\ Len(reqs') = new
      /\ reqs'[new].src = src /\ reqs'[new].dst = dst
      /\ \A k \in ReqIds : reqs'[k] = reqs[k]
  BY <1>0, NewRequest DEF CallsInv
<1>2. /\ gen' \in Seq(GenRec) /\ Len(gen') = new /\ gen'[new] = g
      /\ \A k \in ReqIds : gen'[k] = gen[k]
  BY <1>0, <1>1, AppendProperties DEF CallsInv, GenTypes
<1>3. /\ seen' \in Seq(Seq(Nat)) /\ Len(seen') = new /\ seen'[new] = <<>>
      /\ \A k \in ReqIds : seen'[k] = seen[k]
  <2>1. PICK none : none = <<>>
    OBVIOUS
  <2>2. none \in Seq(Nat) /\ seen' = Append(seen, none) /\ seen \in Seq(Seq(Nat)) /\ Len(seen) = Len(reqs)
    BY <2>1, EmptySeq DEF Request, CallsInv, GenTypes
  <2>3. /\ seen' \in Seq(Seq(Nat)) /\ Len(seen') = Len(seen) + 1 /\ seen'[Len(seen) + 1] = none
        /\ \A k \in 1 .. Len(seen) : seen'[k] = seen[k]
    BY <2>2, AppendProperties
  <2> QED BY <1>0, <1>1, <2>1, <2>2, <2>3
<1>4. parts'[new] = 0 /\ \A k \in ReqIds : parts'[k] = parts[k]
  <2>1. parts' = Append(parts, 0) /\ parts \in Seq(Nat) /\ Len(parts) = Len(reqs) /\ 0 \in Nat
    BY DEF Request, CallsInv, Inv, Types
  <2> QED BY <1>0, <1>1, <2>1, AppendProperties
<1> QED BY <1>0, <1>1, <1>2, <1>3, <1>4

\* The requests that were there keep their places, and the new one has one.
LEMMA GrowStep ==
  ASSUME CallsInv, NEW new, ReqIds' = ReqIds \union {new}, new \notin ReqIds,
         reqs'[new].src \in Clients \/ reqs'[new].dst \in Clients,
         Len(gen') = Len(reqs'), gen' \in Seq(GenRec), Len(seen') = Len(reqs'), seen' \in Seq(Seq(Nat)),
         \A k \in ReqIds : /\ reqs'[k] = reqs[k] /\ gen'[k] = gen[k] /\ seen'[k] = seen[k]
                           /\ parts'[k] = parts[k] /\ serving'[k] = serving[k]
                           /\ k \in rpcMap => k \in rpcMap',
         openRpcs \subseteq openRpcs', openRpcs' \subseteq openRpcs \union {new},
         timers' \subseteq timers \union (openRpcs' \ openRpcs),
         UNCHANGED <<done, denied, lost>>, UpOnce', DownAnswers',
         \A k \in ReqIds, base, top \in Nat : Continues(down, k, base, top) => Continues(down', k, base, top),
         WaitPlace(new)', lost = 0 => OrderPlace(new)'
  PROVE  Keeps
<1>1. GenTypes'
  BY DEF CallsInv, GenTypes
<1>2. Wire'
  <2>1. Owned'
    BY DEF CallsInv, Wire, Owned, Own, Local
  <2> QED BY <2>1 DEF Wire
<1>3. ASSUME NEW k \in ReqIds PROVE WaitPlace(k)' /\ (OrderPlace(k) => OrderPlace(k)')
  <2>1. Unmoved(k) /\ WaitPlace(k) /\ parts[k] \in Nat
    BY CallTypes DEF Unmoved, CallsInv, Waits
  <2>2. Undisturbed(k)
    BY <2>1 DEF Undisturbed, Settled, Finished, Local
  <2> QED BY <2>1, <2>2, UnmovedWaits, UndisturbedOrder
<1>4. Waits'
  BY <1>3 DEF Waits
<1>5. Order => Order'
  BY <1>3 DEF Order
<1> QED BY <1>1, <1>2, <1>4, <1>5 DEF Keeps

LEMMA wshRpcCallKeeps ==
  ASSUME Upstream \notin Clients, CallsInv, NEW c \in Clients, NEW dst \in Ends,
         NEW kind \in RpcKinds, NEW timed \in BOOLEAN, wshRpcCall(c, dst, kind, timed)
  PROVE  Keeps
<1>0. PICK new, g : new = Len(reqs) + 1 /\ g = [NoGenerator EXCEPT !.phase = "waiting"]
  OBVIOUS
<1>1. /\ g \in GenRec /\ g.phase = "waiting" /\ g.queue = <<>> /\ g.outcome = "none"
  <2>1. <<>> \in Seq(Reply)
    BY EmptySeq
  <2> QED BY <1>0, <2>1 DEF GenRec, NoGenerator
<1>2. /\ Request(c, dst, kind, timed) /\ gen' = Append(gen, g)
      /\ rpcMap' = rpcMap \union {new} /\ openRpcs' = openRpcs \union {new}
      /\ timers' \subseteq timers \union {new} /\ (timers' = timers \/ timers' = timers \union {new})
      /\ serving' = Append(serving, IF dst \in Clients THEN "running" ELSE "none")
      /\ up' = IF dst \in Clients THEN up ELSE Append(up, Command(new))
      /\ UNCHANGED <<done, denied, down, lost>>
  BY <1>0 DEF wshRpcCall
<1> c \in Ends /\ kind \in RpcKinds \union {"call"}
  BY DEF Ends
<1>3. /\ ReqIds = 1 .. Len(reqs) /\ ReqIds' = 1 .. new /\ Len(reqs) \in Nat /\ Len(reqs') = new
      /\ reqs'[new].src = c /\ reqs'[new].dst = dst
      /\ gen' \in Seq(GenRec) /\ Len(gen') = new /\ gen'[new] = g
      /\ seen' \in Seq(Seq(Nat)) /\ Len(seen') = new /\ seen'[new] = <<>> /\ parts'[new] = 0
      /\ \A k \in ReqIds : /\ reqs'[k] = reqs[k] /\ gen'[k] = gen[k]
                           /\ seen'[k] = seen[k] /\ parts'[k] = parts[k]
  BY <1>0, <1>1, <1>2, NewCall
<1>4. new \notin ReqIds /\ ReqIds' = ReqIds \union {new} /\ new \in Nat
  BY <1>0, <1>3
<1>5. /\ \A k \in ReqIds : serving'[k] = serving[k]
      /\ serving'[new] = IF dst \in Clients THEN "running" ELSE "none"
  <2>1. PICK first : first = IF dst \in Clients THEN "running" ELSE "none"
    OBVIOUS
  <2>2. /\ serving' = Append(serving, first) /\ first \in {"none", "running", "over"}
        /\ serving \in Seq({"none", "running", "over"}) /\ Len(serving) = Len(reqs)
    BY <1>2, <2>1 DEF CallsInv, Inv, Types
  <2> QED BY <1>0, <1>3, <2>1, <2>2, AppendProperties
<1>6. DownAnswers'
  <2>1. \A i \in 1 .. Len(down) :
          /\ down[i].type = "cancel" => down[i].id \in ReqIds /\ ~Own(down[i].id)
          /\ down[i].type = "response" =>
               /\ down[i].id \in ReqIds /\ ~Local(down[i].id)
               /\ ~down[i].cont => down[i].n = parts[down[i].id] /\ serving[down[i].id] = "over"
    BY DEF CallsInv, Wire, DownAnswers
  <2>2. \A k \in ReqIds : /\ k \in ReqIds' /\ (Own(k)' <=> Own(k)) /\ (Local(k)' <=> Local(k))
                           /\ parts'[k] = parts[k] /\ serving'[k] = serving[k]
    BY <1>3, <1>4, <1>5 DEF Own, Local
  <2> QED BY ONLY <1>2, <2>1, <2>2 DEF DownAnswers
<1>7. UpOnce'
  <2>1. \A i \in 1 .. Len(up) : up[i].type = "command" =>
          /\ up[i].id \in ReqIds /\ serving[up[i].id] = "none"
          /\ \A j \in 1 .. Len(up) : up[j].type = "command" /\ up[j].id = up[i].id => j = i
    BY DEF CallsInv, Wire, UpOnce, Inv, UpPlace
  <2>2. CASE dst \in Clients
    BY <1>2, <1>5, <2>1, <2>2 DEF UpOnce
  <2>3. CASE dst \notin Clients
    <3>1. PICK msg : msg = Command(new)
      OBVIOUS
    <3>2. msg \in Message /\ msg.id = new
      BY <1>4, <3>1, Messages DEF Command
    <3>3. /\ Len(up') = Len(up) + 1 /\ Len(up) \in Nat /\ up'[Len(up) + 1] = msg
          /\ \A i \in 1 .. Len(up) : up'[i] = up[i]
      BY <1>2, <2>3, <3>1, <3>2, AppendProperties, LenProperties DEF CallsInv, Inv, Types
    <3>4. \A i \in 1 .. Len(up') : (i \in 1 .. Len(up) /\ up'[i] = up[i]) \/ (i = Len(up) + 1 /\ up'[i] = msg)
      BY <3>3
    <3> QED BY <1>4, <1>5, <2>1, <2>3, <3>2, <3>4 DEF UpOnce
  <2> QED BY <2>2, <2>3
<1>8. WaitPlace(new)'
  <2>1. Own(new)' /\ new \in openRpcs' /\ new \in rpcMap'
    BY <1>2, <1>3 DEF Own
  <2>2. new \notin denied'
    BY <1>2, <1>4 DEF CallsInv, GenTypes
  <2> QED BY <2>1, <2>2 DEF WaitPlace
<1>9. OrderPlace(new)'
  <2>1. \A i \in 1 .. Len(down) : ~Answers(down[i], new)
    BY <1>4 DEF Answers, CallsInv, Wire, DownAnswers
  <2>2. down \in Seq(Message)
    BY DEF CallsInv, Inv, Types
  <2>3. Continues(down, new, 0, 0)
    BY <2>1, <2>2, ContinuesNone
  <2>4. Len(seen'[new]) = 0 /\ Len(gen'[new].queue) = 0 /\ 0 + 0 = 0
    BY <1>1, <1>3, EmptySeq
  <2>5. gen'[new].phase = "waiting"
    BY <1>1, <1>3
  <2>6. Continues(down', new, 0, parts'[new])
    BY <1>2, <1>3, <2>3
  <2> QED BY ONLY <2>4, <2>5, <2>6 DEF OrderPlace, Live
<1>10. new \in ReqIds' /\ reqs'[new].src \in Clients /\ new \notin openRpcs
  BY <1>3, <1>4 DEF CallsInv, GenTypes
<1>11. timers' \subseteq timers \union (openRpcs' \ openRpcs)
  BY <1>2, <1>10
<1> QED BY <1>2, <1>3, <1>4, <1>5, <1>6, <1>7, <1>8, <1>9, <1>10, <1>11, GrowStep

LEMMA BackendCallsKeeps ==
  ASSUME Upstream \notin Clients, CallsInv, NEW c \in Clients, BackendCalls(c)
  PROVE  Keeps
<1>0. PICK new, msg : new = Len(reqs) + 1 /\ msg = Command(new)
  OBVIOUS
<1>1. NoGenerator \in GenRec /\ NoGenerator.phase = "none"
  <2>1. <<>> \in Seq(Reply)
    BY EmptySeq
  <2> QED BY <2>1 DEF GenRec, NoGenerator
<1>2. /\ Request(Upstream, c, "call", TRUE) /\ gen' = Append(gen, NoGenerator)
      /\ serving' = Append(serving, "none") /\ down' = Append(down, msg)
      /\ UNCHANGED <<rpcMap, openRpcs, timers, done, denied, up, lost>>
  BY <1>0 DEF BackendCalls
<1>3. /\ ReqIds = 1 .. Len(reqs) /\ ReqIds' = 1 .. new /\ Len(reqs) \in Nat /\ Len(reqs') = new
      /\ reqs'[new].src = Upstream /\ reqs'[new].dst = c
      /\ gen' \in Seq(GenRec) /\ Len(gen') = new /\ gen'[new] = NoGenerator
      /\ seen' \in Seq(Seq(Nat)) /\ Len(seen') = new /\ seen'[new] = <<>> /\ parts'[new] = 0
      /\ \A k \in ReqIds : /\ reqs'[k] = reqs[k] /\ gen'[k] = gen[k]
                           /\ seen'[k] = seen[k] /\ parts'[k] = parts[k]
  BY <1>0, <1>1, <1>2, NewCall DEF Ends
<1>4. new \notin ReqIds /\ ReqIds' = ReqIds \union {new} /\ new \in Nat
  BY <1>0, <1>3
<1>5. \A k \in ReqIds : serving'[k] = serving[k]
  BY <1>2, <1>3, AppendProperties DEF CallsInv, Inv, Types
<1>6. msg \in Message /\ msg.type = "command"
  BY <1>0, <1>4, Messages DEF Command
<1>7. down \in Seq(Message)
  BY DEF CallsInv, Inv, Types
<1>8. DownAnswers'
  <2>1. \A i \in 1 .. Len(down) :
          /\ down[i].type = "cancel" => down[i].id \in ReqIds /\ ~Own(down[i].id)
          /\ down[i].type = "response" =>
               /\ down[i].id \in ReqIds /\ ~Local(down[i].id)
               /\ ~down[i].cont => down[i].n = parts[down[i].id] /\ serving[down[i].id] = "over"
    BY DEF CallsInv, Wire, DownAnswers
  <2>2. \A k \in ReqIds : /\ k \in ReqIds' /\ (Own(k)' <=> Own(k)) /\ (Local(k)' <=> Local(k))
                           /\ parts'[k] = parts[k] /\ serving'[k] = serving[k]
    BY <1>3, <1>4, <1>5 DEF Own, Local
  <2>3. /\ Len(down') = Len(down) + 1 /\ Len(down) \in Nat /\ down'[Len(down) + 1] = msg
        /\ \A i \in 1 .. Len(down) : down'[i] = down[i]
    BY <1>2, <1>6, <1>7, AppendProperties, LenProperties
  <2>4. \A i \in 1 .. Len(down') : (i \in 1 .. Len(down) /\ down'[i] = down[i]) \/ down'[i] = msg
    BY <2>3
  <2> QED BY ONLY <1>6, <2>1, <2>2, <2>4 DEF DownAnswers
<1>9. ASSUME NEW k \in ReqIds, NEW base \in Nat, NEW top \in Nat, Continues(down, k, base, top)
      PROVE  Continues(down', k, base, top)
  <2>1. ~Answers(msg, k)
    BY <1>6 DEF Answers
  <2> QED BY <1>2, <1>6, <1>7, <1>9, <2>1, ContinuesOther
<1>10. UpOnce'
  BY <1>2, <1>5 DEF CallsInv, Wire, UpOnce, Inv, UpPlace
<1>11. ~Live(new)' /\ gen'[new].outcome = "none" /\ gen'[new].phase = "none"
  BY <1>1, <1>3 DEF Live, NoGenerator
<1>12. WaitPlace(new)'
  BY <1>11 DEF WaitPlace
<1>13. OrderPlace(new)'
  <2>1. Len(seen'[new]) = 0
    BY <1>3, EmptySeq
  <2> QED BY <1>11, <2>1 DEF OrderPlace
<1> QED BY <1>2, <1>3, <1>4, <1>5, <1>8, <1>9, <1>10, <1>12, <1>13, GrowStep

-----------------------------------------------------------------------------
LEMMA InitCalls == RpcInit => CallsInv /\ Order
<1> SUFFICES ASSUME RpcInit PROVE CallsInv /\ Order
  OBVIOUS
<1>1. /\ reqs = <<>> /\ gen = <<>> /\ openRpcs = {} /\ timers = {} /\ denied = {} /\ up = <<>> /\ down = <<>>
      /\ seen = <<>> /\ lost = 0
  BY DEF RpcInit
<1>2. \A S : <<>> \in Seq(S) /\ Len(<<>>) = 0
  BY EmptySeq
<1>3. ReqIds = {}
  BY <1>1 DEF ReqIds
<1>4. GenTypes
  BY <1>1, <1>2 DEF GenTypes
<1>5. Wire
  BY <1>1, <1>2, <1>3 DEF Wire, Owned, UpOnce, DownAnswers
<1> QED BY <1>3, <1>4, <1>5, InitInv DEF CallsInv, Waits, Order

LEMMA NextKeeps ==
  ASSUME Upstream \notin Clients
  PROVE  CallsInv /\ [RpcNext]_rpcVars => Keeps
<1> SUFFICES ASSUME CallsInv, [RpcNext]_rpcVars PROVE Keeps
  OBVIOUS
<1>1. CASE \E c \in Clients, dst \in Clients \union {Upstream}, kind \in RpcKinds, timed \in BOOLEAN :
             c # dst /\ wshRpcCall(c, dst, kind, timed)
  BY <1>1, wshRpcCallKeeps DEF Ends
<1>2. CASE \E id \in ReqIds : Timeout(id) \/ ResumeGenerator(id) \/ AskForMore(id) \/ Deny(id) \/ BackendCancels(id)
  BY <1>2, TimeoutKeeps, ResumeKeeps, AskForMoreKeeps, DenyKeeps, BackendCancelsKeeps
<1>3. CASE \E id \in ReqIds, flag \in BOOLEAN : StopStream(id, flag) \/ HandlerSends(id, flag)
  BY <1>3, StopStreamKeeps, HandlerSendsKeeps
<1>4. CASE \E id \in ReqIds, what \in {"data", "null", "error"} :
             HandlerEnds(id, what) \/ \E cont \in BOOLEAN : BackendResponds(id, what, cont)
  BY <1>4, HandlerEndsKeeps, BackendRespondsKeeps
<1>5. CASE \E c \in Clients : BackendCalls(c)
  BY <1>5, BackendCallsKeeps
<1>6. CASE PageReceives \/ BackendReceives \/ Lose
  BY <1>6, ReceiveKeeps, BackendReceivesKeeps, LoseKeeps
<1>7. CASE UNCHANGED rpcVars
  <2>1. UNCHANGED <<reqs, rpcMap, openRpcs, gen, timers, serving, done, denied, parts, up, down, seen, lost>>
    BY <1>7 DEF rpcVars, wires
  <2>2. Wire' /\ denied' \subseteq ReqIds
    BY <2>1, UpOnceKept, DownAnswersKept, OwnedKept DEF Wire, CallsInv, GenTypes
  <2>3. ASSUME NEW k \in ReqIds PROVE Unmoved(k) /\ Undisturbed(k)
    BY <2>1 DEF Unmoved, Undisturbed, Settled, Finished, Local
  <2> QED BY <2>1, <2>2, <2>3, QuietCalls
<1> QED BY <1>1, <1>2, <1>3, <1>4, <1>5, <1>6, <1>7 DEF RpcNext

LEMMA NextCalls ==
  ASSUME Upstream \notin Clients
  PROVE  CallsInv /\ Order /\ [RpcNext]_rpcVars => (CallsInv /\ Order)'
BY NextInv, NextKeeps DEF CallsInv, Keeps

\* The state of the page's calls is well formed, and a timer runs only for a
\* call whose entry is there to take its error (wshclient.ts, wshrpcutil-base.ts).
THEOREM RpcTypes ==
  RpcSpec => []RpcTypeOK
<1>1. CallsInv => RpcTypeOK
  <2> SUFFICES ASSUME CallsInv PROVE RpcTypeOK
    OBVIOUS
  <2>1. \A id \in ReqIds : gen[id].phase \in {"none", "waiting", "yielded", "done"}
    BY CallTypes DEF GenRec
  <2> QED BY <2>1 DEF CallsInv, Inv, Types, GenTypes, RpcTypeOK
<1>2. CallsInv /\ Order /\ [RpcNext]_rpcVars => (CallsInv /\ Order)'
  BY RpcAssumption, NextCalls
<1> QED BY <1>1, <1>2, InitCalls, PTL DEF RpcSpec

\* No call waits without its entry, or without a route for a last response that
\* is still to come, whatever is lost, cancelled or answered late: nothing the
\* router or a client drops is what a consumer waits for (wshrouter.ts, wshclient.ts).
THEOREM WaitingIsRoutedAlways ==
  RpcSpec => []WaitingIsRouted
<1>1. CallsInv => WaitingHasRoute
  <2> SUFFICES ASSUME CallsInv, NEW id \in ReqIds, gen[id].phase = "waiting"
               PROVE  /\ id \in openRpcs
                      /\ id \in rpcMap \/ \E i \in DOMAIN gen[id].queue : ~gen[id].queue[i].cont
    BY DEF WaitingHasRoute
  <2>1. DOMAIN gen[id].queue = 1 .. Len(gen[id].queue)
    BY CallTypes, LenProperties
  <2> QED BY <2>1 DEF CallsInv, Waits, WaitPlace, Live
<1>2. CallsInv /\ Order /\ [RpcNext]_rpcVars => (CallsInv /\ Order)'
  BY RpcAssumption, NextCalls
<1> QED BY <1>1, <1>2, InitCalls, AnsweredOnceAlways, PTL DEF RpcSpec, WaitingIsRouted

\* Unless a message has been lost, the consumer of a call gets the responses in
\* their order and without a gap, and a call that ends normally has got them all
\* (rpcResponseGenerator in wshrpcutil-base.ts).
THEOREM InOrderAlways ==
  RpcSpec => []InOrder
<1>1. CallsInv /\ Order => InOrder
  <2> SUFFICES ASSUME CallsInv, Order, lost = 0, NEW id \in ReqIds
               PROVE  /\ \A i \in DOMAIN seen[id] : seen[id][i] = i
                      /\ gen[id].phase = "done" /\ gen[id].outcome \in {"data", "null"} =>
                           Len(seen[id]) = parts[id]
    BY DEF InOrder
  <2>1. DOMAIN seen[id] = 1 .. Len(seen[id])
    BY CallTypes, LenProperties
  <2> QED BY <2>1 DEF Order, OrderPlace
<1>2. CallsInv /\ Order /\ [RpcNext]_rpcVars => (CallsInv /\ Order)'
  BY RpcAssumption, NextCalls
<1> QED BY <1>1, <1>2, InitCalls, PTL DEF RpcSpec
=============================================================================
