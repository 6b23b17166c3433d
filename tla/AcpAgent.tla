------------------------------ MODULE AcpAgent ------------------------------
(***************************************************************************)
(* The Electron main process' side of an ACP agent (emain/acp): the        *)
(* managers, one per acp-initialize, the NDJSON transport each of them     *)
(* owns, the agent's process at the other end of it, and the ipc calls of  *)
(* the renderers, which overlap because every one of them awaits.          *)
(*                                                                         *)
(* The event loop runs one callback at a time.  A promise that is settled  *)
(* continues its awaiting function before the next callback, except for    *)
(* the further lines of the chunk of output that settled it: Idle guards   *)
(* every callback.  Payloads, models and configuration values are left     *)
(* out; a permission request keeps the id of its tool call.                *)
(***************************************************************************)
EXTENDS Naturals, FiniteSets, SequencesExt

CONSTANTS
    Conversations,   \* conversation ids
    CallIds,         \* tool call ids an agent may ask permission for
    MaxManagers,     \* bound on the managers created
    MaxIpcCalls,     \* bound on the ipc calls that await
    MaxAgentRequests, \* bound on the requests of one transport
    MaxPermissions,  \* bound on the permission requests of one agent
    Detached         \* the agent leads a process group (not on Windows)

VARIABLES
    agentManagers,   \* conversation -> manager, or 0
    managers,        \* every manager ever created, with its transport and agent
    ipcCalls         \* every ipc call that reached an await

agentVars == <<agentManagers, managers, ipcCalls>>

Permissions == 1 .. MaxPermissions
IpcKinds == {"initialize", "send", "set"}

-----------------------------------------------------------------------------
(* Types.  The fields of an agent's process are child, inbox (the requests *)
(* it has not answered) and asked.                                         *)

Manager(c) ==
    [conversation |-> c, status |-> "connecting", transport |-> "none",
     initialized |-> FALSE, session |-> FALSE, confirmations |-> <<>>,
     lastId |-> 0, pending |-> {}, forceKill |-> FALSE,
     child |-> "none", inbox |-> {},
     asked |-> [p \in Permissions |->
                   [state |-> "no", callId |-> "none", answers |-> 0]]]

Stages == {"init", "token", "session", "setMode", "prompt", "option"}
InFlight(k) == k.stage \in Stages
SettledCall(k) == InFlight(k) /\ k.result # "wait"

(* No promise is waiting to continue: the next callback may run. *)
Idle == \A i \in DOMAIN ipcCalls : ~SettledCall(ipcCalls[i])

AgentTypeOK ==
    /\ agentManagers \in [Conversations -> 0 .. Len(managers)]
    /\ Len(managers) <= MaxManagers
    /\ \A m \in DOMAIN managers :
          LET r == managers[m] IN
          /\ r.conversation \in Conversations
          /\ r.status \in {"idle", "connecting", "connected", "running",
                           "finished", "error"}
          /\ r.transport \in {"none", "open", "gone"}
          /\ {r.initialized, r.session, r.forceKill} \subseteq BOOLEAN
          /\ Range(r.confirmations) \subseteq Permissions
          /\ r.lastId \in 0 .. MaxAgentRequests
          /\ r.pending \subseteq 1 .. r.lastId
          /\ r.inbox \subseteq 1 .. r.lastId
          /\ r.child \in {"none", "running", "terminating", "exited"}
          /\ r.asked \in [Permissions ->
                [state : {"no", "asked", "late", "dropped"},
                 callId : CallIds \cup {"none"}, answers : 0 .. 2]]
    /\ \A i \in DOMAIN ipcCalls :
          ipcCalls[i] \in [kind : IpcKinds, manager : DOMAIN managers,
                        stage : Stages \cup {"done", "failed"},
                        request : 0 .. MaxAgentRequests,
                        result : {"wait", "ok", "error"}]

AgentInit ==
    /\ agentManagers = [c \in Conversations |-> 0]
    /\ managers = <<>>
    /\ ipcCalls = <<>>

-----------------------------------------------------------------------------
(* NdjsonTransport *)

CanSend(r) == r.lastId < MaxAgentRequests

(* sendRequest: the next id, its timer armed, the line written. *)
SendRequest(r) ==
    LET id == r.lastId + 1 IN
    [r EXCEPT !.lastId = id, !.pending = @ \cup {id},
              !.inbox = IF r.child \in {"running", "terminating"}
                        THEN @ \cup {id} ELSE @]

Waiting(k, stage, r) ==
    [k EXCEPT !.stage = stage, !.request = r.lastId, !.result = "wait"]

(* The awaiting calls of manager m whose request is in ids get a result. *)
Settle(ks, m, ids, result) ==
    [i \in DOMAIN ks |->
        IF /\ ks[i].manager = m /\ InFlight(ks[i]) /\ ks[i].stage # "token"
           /\ ks[i].result = "wait" /\ ks[i].request \in ids
        THEN [ks[i] EXCEPT !.result = result]
        ELSE ks[i]]

(* sendResponse to the permission requests in ps. *)
Answer(asked, ps) ==
    [p \in Permissions |->
        IF p \in ps THEN [asked[p] EXCEPT !.answers = @ + 1] ELSE asked[p]]

\* mutation: only the requests are dropped, the process is left alone
KillNoSignal(r) == [r EXCEPT !.pending = {}]

(* kill: the pending requests are dropped (Settle rejects them), the       *)
(* process group gets SIGTERM and, one second later, SIGKILL.              *)
Kill(r) ==
    [r EXCEPT !.pending = {},
              !.child = IF @ = "running" THEN "terminating" ELSE @,
              !.forceKill = Detached]

\* mutation: stop forgets the open permission requests
StopUnanswered(r) ==
    LET reset == [r EXCEPT !.session = FALSE, !.confirmations = <<>>,
                           !.status = "idle"]
    IN  IF r.transport = "open"
        THEN [Kill(reset) EXCEPT !.transport = "gone"]
        ELSE reset

(* AcpAgentManager.stop *)
Stop(r) ==
    LET reset == [r EXCEPT !.session = FALSE, !.confirmations = <<>>,
                           !.status = "idle"]
    IN  IF r.transport = "open"
        THEN [Kill(reset) EXCEPT !.transport = "gone",
                                 !.asked = Answer(@, Range(r.confirmations))]
        ELSE reset

\* mutation: the pending requests are dropped without being rejected
StopCallsForgotten(ks, m, r) == ks

(* The calls whose requests kill rejects. *)
StopCalls(ks, m, r) ==
    IF r.transport = "open" THEN Settle(ks, m, r.pending, "error") ELSE ks

-----------------------------------------------------------------------------
(* ensureSession and what its callers do before and after it.  r is the    *)
(* manager as the awaiting function finds it; each step gives the manager  *)
(* and the call it leaves behind.                                          *)

Ended(k, stage) ==
    [k EXCEPT !.stage = stage, !.result = "wait", !.request = 0]

Failed(r, k) ==
    [mgr |-> IF k.kind = "initialize" THEN [r EXCEPT !.status = "error"] ELSE r,
     call |-> Ended(k, "failed")]

Sent(r, k, stage) ==
    LET s == SendRequest(r) IN [mgr |-> s, call |-> Waiting(k, stage, s)]

(* After ensureSession: initialize is connected, sendMessage prompts. *)
AfterSession(r, k) ==
    CASE k.kind = "initialize" ->
            [mgr |-> [r EXCEPT !.status = "connected"],
             call |-> Ended(k, "done")]
      [] k.kind = "send" /\ r.transport = "open" -> Sent(r, k, "prompt")
      [] OTHER -> Failed(r, k)

(* The session request, after the surface token if one is wanted. *)
RequestSession(r, k) ==
    IF r.transport = "open" THEN Sent(r, k, "session") ELSE Failed(r, k)

EnsureSession(r, k) ==
    IF r.transport # "open" \/ r.session
    THEN {AfterSession(r, k)}
    ELSE {[mgr |-> r,
           call |-> [k EXCEPT !.stage = "token", !.result = "wait",
                              !.request = 0]],
          RequestSession(r, k)}

\* mutation: the end of the prompt is left to the agent's finish update
AfterPromptSilent(r, k) == [mgr |-> r, call |-> Ended(k, "done")]

(* sendMessage after the prompt: only the first of finish and answer. *)
AfterPrompt(r, k) ==
    [mgr |-> IF r.status = "running" THEN [r EXCEPT !.status = "finished"]
             ELSE r,
     call |-> Ended(k, "done")]

(* What the function awaiting in call k does when its promise is settled.  *)
(* A session may name no mode, and then session/set_mode is not sent; what *)
(* becomes of set_mode does not matter.                                    *)
Resumed(r, k) ==
    IF k.stage = "setMode" THEN {AfterSession(r, k)}
    ELSE IF k.result = "error" THEN {Failed(r, k)}
    ELSE CASE k.stage = "init" -> EnsureSession(r, k)
           [] k.stage = "token" -> {RequestSession(r, k)}
           [] k.stage = "session" ->
                 LET s == [r EXCEPT !.session = TRUE] IN
                 {AfterSession(s, k)} \cup
                 (IF s.transport = "open" THEN {Sent(s, k, "setMode")}
                  ELSE {AfterSession(s, k)})
           [] k.stage = "prompt" -> {AfterPrompt(r, k)}
           [] OTHER -> {[mgr |-> r, call |-> Ended(k, "done")]}

Resume(i) ==
    /\ SettledCall(ipcCalls[i])
    /\ \E after \in Resumed(managers[ipcCalls[i].manager], ipcCalls[i]) :
          /\ after.mgr.lastId <= MaxAgentRequests
          /\ managers' = [managers EXCEPT ![ipcCalls[i].manager] = after.mgr]
          /\ ipcCalls' = [ipcCalls EXCEPT ![i] = after.call]
    /\ UNCHANGED agentManagers

-----------------------------------------------------------------------------
(* ipc calls of the renderers *)

IpcCall(kind, m) ==
    [kind |-> kind, manager |-> m, stage |-> "init", request |-> 0,
     result |-> "wait"]

CanCall == Idle /\ Len(ipcCalls) < MaxIpcCalls

(* createAgentManager: the manager the conversation had is stopped. *)
createAgentManager(c) ==
    LET old == agentManagers[c] IN
    IF old = 0 THEN [managers |-> managers, calls |-> ipcCalls]
    ELSE [managers |-> [managers EXCEPT ![old] = Stop(@)],
          calls |-> StopCalls(ipcCalls, old, managers[old])]

(* acp-initialize: the new manager spawns the agent, which may fail, and   *)
(* asks it to initialize.  The awaits of spawnAcpAgent are microtasks, so  *)
(* this is one callback.                                                   *)
AcpInitialize(c) ==
    LET m == Len(managers) + 1
        before == createAgentManager(c)
        spawned == [Manager(c) EXCEPT !.transport = "open", !.child = "running"]
    IN
    /\ CanCall /\ m <= MaxManagers
    /\ agentManagers' = [agentManagers EXCEPT ![c] = m]
    /\ \E s \in {Sent(spawned, IpcCall("initialize", m), "init"),
                 Failed(Manager(c), IpcCall("initialize", m))} :
          /\ managers' = Append(before.managers, s.mgr)
          /\ ipcCalls' = Append(before.calls, s.call)

(* acp-send-message *)
AcpSendMessage(c) ==
    LET m == agentManagers[c] IN
    /\ CanCall /\ m # 0
    /\ managers[m].transport = "open" /\ managers[m].initialized
    /\ CanSend(managers[m])
    /\ \E s \in EnsureSession([managers[m] EXCEPT !.status = "running"],
                              IpcCall("send", m)) :
          /\ managers' = [managers EXCEPT ![m] = s.mgr]
          /\ ipcCalls' = Append(ipcCalls, s.call)
    /\ UNCHANGED agentManagers

(* acp-set-mode, acp-set-config-option, acp-set-model *)
AcpSetOption(c) ==
    LET m == agentManagers[c] IN
    /\ CanCall /\ m # 0
    /\ managers[m].transport = "open" /\ managers[m].initialized
    /\ CanSend(managers[m])
    /\ LET s == Sent(managers[m], IpcCall("set", m), "option") IN
          /\ managers' = [managers EXCEPT ![m] = s.mgr]
          /\ ipcCalls' = Append(ipcCalls, s.call)
    /\ UNCHANGED agentManagers

(* acp-confirm-tool: the first confirmation of the tool call is removed; a *)
(* choice it does not offer is not sent to the agent.                      *)
AcpConfirmTool(c, callId, offered) ==
    LET m == agentManagers[c]
        r == managers[m]
        matches == {n \in DOMAIN r.confirmations :
                       r.asked[r.confirmations[n]].callId = callId}
    IN
    /\ Idle /\ m # 0
    /\ \E n \in matches :
          LET p == r.confirmations[n]
              asked == IF ~offered
                       THEN [r.asked EXCEPT ![p].state = "dropped"]
                       ELSE IF r.transport = "open" THEN Answer(r.asked, {p})
                            ELSE r.asked
          IN  /\ \A i \in matches : n <= i
              /\ managers' = [managers EXCEPT
                    ![m] = [r EXCEPT !.confirmations = RemoveAt(@, n), !.asked = asked]]
    /\ UNCHANGED <<agentManagers, ipcCalls>>

(* acp-stop, with the second stop of removeAgentManager *)
AcpStop(c) ==
    LET m == agentManagers[c] IN
    /\ Idle /\ m # 0
    /\ managers' = [managers EXCEPT ![m] = Stop(Stop(@))]
    /\ ipcCalls' = StopCalls(ipcCalls, m, managers[m])
    /\ agentManagers' = [agentManagers EXCEPT ![c] = 0]

(* stopAllAgentManagers, when the application quits *)
StopAll ==
    LET live == {agentManagers[c] : c \in Conversations} \ {0} IN
    /\ Idle /\ live # {}
    /\ agentManagers' = [c \in Conversations |-> 0]
    /\ managers' = [m \in DOMAIN managers |->
                       IF m \in live THEN Stop(managers[m]) ELSE managers[m]]
    /\ ipcCalls' = [i \in DOMAIN ipcCalls |->
                    LET m == ipcCalls[i].manager IN
                    IF m \in live THEN StopCalls(ipcCalls, m, managers[m])[i] ELSE ipcCalls[i]]

-----------------------------------------------------------------------------
(* Timers, the surface token and the agent's process *)

RequestTimeout(i) ==
    LET k == ipcCalls[i] IN
    /\ Idle /\ InFlight(k) /\ k.stage # "token"
    /\ k.request \in managers[k.manager].pending
    /\ managers' = [managers EXCEPT ![k.manager].pending = @ \ {k.request}]
    /\ ipcCalls' = [ipcCalls EXCEPT ![i].result = "error"]
    /\ UNCHANGED agentManagers

(* CreateSurfaceTokenCommand answers, or its own timeout does. *)
TokenReply(i, result) ==
    /\ Idle /\ ipcCalls[i].stage = "token"
    /\ ipcCalls' = [ipcCalls EXCEPT ![i].result = result]
    /\ UNCHANGED <<agentManagers, managers>>

(* A line of the agent's output is handled between callbacks, or right     *)
(* after another line of the same chunk.                                   *)
CanOutput(m) ==
    /\ managers[m].child \in {"running", "terminating"}
    /\ \A i \in DOMAIN ipcCalls : SettledCall(ipcCalls[i]) =>
          ipcCalls[i].manager = m /\ managers[m].transport = "open"

(* handleLine, a response *)
AgentResponds(m, id, result) ==
    LET r == managers[m] IN
    /\ CanOutput(m) /\ id \in r.inbox
    /\ managers' = [managers EXCEPT
          ![m] = [r EXCEPT !.inbox = @ \ {id}, !.pending = @ \ {id},
                           !.initialized = @ \/ (id = 1 /\ result = "ok")]]
    /\ ipcCalls' = Settle(ipcCalls, m, {id} \cap r.pending, result)
    /\ UNCHANGED agentManagers

(* handlePermissionRequest *)
AgentAsksPermission(m, callId) ==
    LET r == managers[m]
        free == {p \in Permissions : r.asked[p].state = "no"}
    IN
    /\ CanOutput(m)
    /\ \E p \in free :
          /\ \A o \in free : p <= o
          /\ managers' = [managers EXCEPT
                ![m] = [r EXCEPT
                   !.confirmations = Append(@, p),
                   !.asked[p] = [state |-> IF r.transport = "open" THEN "asked"
                                           ELSE "late",
                                 callId |-> callId, answers |-> 0]]]
    /\ UNCHANGED <<agentManagers, ipcCalls>>

(* handleSessionUpdate, the update that says the turn is over *)
AgentFinishes(m) ==
    /\ CanOutput(m)
    /\ managers' = [managers EXCEPT ![m].status = "finished"]
    /\ UNCHANGED <<agentManagers, ipcCalls>>

(* The process ends by itself or on SIGTERM, which it may also ignore. *)
AgentExits(m) ==
    /\ Idle /\ managers[m].child \in {"running", "terminating"}
    /\ managers' = [managers EXCEPT ![m].child = "exited", ![m].inbox = {}]
    /\ UNCHANGED <<agentManagers, ipcCalls>>

(* The timer of kill finds the process still there. *)
ForceKill(m) ==
    /\ Idle /\ managers[m].forceKill /\ managers[m].child = "terminating"
    /\ managers' = [managers EXCEPT ![m].child = "exited", ![m].inbox = {}]
    /\ UNCHANGED <<agentManagers, ipcCalls>>

-----------------------------------------------------------------------------
AgentNext ==
    \/ \E c \in Conversations :
          \/ AcpInitialize(c)
          \/ AcpSendMessage(c)
          \/ AcpSetOption(c)
          \/ \E callId \in CallIds, offered \in BOOLEAN :
                AcpConfirmTool(c, callId, offered)
          \/ AcpStop(c)
    \/ StopAll
    \/ \E i \in DOMAIN ipcCalls :
          \/ Resume(i)
          \/ RequestTimeout(i)
          \/ \E result \in {"ok", "error"} : TokenReply(i, result)
    \/ \E m \in DOMAIN managers :
          \/ \E id \in managers[m].inbox, result \in {"ok", "error"} :
                AgentResponds(m, id, result)
          \/ \E callId \in CallIds : AgentAsksPermission(m, callId)
          \/ AgentFinishes(m)
          \/ AgentExits(m)
          \/ ForceKill(m)

AgentSpec == AgentInit /\ [][AgentNext]_agentVars

(* Promises continue, and the timers of node fire: those of the requests,  *)
(* of the token RPC and of the forced kill.  Nothing is assumed of the     *)
(* agent or of the renderers.                                              *)
AgentFairness ==
    /\ \A i \in 1 .. MaxIpcCalls :
          /\ WF_agentVars(i \in DOMAIN ipcCalls /\ Resume(i))
          /\ WF_agentVars(i \in DOMAIN ipcCalls /\ RequestTimeout(i))
          /\ WF_agentVars(i \in DOMAIN ipcCalls /\ TokenReply(i, "error"))
    /\ \A m \in 1 .. MaxManagers :
          WF_agentVars(m \in DOMAIN managers /\ ForceKill(m))

AgentFairSpec == AgentSpec /\ AgentFairness

-----------------------------------------------------------------------------
(* Properties *)

(* An agent's process that nobody has told to end belongs to the manager   *)
(* its conversation is registered with, the only one acp-stop, a second    *)
(* acp-initialize and the quitting application can reach.                  *)
NoOrphanAgent ==
    \A m \in DOMAIN managers :
        managers[m].child = "running" =>
            /\ agentManagers[managers[m].conversation] = m
            /\ managers[m].transport = "open"

(* A permission request an agent made while its transport was open is      *)
(* waiting in the manager's confirmations, or has been answered exactly    *)
(* once, whatever the order of the user's choices, acp-stop and a          *)
(* re-initialization (acp-transport.test.ts:305).  Only a choice the       *)
(* request does not offer drops it.                                        *)
PermissionAnsweredOnce ==
    \A m \in DOMAIN managers : \A p \in Permissions :
        LET r == managers[m] IN
        r.asked[p].state = "asked" =>
            IF p \in Range(r.confirmations)
            THEN r.asked[p].answers = 0 /\ r.transport = "open"
            ELSE r.asked[p].answers = 1

(* A manager that says "running" has a turn to show for it: a sendMessage  *)
(* that still waits, or one that failed (sendMessage does not reset the    *)
(* status when the prompt is rejected or times out).                       *)
RunningHasATurn ==
    \A m \in DOMAIN managers :
        managers[m].status = "running" =>
            \E i \in DOMAIN ipcCalls :
                /\ ipcCalls[i].manager = m /\ ipcCalls[i].kind = "send"
                /\ InFlight(ipcCalls[i]) \/ ipcCalls[i].stage = "failed"

(* No two calls wait for the same answer, and one that waits for a request *)
(* has the entry in pending that will settle it: an answer, the timer or   *)
(* the kill.                                                               *)
WaitingIsPending ==
    /\ \A i, j \in DOMAIN ipcCalls :
          /\ i # j /\ InFlight(ipcCalls[i]) /\ InFlight(ipcCalls[j])
          /\ "token" \notin {ipcCalls[i].stage, ipcCalls[j].stage}
          => <<ipcCalls[i].manager, ipcCalls[i].request>>
                # <<ipcCalls[j].manager, ipcCalls[j].request>>
    /\ \A i \in DOMAIN ipcCalls :
          InFlight(ipcCalls[i]) /\ ipcCalls[i].stage # "token" =>
              (ipcCalls[i].request \in managers[ipcCalls[i].manager].pending
                  <=> ipcCalls[i].result = "wait")

(* What runs or waits has something that will end it: a running manager a  *)
(* turn, a waiting call an entry in pending.                               *)
NothingWaitsInVain == RunningHasATurn /\ WaitingIsPending

(* Every ipc call returns, although the agent may never answer, may exit   *)
(* or may be stopped while the call waits.                                 *)
CallsReturn ==
    \A i \in 1 .. MaxIpcCalls :
        (i \in DOMAIN ipcCalls /\ InFlight(ipcCalls[i]))
            ~> (i \in DOMAIN ipcCalls /\ ipcCalls[i].stage \in {"done", "failed"})

(* The process of a manager that was stopped ends, even one that ignores   *)
(* SIGTERM.                                                                *)
StoppedAgentEnds ==
    \A m \in 1 .. MaxManagers :
        (m \in DOMAIN managers /\ managers[m].child = "terminating")
            ~> (m \in DOMAIN managers /\ managers[m].child = "exited")
=============================================================================
