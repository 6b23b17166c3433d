----------------------------- MODULE AcpSession -----------------------------
(***************************************************************************)
(* The renderer's side of the ACP chats (use-acp-session.ts): the store of *)
(* sessions, its hydration after a page load, the calls to the main        *)
(* process and the events of its agent managers (AcpAgent).                *)
(*                                                                         *)
(* The main process is modelled by what the renderer sees of it: it takes  *)
(* the calls of a page in order, answers them in any order, and everything *)
(* it sends, events and answers, arrives in the order sent (one Electron   *)
(* ipc channel).  Messages, titles and file references are left out.       *)
(*                                                                         *)
(* A session has a mode, whose changes main announces by an event, and a   *)
(* model, whose changes only the answer of the call tells.  "model" stands *)
(* for the configuration options too, which are set and read back like it. *)
(* A setting is a value of either; an agent that has reported no model     *)
(* (NoMode) has none to set.                                               *)
(***************************************************************************)
EXTENDS Naturals, FiniteSets, SequencesExt

CONSTANTS
    Conversations,
    CallIds,          \* ids of the tool calls permission is asked for
    Modes, Models,    \* values of the two settings, disjoint
    NoMode,
    MaxCalls,         \* bound on the calls of the renderer
    MaxPermissions,   \* bound on the permission requests of one conversation
    MaxReports,       \* bound on the models one agent reports
    MaxReloads        \* bound on the page loads after the first

VARIABLES
    store,       \* sessionsById: conversation -> runtime record
    hydration,   \* the hydrate effect of this page
    saved,       \* the sessions the server has a record of
    agents,      \* the main process: conversation -> manager as seen from here
    calls,       \* the renderer's calls, in the order made
    mail,        \* what main has sent to this page and the page not handled
    reloads,
    clouded      \* ghost: sessions whose store may differ for a known reason

vars == <<store, hydration, saved, agents, calls, mail, reloads, clouded>>

-----------------------------------------------------------------------------
(* makeRuntime, and storedSessionToRuntime *)
makeRuntime ==
    [status |-> "connecting", live |-> TRUE, resume |-> "live",
     mode |-> NoMode, model |-> NoMode, pending |-> {}]

storedSessionToRuntime ==
    [status |-> "stored", live |-> FALSE, resume |-> "restart-required",
     mode |-> NoMode, model |-> NoMode, pending |-> {}]

(* up: the transport is initialized.  stuck and unheard are ghosts: a turn *)
(* failed and the manager still says "running"; the model was set and the  *)
(* page does not learn of it.                                              *)
NoAgent == [status |-> "none", up |-> FALSE, mode |-> NoMode, model |-> NoMode,
            confirmations |-> <<>>, asked |-> 0, reports |-> 0,
            stuck |-> FALSE, unheard |-> FALSE]

Settings == Modes \cup Models

Statuses == {"idle", "connecting", "connected", "running", "finished", "error"}

Permission == [id : 1 .. MaxPermissions, callId : CallIds]

TypeOK ==
    /\ DOMAIN store \subseteq Conversations
    /\ \A c \in DOMAIN store :
          store[c] \in [status : Statuses \cup {"stored", "archived"},
                        live : BOOLEAN,
                        resume : {"live", "resumable", "restart-required",
                                  "archived"},
                        mode : Modes \cup {NoMode},
                        model : Models \cup {NoMode},
                        pending : SUBSET Permission]
    /\ hydration.phase \in {"no", "listed", "snapshot", "done"}
    /\ DOMAIN hydration.runtimes \subseteq Conversations
    /\ {saved, clouded} \subseteq SUBSET Conversations
    /\ \A c \in Conversations :
          /\ agents[c].status \in Statuses \cup {"none"}
          /\ {agents[c].up, agents[c].stuck, agents[c].unheard} \subseteq BOOLEAN
          /\ agents[c].mode \in Modes \cup {NoMode}
          /\ agents[c].model \in Models \cup {NoMode}
          /\ agents[c].reports \in 0 .. MaxReports
          /\ Range(agents[c].confirmations) \subseteq Permission
          /\ agents[c].asked \in 0 .. MaxPermissions
    /\ \A i \in DOMAIN calls :
          calls[i].phase \in {"sent", "handling", "answered", "done"}
    /\ reloads \in 0 .. MaxReloads

Init ==
    /\ store = <<>>
    /\ hydration = [phase |-> "no", runtimes |-> <<>>]
    /\ saved = {}
    /\ agents = [c \in Conversations |-> NoAgent]
    /\ calls = <<>>
    /\ mail = <<>>
    /\ reloads = 0
    /\ clouded = {}

-----------------------------------------------------------------------------
(* The store *)

(* updateRuntime: a conversation that is not in the store is left alone. *)
updateRuntime(s, c, runtime) ==
    IF c \in DOMAIN s THEN [s EXCEPT ![c] = runtime] ELSE s

\* mutation: status events are only taken while nothing is running
applyAcpEventIdle(r, event) ==
    CASE event.type = "status" ->
            IF r.status = "running" THEN r ELSE [r EXCEPT !.status = event.value]
      [] event.type = "tool_permission" ->
            [r EXCEPT !.pending = @ \cup {event.value}]
      [] event.type = "config_option" -> [r EXCEPT !.mode = event.value]
      [] event.type = "agent_info" -> [r EXCEPT !.model = event.value]

(* applyAcpEvent; "finish" and "error" set the status as "status" does. *)
applyAcpEvent(r, event) ==
    CASE event.type = "status" -> [r EXCEPT !.status = event.value]
      [] event.type = "tool_permission" ->
            [r EXCEPT !.pending = @ \cup {event.value}]
      [] event.type = "config_option" -> [r EXCEPT !.mode = event.value]
      [] event.type = "agent_info" -> [r EXCEPT !.model = event.value]

Event(c, type, value) ==
    [to |-> "listener", conversation |-> c, type |-> type, value |-> value]

(* The answer of a call; the promises of an earlier page are gone. *)
Reply(i, ok, value) ==
    IF calls[i].page = reloads
    THEN <<[to |-> "call", call |-> i, ok |-> ok, value |-> value]>>
    ELSE <<>>

Request(kind, c, arg) ==
    [kind |-> kind, conversation |-> c, arg |-> arg, phase |-> "sent",
     page |-> reloads]

CanCall == Len(calls) < MaxCalls

-----------------------------------------------------------------------------
(* What the user does *)

(* initialize: a new conversation id, its runtime, then acpInitialize; its *)
(* profile has at most one setting, which is applied at the end.           *)
initialize(c, profile) ==
    /\ CanCall /\ c \notin DOMAIN store /\ c \notin saved
    /\ agents[c] = NoAgent
    /\ \A i \in DOMAIN calls : calls[i].conversation # c
    /\ store' = [d \in DOMAIN store \cup {c} |->
                    IF d = c THEN makeRuntime ELSE store[d]]
    /\ calls' = Append(calls, Request("initialize", c, profile))
    /\ UNCHANGED <<hydration, saved, agents, mail, reloads, clouded>>

(* sendMessage: the panel offers it for a live session that is not running. *)
sendMessage(c) ==
    /\ CanCall /\ c \in DOMAIN store
    /\ store[c].live /\ store[c].status # "running"
    /\ store' = [store EXCEPT ![c].status = "running"]
    /\ calls' = Append(calls, Request("send", c, NoMode))
    /\ UNCHANGED <<hydration, saved, agents, mail, reloads, clouded>>

Asks(kind, c, arg) ==
    /\ CanCall /\ c \in DOMAIN store
    /\ calls' = Append(calls, Request(kind, c, arg))
    /\ UNCHANGED <<store, hydration, saved, agents, mail, reloads, clouded>>

(* confirmTool, of a permission request that is shown *)
confirmTool(c, callId) ==
    /\ c \in DOMAIN store
    /\ \E p \in store[c].pending : p.callId = callId
    /\ Asks("confirm", c, callId)

(* stop, which the panel offers while the session is running *)
stop(c) ==
    /\ c \in DOMAIN store /\ store[c].status = "running"
    /\ Asks("stop", c, NoMode)

(* closeSession: a session that is not live is archived at once. *)
closeSession(c) ==
    /\ c \in DOMAIN store /\ store[c].resume # "archived"
    /\ \/ store[c].live /\ Asks("close", c, NoMode)
       \/ /\ ~store[c].live
          /\ store' = [store EXCEPT
                ![c] = [@ EXCEPT !.status = "archived", !.resume = "archived"]]
          /\ UNCHANGED <<hydration, saved, agents, calls, mail, reloads, clouded>>

(* Whether a session has modes, or a model, to choose from *)
Offers(status, setting) ==
    IF setting \in Modes THEN status.mode # NoMode ELSE status.model # NoMode

(* setMode; setModel and setConfigOption of what the session offers *)
setMode(c, setting) ==
    /\ c \in DOMAIN store
    /\ setting \in Modes \/ Offers(store[c], setting)
    /\ Asks("set", c, setting)

(* One action of applyProfileToLiveSessions *)
applyProfile(c, setting) ==
    /\ c \in DOMAIN store /\ store[c].live /\ Offers(store[c], setting)
    /\ Asks("profile", c, setting)

-----------------------------------------------------------------------------
(* The main process *)

Post(msgs) == mail' = mail \o msgs

(* It takes the calls in order, the list of the runtimes being the first   *)
(* call of a page; an acp-initialize, a turn and a setting stay in         *)
(* "handling" until the agent has answered.                                *)
NextSent(i) ==
    /\ calls[i].phase = "sent"
    /\ \A j \in 1 .. i - 1 : calls[j].phase # "sent"
    /\ calls[i].page = reloads => hydration.phase # "no"

MainUnchanged == UNCHANGED <<store, hydration, saved, reloads, clouded>>

Await(i) == calls' = [calls EXCEPT ![i].phase = "handling"]
Answered(i) ==
    calls' = [calls EXCEPT ![i].phase =
                 IF calls[i].page = reloads THEN "answered" ELSE "done"]

TakeInitialize(i) ==
    LET c == calls[i].conversation IN
    /\ calls[i].kind = "initialize"
    /\ agents' = [agents EXCEPT ![c].status = "connecting"]
    /\ Await(i) /\ Post(<<Event(c, "status", "connecting")>>)

(* acp-send-message needs an initialized transport. *)
TakeSend(i) ==
    LET c == calls[i].conversation IN
    /\ calls[i].kind = "send"
    /\ IF agents[c].up
       THEN /\ Await(i) /\ Post(<<Event(c, "status", "running")>>)
            /\ agents' = [agents EXCEPT ![c].status = "running", ![c].stuck = FALSE]
       ELSE /\ Answered(i) /\ Post(Reply(i, FALSE, NoMode))
            /\ UNCHANGED agents

(* The rest of the manager's setMode, setModel and setConfigOption: a mode *)
(* is announced; a model is only in the answer, which a page that was      *)
(* loaded since, and the end of initialize, do not read.                   *)
Applied(i) ==
    LET c == calls[i].conversation
        a == agents[c]
        setting == calls[i].arg
        heard == calls[i].page = reloads /\ calls[i].kind # "preset"
        announced == setting \in Modes
    IN
    /\ agents' = [agents EXCEPT ![c] =
          CASE announced -> [a EXCEPT !.mode = setting]
            [] ~announced /\ a.model = NoMode -> a
            [] OTHER -> [a EXCEPT !.model = setting, !.unheard = ~heard]]
    /\ Answered(i)
    /\ Post((IF announced THEN <<Event(c, "config_option", setting)>> ELSE <<>>)
            \o Reply(i, TRUE, agents'[c].model))

(* A setting needs a manager; one whose transport is not initialized       *)
(* applies it without asking its agent.                                    *)
TakeSetting(i) ==
    LET a == agents[calls[i].conversation] IN
    /\ calls[i].kind \in {"set", "profile", "preset"}
    /\ \/ a.up /\ Await(i) /\ UNCHANGED <<agents, mail>>
       \/ ~a.up /\ a.status # "none" /\ Applied(i)
       \/ /\ a.status = "none"
          /\ Answered(i) /\ Post(Reply(i, FALSE, NoMode)) /\ UNCHANGED agents

TakeConfirm(i) ==
    LET c == calls[i].conversation
        list == agents[c].confirmations
        same == {n \in DOMAIN list : list[n].callId = calls[i].arg}
        first == CHOOSE n \in same : \A k \in same : n <= k
    IN
    /\ calls[i].kind = "confirm"
    /\ agents' = IF same = {} THEN agents
                 ELSE [agents EXCEPT ![c].confirmations = RemoveAt(@, first)]
    /\ Answered(i) /\ Post(Reply(i, TRUE, NoMode))

(* acp-stop: what waits on the agent is rejected (AgentGone answers it). *)
TakeStop(i) ==
    LET c == calls[i].conversation IN
    /\ calls[i].kind \in {"stop", "close"}
    /\ agents' = [agents EXCEPT
          ![c] = [NoAgent EXCEPT !.asked = agents[c].asked, !.reports = agents[c].reports]]
    /\ Answered(i)
    /\ Post(IF agents[c].status = "none" THEN Reply(i, FALSE, NoMode)
            ELSE <<Event(c, "status", "idle")>> \o Reply(i, TRUE, NoMode))

(* acp-get-status: the status, or idle when there is no manager. *)
TakeGetStatus(i) ==
    LET c == calls[i].conversation
        a == agents[c]
    IN
    /\ calls[i].kind = "getStatus"
    /\ Answered(i)
    /\ Post(Reply(i, TRUE,
                [status |-> IF a.status = "none" THEN "idle" ELSE a.status,
                 mode |-> a.mode, model |-> a.model]))
    /\ agents' = [agents EXCEPT ![c].unheard = @ /\ calls[i].page # reloads]

MainTakes(i) ==
    /\ NextSent(i)
    /\ TakeInitialize(i) \/ TakeSend(i) \/ TakeSetting(i) \/ TakeConfirm(i)
       \/ TakeStop(i) \/ TakeGetStatus(i)
    /\ MainUnchanged

(* The answer of "initialize": the transport is initialized, and the agent *)
(* may have modes; acp-initialize goes on to create the session.           *)
AgentInitialized(i, mode) ==
    LET c == calls[i].conversation IN
    /\ calls[i].phase = "handling" /\ calls[i].kind = "initialize"
    /\ agents[c].status # "none" /\ ~agents[c].up
    /\ agents' = [agents EXCEPT ![c].up = TRUE, ![c].mode = mode]
    /\ Post(IF mode = NoMode THEN <<>> ELSE <<Event(c, "config_option", mode)>>)
    /\ UNCHANGED calls /\ MainUnchanged

(* The agent answers what a call waits for, or it fails or times out.      *)
AgentAnswers(i, ok) ==
    LET c == calls[i].conversation
        a == agents[c]
        kind == calls[i].kind
    IN
    /\ calls[i].phase = "handling"
    /\ a.status # "none"
    /\ \/ /\ kind = "initialize" /\ ok => a.up
          /\ agents' = [agents EXCEPT ![c].status = IF ok THEN "connected" ELSE "error"]
          /\ Answered(i)
          /\ Post(<<Event(c, "status", agents'[c].status)>> \o Reply(i, ok, NoMode))
       \/ /\ kind = "send"
          /\ agents' = [agents EXCEPT
                ![c].status = IF ok /\ @ = "running" THEN "finished" ELSE @,
                ![c].stuck = @ \/ ~ok]
          /\ Answered(i)
          /\ Post((IF ok /\ a.status = "running"
                   THEN <<Event(c, "status", "finished")>> ELSE <<>>)
                  \o Reply(i, ok, NoMode))
       \/ kind \notin {"initialize", "send"} /\ ok /\ Applied(i)
       \/ /\ kind \notin {"initialize", "send"} /\ ~ok
          /\ Answered(i) /\ Post(Reply(i, FALSE, NoMode)) /\ UNCHANGED agents
    /\ MainUnchanged

(* After a stop the rejected calls answer; a rejected initialize reports   *)
(* "error", or "connected" if only session/set_mode was still waiting.     *)
AgentGone(i) ==
    LET c == calls[i].conversation IN
    /\ calls[i].phase = "handling" /\ agents[c].status = "none"
    /\ Answered(i) /\ UNCHANGED agents
    /\ \E ok \in IF calls[i].kind = "initialize" THEN BOOLEAN ELSE {FALSE} :
          Post((IF calls[i].kind = "initialize"
                THEN <<Event(c, "status", IF ok THEN "connected" ELSE "error")>>
                ELSE <<>>) \o Reply(i, ok, NoMode))
    /\ MainUnchanged

AgentAsks(c, callId) ==
    LET a == agents[c]
        p == [id |-> a.asked + 1, callId |-> callId]
    IN
    /\ a.up /\ a.asked < MaxPermissions
    /\ agents' = [agents EXCEPT
          ![c] = [a EXCEPT !.asked = @ + 1, !.confirmations = Append(@, p)]]
    /\ Post(<<Event(c, "tool_permission", p)>>)
    /\ UNCHANGED calls /\ MainUnchanged

(* A model in the answer of session/new or in a notification, and options  *)
(* in a config_option_update, are announced.                               *)
AgentReports(c, model) ==
    /\ agents[c].up /\ agents[c].reports < MaxReports
    /\ agents' = [agents EXCEPT
          ![c] = [@ EXCEPT !.model = model, !.reports = @ + 1, !.unheard = FALSE]]
    /\ Post(<<Event(c, "agent_info", model)>>)
    /\ UNCHANGED calls /\ MainUnchanged

AgentFinishes(c) ==
    /\ agents[c].up /\ agents[c].status = "running"
    /\ agents' = [agents EXCEPT ![c].status = "finished", ![c].stuck = FALSE]
    /\ Post(<<Event(c, "status", "finished")>>)
    /\ UNCHANGED calls /\ MainUnchanged

-----------------------------------------------------------------------------
(* What the page does with its mail *)


(* What main answers, unless it has nothing to say *)
Known(value, own) == IF value = NoMode THEN own ELSE value

(* The rest of initialize, sendMessage, confirmTool, closeSession, stop    *)
(* and the settings, on the runtime as it is when the answer comes.        *)
AfterReply(r, k, msg) ==
    CASE k.kind = "initialize" /\ ~msg.ok ->
            [r EXCEPT !.status = "error", !.live = FALSE,
                      !.resume = "restart-required"]
      [] k.kind = "getStatus" ->
            [r EXCEPT !.status = msg.value.status,
                      !.mode = Known(msg.value.mode, @),
                      !.model = Known(msg.value.model, @)]
      [] k.kind = "send" /\ ~msg.ok -> [r EXCEPT !.status = "error"]
      [] k.kind = "confirm" ->
            [r EXCEPT !.pending = {p \in @ : p.callId # k.arg}]
      [] k.kind = "close" ->
            [r EXCEPT !.status = "archived", !.live = FALSE,
                      !.resume = "archived"]
      [] k.kind = "stop" ->
            [r EXCEPT !.status = "idle", !.live = FALSE,
                      !.resume = "restart-required"]
      [] k.kind \in {"set", "profile"} /\ msg.ok ->
            IF k.arg \in Modes THEN [r EXCEPT !.mode = k.arg]
            ELSE [r EXCEPT !.model = Known(msg.value, @)]
      [] OTHER -> r

(* The known reasons: a turn that failed (main stays "running"), a choice  *)
(* that hides two permission requests of one tool call, a dropped event.   *)
ReplyClouds(r, k, msg) ==
    \/ k.kind = "send" /\ ~msg.ok
    \/ k.kind = "confirm" /\
          Cardinality({p \in r.pending : p.callId = k.arg}) > 1

HandleEvent(msg) ==
    LET c == msg.conversation IN
    /\ msg.to = "listener"
    /\ store' = updateRuntime(store, c, applyAcpEvent(store[c], msg))
    /\ clouded' = IF c \notin DOMAIN store /\ hydration.phase \in {"snapshot", "done"}
                  THEN clouded \cup {c} ELSE clouded
    /\ UNCHANGED <<calls, hydration>>

(* initialize goes on: it reads the status, then applies its profile. *)
NextCall(k, msg) ==
    CASE k.kind = "initialize" /\ msg.ok ->
            <<Request("getStatus", k.conversation, k.arg)>>
      [] k.kind = "getStatus" /\ k.arg # NoMode /\ Offers(msg.value, k.arg) ->
            <<Request("preset", k.conversation, k.arg)>>
      [] OTHER -> <<>>

HandleReply(msg) ==
    LET k == calls[msg.call]
        c == k.conversation
        done == [calls EXCEPT ![msg.call].phase = "done"]
    IN
    /\ msg.to = "call"
    /\ calls' = done \o NextCall(k, msg)
    /\ store' = updateRuntime(store, c, AfterReply(store[c], k, msg))
    /\ clouded' = IF c \in DOMAIN store /\ ReplyClouds(store[c], k, msg)
                  THEN clouded \cup {c} ELSE clouded
    /\ UNCHANGED hydration

(* The answer of acpListRuntimes, kept until ListSessions has answered. *)
HandleSnapshot(msg) ==
    /\ msg.to = "hydrate"
    /\ hydration' = [phase |-> "snapshot", runtimes |-> msg.runtimes]
    /\ UNCHANGED <<store, calls, clouded>>

PageHandles ==
    /\ mail # <<>>
    /\ mail' = Tail(mail)
    /\ HandleEvent(Head(mail)) \/ HandleReply(Head(mail))
       \/ HandleSnapshot(Head(mail))
    /\ UNCHANGED <<saved, agents, reloads>>

-----------------------------------------------------------------------------
(* Hydration, saving, page loads *)

ListRuntimes ==
    /\ hydration.phase = "no"
    /\ \A i \in DOMAIN calls : calls[i].page # reloads \/ calls[i].phase = "sent"
    /\ \A i \in DOMAIN calls : calls[i].page = reloads \/ calls[i].phase # "sent"
    /\ hydration' = [hydration EXCEPT !.phase = "listed"]
    /\ Post(<<[to |-> "hydrate",
               runtimes |-> [c \in {d \in Conversations :
                                       agents[d].status # "none"} |->
                                [status |-> agents[c].status,
                                 mode |-> agents[c].mode,
                                 model |-> agents[c].model,
                                 confirmations |-> agents[c].confirmations]]]>>)
    \* what was known before the snapshot is no longer of interest
    /\ clouded' = DOMAIN store
    /\ agents' = [c \in Conversations |-> [agents[c] EXCEPT !.unheard = FALSE]]
    /\ UNCHANGED <<store, saved, calls, reloads>>

(* The live runtimes are laid over the stored sessions and replace the     *)
(* store; the confirmations of a live runtime are not taken over.          *)
Hydrate ==
    LET live == hydration.runtimes
        known == saved \cup DOMAIN live
        prior(c) == IF c \in saved THEN storedSessionToRuntime ELSE makeRuntime
    IN
    /\ hydration.phase = "snapshot"
    /\ hydration' = [phase |-> "done", runtimes |-> <<>>]
    /\ store' = [c \in known |->
          IF c \in DOMAIN live
          THEN [prior(c) EXCEPT !.status = live[c].status, !.mode = live[c].mode,
                                !.model = live[c].model, !.live = TRUE,
                                !.resume = "live"]
          ELSE prior(c)]
    /\ clouded' = clouded \cup DOMAIN store
                  \cup {c \in DOMAIN live : live[c].confirmations # <<>>}
    /\ UNCHANGED <<saved, agents, calls, mail, reloads>>

SaveSession(c) ==
    /\ hydration.phase = "done" /\ c \in DOMAIN store \ saved
    /\ saved' = saved \cup {c}
    /\ UNCHANGED <<store, hydration, agents, calls, mail, reloads, clouded>>

(* The page is loaded again: store, mail and the calls' promises are gone. *)
Reload ==
    /\ reloads < MaxReloads
    /\ reloads' = reloads + 1
    /\ store' = <<>> /\ mail' = <<>>
    /\ hydration' = [phase |-> "no", runtimes |-> <<>>]
    /\ calls' = [i \in DOMAIN calls |->
                    IF calls[i].phase = "answered"
                    THEN [calls[i] EXCEPT !.phase = "done"] ELSE calls[i]]
    /\ clouded' = Conversations
    /\ UNCHANGED <<saved, agents>>

-----------------------------------------------------------------------------
Next ==
    \/ \E c \in Conversations :
          \/ \E profile \in Settings \cup {NoMode} : initialize(c, profile)
          \/ sendMessage(c) \/ stop(c) \/ closeSession(c)
          \/ \E callId \in CallIds : confirmTool(c, callId) \/ AgentAsks(c, callId)
          \/ \E setting \in Settings : setMode(c, setting) \/ applyProfile(c, setting)
          \/ \E model \in Models : AgentReports(c, model)
          \/ AgentFinishes(c)
          \/ SaveSession(c)
    \/ \E i \in DOMAIN calls :
          \/ MainTakes(i)
          \/ \E mode \in Modes \cup {NoMode} : AgentInitialized(i, mode)
          \/ \E ok \in BOOLEAN : AgentAnswers(i, ok)
          \/ AgentGone(i)
    \/ PageHandles
    \/ ListRuntimes
    \/ Hydrate
    \/ Reload

Spec == Init /\ [][Next]_vars

(* Main takes and answers its calls (the agent's answer, its timeout or the *)
(* rejection of stop), the page handles its mail, both lists are answered.  *)
Fairness ==
    /\ \A i \in 1 .. MaxCalls :
          /\ WF_vars(i \in DOMAIN calls /\ MainTakes(i))
          /\ WF_vars(i \in DOMAIN calls /\ \E ok \in BOOLEAN : AgentAnswers(i, ok))
          /\ WF_vars(i \in DOMAIN calls /\ AgentGone(i))
    /\ WF_vars(PageHandles) /\ WF_vars(ListRuntimes) /\ WF_vars(Hydrate)

FairSpec == Spec /\ Fairness

-----------------------------------------------------------------------------
(* Properties.  The exceptions they make are the ones the code has: see    *)
(* ReplyClouds, HandleEvent and Hydrate.                                   *)

Quiet ==
    /\ hydration.phase = "done" /\ mail = <<>>
    /\ \A i \in DOMAIN calls : calls[i].phase = "done"

Shown == {c \in DOMAIN store \ clouded : store[c].live}

(* When nothing is under way, a session the page shows as live has an      *)
(* agent, and its status, mode and model are the agent's, although the     *)
(* page sets them ahead of its calls, after their answers and on events,   *)
(* and a page load puts together two lists taken at different times.  Not  *)
(* so for a model that was set by the call of an earlier page after this   *)
(* page's list, or by the profile of initialize: nothing announces it.     *)
StatusAgrees ==
    Quiet => \A c \in Shown :
        /\ agents[c].status # "none"
        /\ store[c].status = agents[c].status
        /\ agents[c].mode # NoMode => store[c].mode = agents[c].mode
        /\ agents[c].model # NoMode /\ ~agents[c].unheard =>
              store[c].model = agents[c].model

(* When nothing is under way, the permission requests of a live session    *)
(* that its agent waits for are exactly those the user is asked about.     *)
PermissionsAgree ==
    Quiet => \A c \in Shown :
        store[c].pending = Range(agents[c].confirmations)

(* A session that is shown as running, which disables the input, does not  *)
(* stay so, unless the manager itself is stuck or a reason is known.       *)
RunningEnds ==
    \A c \in Conversations :
        (c \in Shown /\ store[c].status = "running")
            ~> ( \/ c \notin Shown \/ agents[c].stuck
                 \/ store[c].status # "running")
=============================================================================
