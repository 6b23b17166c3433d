------------------------- MODULE MainProcessProofs --------------------------
(***************************************************************************)
(* Proofs about the Electron main process, for any value of the constants. *)
(*                                                                         *)
(* AcpAgent: no agent's process is forgotten, "running" has a turn behind  *)
(* it, a waiting call has its entry in pending, and a permission request   *)
(* is answered once.  The invariant is stated of values, Holds(am, ms,     *)
(* ks): acp-initialize and acp-stop change managers and calls in two steps *)
(* of one callback.                                                        *)
(*                                                                         *)
(* WaveWindow: what an open window lists and shows are live views, and it  *)
(* shows its workspace's active tab or is on its way there.  WindowInv is  *)
(* what every action keeps of windows, views, their cache and the calls    *)
(* between their awaits; ActiveInv adds, of each window, where its action  *)
(* in process leads.                                                       *)
(***************************************************************************)
EXTENDS AcpAgent, WaveWindow, SequenceTheorems, TLAPS

-----------------------------------------------------------------------------
(* AcpAgent *)

AskedRec == [state : {"no", "asked", "late", "dropped"}, callId : CallIds \cup {"none"}, answers : Nat]
MgrRec ==
  [conversation : Conversations,
   status : {"idle", "connecting", "connected", "running", "finished", "error"},
   transport : {"none", "open", "gone"}, initialized : BOOLEAN, session : BOOLEAN,
   confirmations : Seq(Permissions), lastId : Nat, pending : SUBSET Nat,
   forceKill : BOOLEAN \cup {Detached}, child : {"none", "running", "terminating", "exited"},
   inbox : SUBSET Nat, asked : [Permissions -> AskedRec]]
CallRec == [kind : IpcKinds, manager : Nat, stage : Stages \cup {"done", "failed"}, request : Nat,
            result : {"wait", "ok", "error"}]

\* The agents' processes and the managers the conversations are registered with.
Registry(am, ms) ==
  \A c \in Conversations : am[c] # 0 => am[c] \in 1 .. Len(ms) /\ ms[am[c]].conversation = c
Reachable(am, m, r) == r.child = "running" => am[r.conversation] = m /\ r.transport = "open"

\* The permission requests of a manager: those in line are there once and open,
\* and what was asked while the transport was open is in line or answered.
InLine(r, p) == \E i \in 1 .. Len(r.confirmations) : r.confirmations[i] = p
Perms(r) ==
  /\ \A i, j \in 1 .. Len(r.confirmations) : r.confirmations[i] = r.confirmations[j] => i = j
  /\ \A i \in 1 .. Len(r.confirmations) : r.asked[r.confirmations[i]].state \in {"asked", "late"}
  /\ \A p \in Permissions : r.asked[p].state = "asked" =>
       IF InLine(r, p) THEN r.asked[p].answers = 0 /\ r.transport = "open" ELSE r.asked[p].answers = 1

\* A call that waits for a request or has just got its result.
Pends(k) == InFlight(k) /\ k.stage # "token"
CallPlace(ms, k) ==
  /\ k.manager \in 1 .. Len(ms)
  /\ k.kind = "send" => k.stage # "option"
  /\ Pends(k) => /\ k.request \in 1 .. ms[k.manager].lastId
                 /\ k.request \in ms[k.manager].pending <=> k.result = "wait"
Apart(ks) ==
  \A i, j \in 1 .. Len(ks) :
    i # j /\ Pends(ks[i]) /\ Pends(ks[j]) /\ ks[i].manager = ks[j].manager => ks[i].request # ks[j].request

TurnOf(ks, m) ==
  \E i \in 1 .. Len(ks) :
    ks[i].manager = m /\ ks[i].kind = "send" /\ (InFlight(ks[i]) \/ ks[i].stage = "failed")

MgrPlace(am, m, r) == Reachable(am, m, r) /\ r.pending \subseteq 1 .. r.lastId /\ Perms(r)

Holds(am, ms, ks) ==
  /\ am \in [Conversations -> Nat] /\ ms \in Seq(MgrRec) /\ ks \in Seq(CallRec)
  /\ Registry(am, ms)
  /\ \A m \in 1 .. Len(ms) : MgrPlace(am, m, ms[m])
  /\ \A i \in 1 .. Len(ks) : CallPlace(ms, ks[i])
  /\ Apart(ks)
  /\ \A m \in 1 .. Len(ms) : ms[m].status = "running" => TurnOf(ks, m)

Inv == Holds(agentManagers, managers, ipcCalls)

-----------------------------------------------------------------------------
(* Records. *)

LEMMA PermsSame ==
  ASSUME NEW r, NEW s, Perms(r), s.confirmations = r.confirmations, s.asked = r.asked,
         s.transport = r.transport
  PROVE  Perms(s)
BY DEF Perms, InLine

\* What the functions of a call do to its manager and to the call.
Same(r, s) ==
  /\ s.conversation = r.conversation /\ s.transport = r.transport /\ s.child = r.child
  /\ s.confirmations = r.confirmations /\ s.asked = r.asked
StepOf(r, k, s) ==
  /\ s.mgr \in MgrRec /\ s.call \in CallRec /\ Same(r, s.mgr)
  /\ s.mgr.status = r.status \/ s.mgr.status # "running"
  /\ s.call.kind = k.kind /\ s.call.manager = k.manager /\ s.call.result = "wait"
  /\ k.kind = "send" => s.call.stage # "option" /\ (s.call.stage = "done" => s.mgr.status # "running")
  /\ \/ ~Pends(s.call) /\ s.mgr.lastId = r.lastId /\ s.mgr.pending = r.pending
     \/ /\ s.mgr.lastId = r.lastId + 1 /\ s.mgr.pending = r.pending \cup {r.lastId + 1}
        /\ s.call.request = r.lastId + 1

LEMMA FailedStep ==
  ASSUME NEW r \in MgrRec, NEW k \in CallRec
  PROVE  StepOf(r, k, Failed(r, k)) /\ Failed(r, k).call.stage = "failed"
BY DEF StepOf, Same, Failed, Ended, MgrRec, CallRec, IpcKinds, Stages, Pends, InFlight

LEMMA SentStep ==
  ASSUME NEW r \in MgrRec, NEW k \in CallRec, NEW stage \in Stages, k.kind = "send" => stage # "option"
  PROVE  StepOf(r, k, Sent(r, k, stage)) /\ Sent(r, k, stage).call.stage = stage
<1>0. PICK s : s = SendRequest(r)
  OBVIOUS
<1>1. r.lastId \in Nat /\ r.pending \in SUBSET Nat /\ r.inbox \in SUBSET Nat
  BY DEF MgrRec
<1>2. PICK n \in Nat : n = r.lastId + 1
  BY <1>1
<1>3. PICK inbox \in SUBSET Nat :
        s = [r EXCEPT !.lastId = n, !.pending = r.pending \cup {n}, !.inbox = inbox]
  <2>1. r.inbox \cup {n} \in SUBSET Nat
    BY <1>1, <1>2
  <2> QED BY <1>0, <1>1, <1>2, <2>1 DEF SendRequest
<1>4. r.pending \cup {n} \in SUBSET Nat
  BY <1>1, <1>2
<1>5. /\ s \in MgrRec /\ s.lastId = n /\ s.pending = r.pending \cup {n} /\ s.status = r.status
      /\ Same(r, s)
  BY <1>2, <1>3, <1>4 DEF MgrRec, Same
<1>6. PICK w : w = Waiting(k, stage, s)
  OBVIOUS
<1>7. /\ w \in CallRec /\ w.kind = k.kind /\ w.manager = k.manager /\ w.result = "wait"
      /\ w.stage = stage /\ w.request = n
  BY <1>5, <1>6 DEF Waiting, CallRec
<1>8. stage # "done"
  BY DEF Stages
<1>9. Sent(r, k, stage) = [mgr |-> s, call |-> w]
  BY <1>0, <1>6 DEF Sent
<1> QED BY <1>2, <1>5, <1>7, <1>8, <1>9 DEF StepOf

LEMMA AfterSessionStep ==
  ASSUME NEW r \in MgrRec, NEW k \in CallRec
  PROVE  StepOf(r, k, AfterSession(r, k))
<1>1. CASE k.kind = "initialize"
  BY <1>1 DEF AfterSession, StepOf, Same, Ended, MgrRec, CallRec, IpcKinds, Stages, Pends, InFlight
<1>2. CASE k.kind = "send" /\ r.transport = "open"
  <2>1. AfterSession(r, k) = Sent(r, k, "prompt")
    BY <1>2 DEF AfterSession
  <2> QED BY <2>1, SentStep DEF Stages
<1>3. CASE k.kind # "initialize" /\ ~(k.kind = "send" /\ r.transport = "open")
  <2>1. AfterSession(r, k) = Failed(r, k)
    BY <1>3 DEF AfterSession
  <2> QED BY <2>1, FailedStep
<1> QED BY <1>1, <1>2, <1>3

LEMMA RequestSessionStep ==
  ASSUME NEW r \in MgrRec, NEW k \in CallRec
  PROVE  StepOf(r, k, RequestSession(r, k))
BY SentStep, FailedStep DEF RequestSession, Stages

LEMMA EnsureSessionStep ==
  ASSUME NEW r \in MgrRec, NEW k \in CallRec, NEW s \in EnsureSession(r, k)
  PROVE  StepOf(r, k, s)
<1>1. PICK t : t = [mgr |-> r, call |-> [k EXCEPT !.stage = "token", !.result = "wait", !.request = 0]]
  OBVIOUS
<1>2. StepOf(r, k, t)
  BY <1>1 DEF StepOf, Same, CallRec, Stages, Pends, InFlight
<1>3. s = AfterSession(r, k) \/ s = t \/ s = RequestSession(r, k)
  BY <1>1 DEF EnsureSession
<1> QED BY <1>2, <1>3, AfterSessionStep, RequestSessionStep

\* ensureSession has not ended yet, unless the call is acp-initialize.
LEMMA EnsureSessionWaits ==
  ASSUME NEW r \in MgrRec, NEW k \in CallRec, k.kind = "send", NEW s \in EnsureSession(r, k)
  PROVE  InFlight(s.call) \/ s.call.stage = "failed"
<1>1. \/ s = AfterSession(r, k) \/ s = RequestSession(r, k)
      \/ s.call = [k EXCEPT !.stage = "token", !.result = "wait", !.request = 0]
  BY DEF EnsureSession
<1>2. AfterSession(r, k) = Sent(r, k, "prompt") \/ AfterSession(r, k) = Failed(r, k)
  BY DEF AfterSession
<1>3. RequestSession(r, k) = Sent(r, k, "session") \/ RequestSession(r, k) = Failed(r, k)
  BY DEF RequestSession
<1>4. /\ Sent(r, k, "prompt").call.stage = "prompt" /\ Sent(r, k, "session").call.stage = "session"
      /\ Failed(r, k).call.stage = "failed"
  BY SentStep, FailedStep DEF Stages
<1>5. CASE s.call = [k EXCEPT !.stage = "token", !.result = "wait", !.request = 0]
  BY <1>5 DEF CallRec, InFlight, Stages
<1> QED BY <1>1, <1>2, <1>3, <1>4, <1>5 DEF InFlight, Stages

LEMMA ResumedStep ==
  ASSUME NEW r \in MgrRec, NEW k \in CallRec, k.kind = "send" => k.stage # "option",
         InFlight(k), NEW s \in Resumed(r, k)
  PROVE  StepOf(r, k, s)
<1>1. CASE k.stage = "setMode"
  <2>1. s = AfterSession(r, k)
    BY <1>1 DEF Resumed
  <2> QED BY <2>1, AfterSessionStep
<1>2. CASE k.stage # "setMode" /\ k.result = "error"
  <2>1. s = Failed(r, k)
    BY <1>2, Zenon DEF Resumed
  <2> QED BY <2>1, FailedStep
<1>3. CASE k.stage = "init" /\ k.result # "error"
  BY <1>3, EnsureSessionStep DEF Resumed
<1>4. CASE k.stage = "token" /\ k.result # "error"
  BY <1>4, RequestSessionStep DEF Resumed
<1>5. CASE k.stage = "session" /\ k.result # "error"
  <2>1. PICK t : t = [r EXCEPT !.session = TRUE]
    OBVIOUS
  <2>2. /\ t \in MgrRec /\ Same(r, t) /\ t.status = r.status /\ t.lastId = r.lastId
        /\ t.pending = r.pending
    BY <2>1 DEF MgrRec, Same
  <2>3. s = AfterSession(t, k) \/ s = Sent(t, k, "setMode")
    BY <1>5, <2>1 DEF Resumed
  <2>4. StepOf(t, k, s)
    BY <2>2, <2>3, AfterSessionStep, SentStep DEF Stages
  <2> QED BY <2>2, <2>4 DEF StepOf, Same
<1>6. CASE k.stage = "prompt" /\ k.result # "error"
  <2>1. s = AfterPrompt(r, k)
    BY <1>6 DEF Resumed
  <2> QED BY <2>1 DEF AfterPrompt, Ended, StepOf, Same, MgrRec, CallRec, Stages, Pends, InFlight
<1>7. CASE k.stage = "option" /\ k.result # "error"
  <2>1. s = [mgr |-> r, call |-> Ended(k, "done")] /\ k.kind # "send"
    BY <1>7 DEF Resumed
  <2> QED BY <2>1 DEF Ended, StepOf, Same, CallRec, Stages, Pends, InFlight
<1> QED BY <1>1, <1>2, <1>3, <1>4, <1>5, <1>6, <1>7 DEF InFlight, Stages


-----------------------------------------------------------------------------
(* Values. *)

\* A manager that sends nothing: it may settle requests and end.
Follows(r, s) ==
  /\ s \in MgrRec /\ s.conversation = r.conversation /\ s.lastId = r.lastId
  /\ s.pending \subseteq r.pending
  /\ s.status = "running" => r.status = "running"
  /\ s.child = "running" => r.child = "running" /\ s.transport = r.transport
  /\ Perms(s)
Kept(k, l) == l.kind = k.kind /\ l.manager = k.manager /\ l.stage = k.stage /\ l.request = k.request

LEMMA Settles ==
  ASSUME NEW am, NEW ms, NEW ks, Holds(am, ms, ks),
         NEW ms2 \in Seq(MgrRec), NEW ks2 \in Seq(CallRec), Len(ms2) = Len(ms), Len(ks2) = Len(ks),
         \A m \in 1 .. Len(ms) : Follows(ms[m], ms2[m]),
         \A i \in 1 .. Len(ks) :
           /\ Kept(ks[i], ks2[i])
           /\ Pends(ks[i]) =>
                (ks[i].request \in ms2[ks[i].manager].pending <=> ks2[i].result = "wait")
  PROVE  Holds(am, ms2, ks2)
<1>1. Registry(am, ms2)
  BY DEF Holds, Registry, Follows
<1>2. ASSUME NEW m \in 1 .. Len(ms2) PROVE MgrPlace(am, m, ms2[m])
  <2>1. MgrPlace(am, m, ms[m]) /\ Follows(ms[m], ms2[m])
    BY <1>2 DEF Holds
  <2> QED BY <2>1 DEF MgrPlace, Reachable, Follows
<1>3. ASSUME NEW i \in 1 .. Len(ks2) PROVE CallPlace(ms2, ks2[i])
  <2>1. CallPlace(ms, ks[i]) /\ Kept(ks[i], ks2[i])
    BY <1>3 DEF Holds
  <2>2. ks[i].manager \in 1 .. Len(ms2) /\ Follows(ms[ks[i].manager], ms2[ks[i].manager])
    BY <2>1 DEF CallPlace
  <2>3. Pends(ks2[i]) <=> Pends(ks[i])
    BY <2>1 DEF Kept, Pends, InFlight
  <2> QED BY <1>3, <2>1, <2>2, <2>3 DEF CallPlace, Kept, Follows
<1>4. Apart(ks2)
  <2>1. Apart(ks) /\ Len(ks2) = Len(ks)
    BY DEF Holds
  <2>2. ASSUME NEW i \in 1 .. Len(ks)
        PROVE  /\ ks2[i].manager = ks[i].manager /\ ks2[i].request = ks[i].request
               /\ Pends(ks2[i]) <=> Pends(ks[i])
    BY <2>2 DEF Kept, Pends, InFlight
  <2> QED BY ONLY <2>1, <2>2 DEF Apart
<1>5. ASSUME NEW m \in 1 .. Len(ms2), ms2[m].status = "running" PROVE TurnOf(ks2, m)
  <2>1. TurnOf(ks, m)
    BY <1>5 DEF Holds, Follows
  <2> QED BY <2>1 DEF TurnOf, Kept, InFlight
<1> QED BY <1>1, <1>2, <1>3, <1>4, <1>5 DEF Holds

LEMMA OneManager ==
  ASSUME NEW am, NEW ms, NEW ks, Holds(am, ms, ks), NEW m \in 1 .. Len(ms), NEW r, Follows(ms[m], r),
         NEW ks2 \in Seq(CallRec), Len(ks2) = Len(ks),
         \A i \in 1 .. Len(ks) :
           /\ Kept(ks[i], ks2[i])
           /\ ks[i].manager # m => ks2[i].result = ks[i].result
           /\ Pends(ks[i]) /\ ks[i].manager = m => (ks[i].request \in r.pending <=> ks2[i].result = "wait")
  PROVE  Holds(am, [ms EXCEPT ![m] = r], ks2)
<1>1. PICK ms2 : ms2 = [ms EXCEPT ![m] = r]
  OBVIOUS
<1>2. ms \in Seq(MgrRec) /\ r \in MgrRec
  BY DEF Holds, Follows
<1>3. /\ ms2 \in Seq(MgrRec) /\ Len(ms2) = Len(ms) /\ ms2[m] = r
      /\ \A n \in 1 .. Len(ms) : n # m => ms2[n] = ms[n]
  BY <1>1, <1>2, ExceptSeq
<1>4. ASSUME NEW n \in 1 .. Len(ms), n # m PROVE Follows(ms[n], ms2[n])
  <2>1. MgrPlace(am, n, ms[n]) /\ ms[n] \in MgrRec /\ ms2[n] = ms[n]
    BY <1>2, <1>3, <1>4, ElementOfSeq DEF Holds
  <2> QED BY <2>1 DEF Follows, MgrPlace
<1>5. ASSUME NEW i \in 1 .. Len(ks), Pends(ks[i])
      PROVE  ks[i].request \in ms2[ks[i].manager].pending <=> ks2[i].result = "wait"
  <2>1. CallPlace(ms, ks[i])
    BY DEF Holds
  <2> QED BY <1>3, <1>5, <2>1 DEF CallPlace
<1>6. \A n \in 1 .. Len(ms) : Follows(ms[n], ms2[n])
  BY <1>3, <1>4
<1> QED BY <1>1, <1>3, <1>5, <1>6, Settles

\* A step of the manager that settles nothing.
LEMMA ManagerAlone ==
  ASSUME NEW am, NEW ms, NEW ks, Holds(am, ms, ks), NEW m \in 1 .. Len(ms), NEW r, Follows(ms[m], r),
         r.pending = ms[m].pending
  PROVE  Holds(am, [ms EXCEPT ![m] = r], ks)
<1>1. ks \in Seq(CallRec)
  BY DEF Holds
<1>2. ASSUME NEW i \in 1 .. Len(ks) PROVE CallPlace(ms, ks[i])
  BY DEF Holds
<1>3. \A i \in 1 .. Len(ks) :
        Pends(ks[i]) /\ ks[i].manager = m => (ks[i].request \in r.pending <=> ks[i].result = "wait")
  BY <1>2 DEF CallPlace
<1>4. \A i \in 1 .. Len(ks) : Kept(ks[i], ks[i])
  BY DEF Kept
<1> QED BY <1>1, <1>3, <1>4, OneManager

\* The conversations give up managers whose agent has been told to end.
LEMMA Deregister ==
  ASSUME NEW am, NEW ms, NEW ks, Holds(am, ms, ks), NEW am2 \in [Conversations -> Nat],
         \A c \in Conversations :
           am2[c] # am[c] => am2[c] = 0 /\ (am[c] # 0 => ms[am[c]].child # "running")
  PROVE  Holds(am2, ms, ks)
<1>1. Registry(am2, ms)
  BY DEF Holds, Registry
<1>2. ASSUME NEW m \in 1 .. Len(ms) PROVE MgrPlace(am2, m, ms[m])
  <2>1. MgrPlace(am, m, ms[m]) /\ ms[m] \in MgrRec
    BY ElementOfSeq DEF Holds
  <2>2. ms[m].conversation \in Conversations /\ m # 0
    BY <2>1 DEF MgrRec
  <2> QED BY <2>1, <2>2 DEF MgrPlace, Reachable
<1> QED BY <1>1, <1>2 DEF Holds

\* One call takes a step with its manager: call i of ks2 is new or has moved.
Takes(ms, ks, m, r, l, ks2, i) ==
  /\ m \in 1 .. Len(ms) /\ r \in MgrRec /\ Same(ms[m], r)
  /\ l \in CallRec /\ l.manager = m /\ l.result = "wait" /\ (l.kind = "send" => l.stage # "option")
  /\ \/ ~Pends(l) /\ r.lastId = ms[m].lastId /\ r.pending = ms[m].pending
     \/ /\ r.lastId = ms[m].lastId + 1 /\ r.pending = ms[m].pending \cup {ms[m].lastId + 1}
        /\ l.request = ms[m].lastId + 1
  /\ ks2 \in Seq(CallRec) /\ i \in 1 .. Len(ks2) /\ ks2[i] = l
  /\ \A j \in 1 .. Len(ks2) : j # i => j \in 1 .. Len(ks) /\ ks2[j] = ks[j]
  /\ \A j \in 1 .. Len(ks) : j # i => j \in 1 .. Len(ks2)
  /\ i \in 1 .. Len(ks) => ks[i].manager = m
  /\ r.status = "running" => TurnOf(ks2, m)

LEMMA OneCall ==
  ASSUME NEW am, NEW ms, NEW ks, NEW m, NEW r, NEW l, NEW ks2, NEW i,
         Holds(am, ms, ks), Takes(ms, ks, m, r, l, ks2, i)
  PROVE  Holds(am, [ms EXCEPT ![m] = r], ks2)
<1> USE DEF Takes
<1>1. PICK ms2 : ms2 = [ms EXCEPT ![m] = r]
  OBVIOUS
<1>2. /\ am \in [Conversations -> Nat] /\ ms \in Seq(MgrRec) /\ ks \in Seq(CallRec)
      /\ ms[m] \in MgrRec /\ MgrPlace(am, m, ms[m])
  BY ElementOfSeq DEF Holds
<1>3. /\ ms2 \in Seq(MgrRec) /\ Len(ms2) = Len(ms) /\ ms2[m] = r
      /\ \A n \in 1 .. Len(ms) : n # m => ms2[n] = ms[n]
  BY <1>1, <1>2, ExceptSeq
<1>4. ms[m].lastId \in Nat /\ ms[m].pending \subseteq 1 .. ms[m].lastId
  BY <1>2 DEF MgrRec, MgrPlace
<1>5. Registry(am, ms2)
  <2>1. Registry(am, ms) /\ r.conversation = ms[m].conversation
    BY DEF Holds, Same
  <2> HIDE DEF Takes
  <2>2. \A n \in 1 .. Len(ms) : ms2[n].conversation = ms[n].conversation
    BY <1>3, <2>1
  <2> QED BY <1>3, <2>1, <2>2 DEF Registry
<1>6. ASSUME NEW n \in 1 .. Len(ms2) PROVE MgrPlace(am, n, ms2[n])
  <2>1. CASE n # m
    BY <1>3, <1>6, <2>1 DEF Holds
  <2>2. CASE n = m
    <3>1. Reachable(am, m, r) /\ Perms(r)
      BY <1>2, PermsSame DEF MgrPlace, Same, Reachable
    <3>2. r.pending \subseteq 1 .. r.lastId
      BY <1>4
    <3> QED BY <1>3, <2>2, <3>1, <3>2 DEF MgrPlace
  <2> QED BY <2>1, <2>2
<1>7. ASSUME NEW j \in 1 .. Len(ks2), j # i
      PROVE  /\ CallPlace(ms2, ks2[j])
             /\ Pends(ks2[j]) /\ ks2[j].manager = m => ks2[j].request \in 1 .. ms[m].lastId
  <2>1. j \in 1 .. Len(ks) /\ ks2[j] = ks[j] /\ CallPlace(ms, ks[j])
    BY <1>7 DEF Holds
  <2>2. CASE ks[j].manager # m
    BY <1>3, <2>1, <2>2 DEF CallPlace
  <2>3. CASE ks[j].manager = m
    <3>1. Pends(ks[j]) => /\ ks[j].request \in 1 .. ms[m].lastId
                          /\ ks[j].request \in ms[m].pending <=> ks[j].result = "wait"
      BY <2>1, <2>3 DEF CallPlace
    <3>2. Pends(ks[j]) => /\ ks[j].request \in 1 .. r.lastId
                          /\ ks[j].request \in r.pending <=> ks[j].result = "wait"
      BY <1>4, <3>1
    <3> QED BY <1>3, <2>1, <2>3, <3>1, <3>2 DEF CallPlace
  <2> QED BY <2>2, <2>3
<1>8. CallPlace(ms2, l)
  <2>1. Pends(l) => l.request \in 1 .. r.lastId /\ l.request \in r.pending
    BY <1>4
  <2> QED BY <1>3, <2>1 DEF CallPlace
<1>9. Apart(ks2)
  <2>1. ASSUME NEW j \in 1 .. Len(ks2), j # i, Pends(ks2[j]), Pends(l), ks2[j].manager = m
        PROVE  ks2[j].request # l.request
    BY <1>4, <1>7, <2>1
  <2>2. ASSUME NEW j \in 1 .. Len(ks2), NEW n \in 1 .. Len(ks2), j # i, n # i, j # n,
               Pends(ks2[j]), Pends(ks2[n]), ks2[j].manager = ks2[n].manager
        PROVE  ks2[j].request # ks2[n].request
    BY <2>2 DEF Holds, Apart
  <2> QED BY <2>1, <2>2 DEF Apart
<1>10. ASSUME NEW n \in 1 .. Len(ms2), ms2[n].status = "running" PROVE TurnOf(ks2, n)
  <2>1. CASE n = m
    BY <1>3, <1>10, <2>1
  <2>2. CASE n # m
    <3>1. n \in 1 .. Len(ms) /\ ms[n].status = "running"
      BY <1>3, <1>10, <2>2
    <3>2. \A k \in 1 .. Len(ms) : ms[k].status = "running" => TurnOf(ks, k)
      BY DEF Holds
    <3>3. PICK j \in 1 .. Len(ks) : /\ ks[j].manager = n /\ ks[j].kind = "send"
                                    /\ InFlight(ks[j]) \/ ks[j].stage = "failed"
      BY ONLY <3>1, <3>2 DEF TurnOf
    <3>4. j # i
      BY <2>2, <3>3
    <3>5. j \in 1 .. Len(ks2) /\ ks2[j] = ks[j]
      BY <3>4
    <3> QED BY ONLY <3>3, <3>5 DEF TurnOf
  <2> QED BY <2>1, <2>2
<1> QED BY <1>1, <1>2, <1>3, <1>5, <1>6, <1>7, <1>8, <1>9, <1>10 DEF Holds


-----------------------------------------------------------------------------
(* stop, and the calls whose requests it rejects. *)

LEMMA AskedField ==
  ASSUME NEW r \in MgrRec, NEW p \in Permissions
  PROVE  r.asked \in [Permissions -> AskedRec] /\ r.asked[p] \in AskedRec /\ r.asked[p].answers \in Nat
BY DEF MgrRec, AskedRec

LEMMA AnswerFields ==
  ASSUME NEW reqs \in [Permissions -> AskedRec], NEW ps
  PROVE  /\ Answer(reqs, ps) \in [Permissions -> AskedRec]
         /\ \A p \in Permissions :
              /\ Answer(reqs, ps)[p].state = reqs[p].state
              /\ p \in ps => Answer(reqs, ps)[p].answers = reqs[p].answers + 1
              /\ p \notin ps => Answer(reqs, ps)[p] = reqs[p]
<1>1. ASSUME NEW p \in Permissions
      PROVE  LET a == IF p \in ps THEN [reqs[p] EXCEPT !.answers = @ + 1] ELSE reqs[p]
             IN  /\ a \in AskedRec /\ a.state = reqs[p].state
                 /\ p \in ps => a.answers = reqs[p].answers + 1
                 /\ p \notin ps => a = reqs[p]
  <2>1. reqs[p] \in AskedRec
    OBVIOUS
  <2>2. reqs[p].answers \in Nat
    BY <2>1 DEF AskedRec
  <2>3. reqs[p].answers + 1 \in Nat
    BY <2>2
  <2> QED BY <2>1, <2>3 DEF AskedRec
<1> QED BY <1>1 DEF Answer

Stopped(r, s) ==
  /\ Follows(r, s) /\ s.child # "running" /\ s.transport # "open"
  /\ s.pending = IF r.transport = "open" THEN {} ELSE r.pending

LEMMA StopFields ==
  ASSUME NEW r \in MgrRec, Perms(r), r.child = "running" => r.transport = "open"
  PROVE  Stopped(r, Stop(r))
<1>1. PICK reset : reset = [r EXCEPT !.session = FALSE, !.confirmations = <<>>, !.status = "idle"]
  OBVIOUS
<1>2. PICK s : s = Stop(r)
  OBVIOUS
<1>3. <<>> \in Seq(Permissions) /\ Len(<<>>) = 0
  OBVIOUS
<1>4. /\ reset \in MgrRec /\ reset.conversation = r.conversation /\ reset.lastId = r.lastId
      /\ reset.pending = r.pending /\ reset.status = "idle" /\ reset.child = r.child
      /\ reset.transport = r.transport /\ reset.asked = r.asked /\ reset.confirmations = <<>>
  BY <1>1, <1>3 DEF MgrRec
<1>5. r.confirmations \in Seq(Permissions)
  BY DEF MgrRec
<1>6. ASSUME NEW p \in Permissions
      PROVE  InLine(r, p) <=> p \in Range(r.confirmations)
  <2>1. DOMAIN r.confirmations = 1 .. Len(r.confirmations)
    BY <1>5
  <2> QED BY <2>1 DEF InLine, Range
<1>7. CASE r.transport = "open"
  <2>1. PICK reqs : reqs = Answer(r.asked, Range(r.confirmations))
    OBVIOUS
  <2>2. /\ reqs \in [Permissions -> AskedRec]
        /\ \A p \in Permissions :
              /\ reqs[p].state = r.asked[p].state
              /\ InLine(r, p) => reqs[p].answers = r.asked[p].answers + 1
              /\ ~InLine(r, p) => reqs[p] = r.asked[p]
    BY <1>6, <2>1, AnswerFields DEF MgrRec
  <2>3. PICK child : child = IF r.child = "running" THEN "terminating" ELSE r.child
    OBVIOUS
  <2>4. child \in {"none", "terminating", "exited"}
    BY <2>3 DEF MgrRec
  <2>5. s = [[reset EXCEPT !.pending = {}, !.child = child, !.forceKill = Detached]
                EXCEPT !.transport = "gone", !.asked = reqs]
    BY <1>1, <1>2, <1>4, <1>7, <2>1, <2>3 DEF Stop, Kill
  <2>6. /\ s \in MgrRec /\ s.conversation = r.conversation /\ s.lastId = r.lastId /\ s.pending = {}
        /\ s.status = "idle" /\ s.child = child /\ s.transport = "gone" /\ s.asked = reqs
        /\ s.confirmations = <<>>
    BY <1>4, <2>2, <2>4, <2>5 DEF MgrRec
  <2>7. ASSUME NEW p \in Permissions, s.asked[p].state = "asked" PROVE s.asked[p].answers = 1
    BY <2>2, <2>6, <2>7 DEF Perms
  <2>8. Perms(s)
    BY <1>3, <2>6, <2>7 DEF Perms, InLine
  <2> QED BY <1>2, <1>7, <2>4, <2>6, <2>8 DEF Stopped, Follows
<1>8. CASE r.transport # "open"
  <2>1. s = reset
    BY <1>1, <1>2, <1>8 DEF Stop
  <2>2. ASSUME NEW p \in Permissions, s.asked[p].state = "asked" PROVE s.asked[p].answers = 1
    BY <1>4, <1>8, <2>1, <2>2 DEF Perms
  <2>3. Perms(s)
    BY <1>3, <1>4, <2>1, <2>2 DEF Perms, InLine
  <2> QED BY <1>2, <1>4, <1>8, <2>1, <2>3 DEF Stopped, Follows
<1> QED BY <1>7, <1>8

LEMMA StopTwice ==
  ASSUME NEW r \in MgrRec, Perms(r), r.child = "running" => r.transport = "open"
  PROVE  Stopped(r, Stop(Stop(r)))
<1>1. PICK s : s = Stop(r)
  OBVIOUS
<1>2. Stopped(r, s) /\ s \in MgrRec /\ Perms(s) /\ s.child # "running"
  BY <1>1, StopFields DEF Stopped, Follows
<1>3. Stopped(s, Stop(s))
  BY <1>2, StopFields
<1> QED BY <1>1, <1>2, <1>3 DEF Stopped, Follows

LEMMA SettleFields ==
  ASSUME NEW ks \in Seq(CallRec), NEW m, NEW ids, NEW result \in {"ok", "error"}
  PROVE  /\ Settle(ks, m, ids, result) \in Seq(CallRec)
         /\ Len(Settle(ks, m, ids, result)) = Len(ks)
         /\ \A i \in 1 .. Len(ks) :
              LET l == Settle(ks, m, ids, result)[i] IN
              /\ l \in CallRec /\ Kept(ks[i], l)
              /\ l.result = IF /\ ks[i].manager = m /\ Pends(ks[i])
                               /\ ks[i].result = "wait" /\ ks[i].request \in ids
                            THEN result ELSE ks[i].result
<1>1. PICK n \in Nat : n = Len(ks)
  OBVIOUS
<1>2. DOMAIN ks = 1 .. n
  BY <1>1
<1>3. PICK ks2 : ks2 = Settle(ks, m, ids, result)
  OBVIOUS
<1>4. ASSUME NEW i \in 1 .. n
      PROVE  /\ ks2[i] \in CallRec /\ Kept(ks[i], ks2[i])
             /\ ks2[i].result = IF /\ ks[i].manager = m /\ Pends(ks[i])
                                   /\ ks[i].result = "wait" /\ ks[i].request \in ids
                                THEN result ELSE ks[i].result
  <2>1. ks[i] \in CallRec
    BY <1>1, ElementOfSeq
  <2>2. \/ ks2[i] = ks[i] /\ ~(/\ ks[i].manager = m /\ Pends(ks[i])
                               /\ ks[i].result = "wait" /\ ks[i].request \in ids)
        \/ /\ ks2[i] = [ks[i] EXCEPT !.result = result]
           /\ ks[i].manager = m /\ Pends(ks[i]) /\ ks[i].result = "wait" /\ ks[i].request \in ids
    BY <1>2, <1>3 DEF Settle, Pends
  <2> QED BY <2>1, <2>2 DEF CallRec, Kept
<1>5. ks2 \in [1 .. n -> CallRec]
  BY <1>2, <1>3, <1>4 DEF Settle
<1>6. ks2 \in Seq(CallRec) /\ Len(ks2) = n
  BY <1>5, SeqDef
<1> QED BY <1>1, <1>3, <1>4, <1>6

\* The calls as kill leaves them.
LEMMA StopCallsFields ==
  ASSUME NEW ks \in Seq(CallRec), NEW m, NEW r
  PROVE  /\ StopCalls(ks, m, r) \in Seq(CallRec) /\ Len(StopCalls(ks, m, r)) = Len(ks)
         /\ \A i \in 1 .. Len(ks) :
              LET l == StopCalls(ks, m, r)[i] IN
              /\ l \in CallRec /\ Kept(ks[i], l)
              /\ l.result = IF /\ r.transport = "open" /\ ks[i].manager = m /\ Pends(ks[i])
                               /\ ks[i].result = "wait" /\ ks[i].request \in r.pending
                            THEN "error" ELSE ks[i].result
<1>1. CASE r.transport = "open"
  <2>1. StopCalls(ks, m, r) = Settle(ks, m, r.pending, "error")
    BY <1>1 DEF StopCalls
  <2> QED BY <1>1, <2>1, SettleFields
<1>2. CASE r.transport # "open"
  <2>1. StopCalls(ks, m, r) = ks
    BY <1>2 DEF StopCalls
  <2> QED BY <1>2, <2>1, ElementOfSeq DEF Kept
<1> QED BY <1>1, <1>2

LEMMA StopsOne ==
  ASSUME NEW am, NEW ms, NEW ks, Holds(am, ms, ks), NEW m \in 1 .. Len(ms), NEW r, Stopped(ms[m], r)
  PROVE  Holds(am, [ms EXCEPT ![m] = r], StopCalls(ks, m, ms[m]))
<1>1. PICK ks2 : ks2 = StopCalls(ks, m, ms[m])
  OBVIOUS
<1>2. ks \in Seq(CallRec)
  BY DEF Holds
<1>3. /\ ks2 \in Seq(CallRec) /\ Len(ks2) = Len(ks)
      /\ \A i \in 1 .. Len(ks) :
           /\ Kept(ks[i], ks2[i])
           /\ ks2[i].result = IF /\ ms[m].transport = "open" /\ ks[i].manager = m /\ Pends(ks[i])
                                 /\ ks[i].result = "wait" /\ ks[i].request \in ms[m].pending
                              THEN "error" ELSE ks[i].result
  BY <1>1, <1>2, StopCallsFields
<1>4. ASSUME NEW i \in 1 .. Len(ks), Pends(ks[i]), ks[i].manager = m
      PROVE  ks[i].request \in r.pending <=> ks2[i].result = "wait"
  <2>1. CallPlace(ms, ks[i])
    BY DEF Holds
  <2>2. ks[i].request \in ms[m].pending <=> ks[i].result = "wait"
    BY <1>4, <2>1 DEF CallPlace
  <2>3. CASE ms[m].transport = "open"
    BY <1>3, <1>4, <2>2, <2>3 DEF Stopped
  <2>4. CASE ms[m].transport # "open"
    BY <1>3, <1>4, <2>2, <2>4 DEF Stopped
  <2> QED BY <2>3, <2>4
<1>5. Follows(ms[m], r)
  BY DEF Stopped
<1> QED BY <1>1, <1>3, <1>4, <1>5, OneManager


-----------------------------------------------------------------------------
(* Permission requests. *)

LEMMA RemoveAtFields ==
  ASSUME NEW S, NEW s \in Seq(S), NEW n \in 1 .. Len(s)
  PROVE  /\ RemoveAt(s, n) \in Seq(S) /\ Len(RemoveAt(s, n)) = Len(s) - 1
         /\ \A i \in 1 .. Len(s) - 1 : RemoveAt(s, n)[i] = IF i < n THEN s[i] ELSE s[i + 1]
<1>1. Len(s) \in Nat /\ \A i \in 1 .. Len(s) : s[i] \in S
  BY ElementOfSeq
<1>2. PICK a : a = SubSeq(s, 1, n - 1)
  OBVIOUS
<1>3. PICK b : b = SubSeq(s, n + 1, Len(s))
  OBVIOUS
<1>4. a \in Seq(S) /\ Len(a) = n - 1 /\ \A i \in 1 .. n - 1 : a[i] = s[i]
  <2>1. /\ n - 1 \in Int /\ 1 \in Int /\ \A i \in 1 .. n - 1 : s[i] \in S
    BY <1>1
  <2>2. /\ SubSeq(s, 1, n - 1) \in Seq(S)
        /\ Len(SubSeq(s, 1, n - 1)) = IF 1 <= n - 1 THEN (n - 1) - 1 + 1 ELSE 0
        /\ \A i \in 1 .. (n - 1) - 1 + 1 : SubSeq(s, 1, n - 1)[i] = s[1 + i - 1]
    BY ONLY <2>1, SubSeqProperties
  <2> QED BY <1>1, <1>2, <2>2
<1>5. b \in Seq(S) /\ Len(b) = Len(s) - n /\ \A i \in 1 .. Len(s) - n : b[i] = s[n + i]
  <2>1. n + 1 \in Int /\ Len(s) \in Int /\ \A i \in n + 1 .. Len(s) : s[i] \in S
    BY <1>1
  <2>2. /\ SubSeq(s, n + 1, Len(s)) \in Seq(S)
        /\ Len(SubSeq(s, n + 1, Len(s))) = IF n + 1 <= Len(s) THEN Len(s) - (n + 1) + 1 ELSE 0
        /\ \A i \in 1 .. Len(s) - (n + 1) + 1 : SubSeq(s, n + 1, Len(s))[i] = s[(n + 1) + i - 1]
    BY ONLY <2>1, SubSeqProperties
  <2> QED BY <1>1, <1>3, <2>2
<1>6. /\ a \o b \in Seq(S) /\ Len(a \o b) = Len(a) + Len(b)
      /\ \A i \in 1 .. Len(a) + Len(b) : (a \o b)[i] = IF i <= Len(a) THEN a[i] ELSE b[i - Len(a)]
  BY <1>4, <1>5, ConcatProperties
<1>7. RemoveAt(s, n) = a \o b
  BY <1>2, <1>3 DEF RemoveAt
<1>8. ASSUME NEW i \in 1 .. Len(s) - 1 PROVE (a \o b)[i] = IF i < n THEN s[i] ELSE s[i + 1]
  <2>1. CASE i < n
    BY <1>1, <1>4, <1>5, <1>6, <2>1
  <2>2. CASE ~(i < n)
    <3>1. PICK j : j = i - (n - 1)
      OBVIOUS
    <3>2. j \in 1 .. Len(s) - n /\ n + j = i + 1
      BY <1>1, <1>8, <2>2, <3>1
    <3>3. i \in 1 .. Len(a) + Len(b) /\ ~(i <= Len(a)) /\ i - Len(a) = j
      BY <1>1, <1>4, <1>5, <1>8, <2>2, <3>1
    <3>4. (a \o b)[i] = b[j] /\ b[j] = s[i + 1]
      BY <1>5, <1>6, <3>2, <3>3
    <3> QED BY <2>2, <3>4
  <2> QED BY <2>1, <2>2
<1>9. Len(a) + Len(b) = Len(s) - 1
  BY <1>1, <1>4, <1>5
<1> QED BY <1>6, <1>7, <1>8, <1>9

\* The choice of the user: the request leaves the line, answered or dropped.
LEMMA ConfirmedPerms ==
  ASSUME NEW r \in MgrRec, Perms(r), NEW n \in 1 .. Len(r.confirmations), NEW s,
         s.transport = r.transport, s.confirmations = RemoveAt(r.confirmations, n),
         \/ s.asked = [r.asked EXCEPT ![r.confirmations[n]].state = "dropped"]
         \/ r.transport = "open" /\ s.asked = Answer(r.asked, {r.confirmations[n]})
         \/ r.transport # "open" /\ s.asked = r.asked
  PROVE  Perms(s) /\ s.confirmations \in Seq(Permissions) /\ s.asked \in [Permissions -> AskedRec]
<1>1. PICK p : p = r.confirmations[n]
  OBVIOUS
<1>2. /\ r.confirmations \in Seq(Permissions) /\ r.asked \in [Permissions -> AskedRec]
      /\ Len(r.confirmations) \in Nat
  BY DEF MgrRec
<1>3. p \in Permissions
  BY <1>1, <1>2, ElementOfSeq
<1>4. /\ s.confirmations \in Seq(Permissions) /\ Len(s.confirmations) = Len(r.confirmations) - 1
      /\ \A i \in 1 .. Len(r.confirmations) - 1 :
           s.confirmations[i] = IF i < n THEN r.confirmations[i] ELSE r.confirmations[i + 1]
  BY <1>2, RemoveAtFields
<1>5. \A i, j \in 1 .. Len(r.confirmations) : r.confirmations[i] = r.confirmations[j] => i = j
  BY DEF Perms
<1>6. \A i, j \in 1 .. Len(s.confirmations) : s.confirmations[i] = s.confirmations[j] => i = j
  <2>1. ASSUME NEW i \in 1 .. Len(s.confirmations)
        PROVE  LET at == IF i < n THEN i ELSE i + 1
               IN  at \in 1 .. Len(r.confirmations) /\ s.confirmations[i] = r.confirmations[at]
    BY <1>2, <1>4, <2>1
  <2>2. ASSUME NEW i \in 1 .. Len(s.confirmations), NEW j \in 1 .. Len(s.confirmations),
               s.confirmations[i] = s.confirmations[j]
        PROVE  i = j
    <3>1. (IF i < n THEN i ELSE i + 1) = (IF j < n THEN j ELSE j + 1)
      BY <1>5, <2>1, <2>2
    <3>2. i \in Nat /\ j \in Nat /\ n \in Nat
      BY <1>2, <1>4, <2>2
    <3> QED BY <3>1, <3>2
  <2> QED BY <2>2
<1>7. ASSUME NEW q \in Permissions
      PROVE  InLine(s, q) <=> InLine(r, q) /\ q # p
  <2>1. ASSUME NEW i \in 1 .. Len(s.confirmations), s.confirmations[i] = q
        PROVE  InLine(r, q) /\ q # p
    <3>1. CASE i < n
      BY <1>1, <1>2, <1>4, <1>5, <2>1, <3>1 DEF InLine
    <3>2. CASE ~(i < n)
      <4>1. i + 1 \in 1 .. Len(r.confirmations) /\ r.confirmations[i + 1] = q /\ i + 1 # n
        BY <1>2, <1>4, <2>1, <3>2
      <4> QED BY <1>1, <1>5, <4>1 DEF InLine
    <3> QED BY <3>1, <3>2
  <2>2. ASSUME NEW i \in 1 .. Len(r.confirmations), r.confirmations[i] = q, q # p
        PROVE  InLine(s, q)
    <3>1. i # n
      BY <1>1, <2>2
    <3>2. CASE i < n
      BY <1>2, <1>4, <2>2, <3>2 DEF InLine
    <3>3. CASE i > n
      <4>1. i - 1 \in 1 .. Len(s.confirmations) /\ s.confirmations[i - 1] = q
        BY <1>2, <1>4, <2>2, <3>3
      <4> QED BY <4>1 DEF InLine
    <3> QED BY <3>1, <3>2, <3>3
  <2> QED BY <2>1, <2>2 DEF InLine
<1>8. /\ s.asked \in [Permissions -> AskedRec]
      /\ \A q \in Permissions : q # p => s.asked[q] = r.asked[q]
      /\ s.asked[p].state = "asked" => s.asked[p].answers = 1
  <2>1. InLine(r, p)
    BY <1>1 DEF InLine
  <2>2. r.asked[p] \in AskedRec
    BY <1>2, <1>3
  <2>3. r.asked[p].state = "asked" => r.asked[p].answers = 0 /\ r.transport = "open"
    BY <1>3, <2>1 DEF Perms
  <2>4. CASE s.asked = [r.asked EXCEPT ![p].state = "dropped"]
    <3>1. PICK a : a = [r.asked[p] EXCEPT !.state = "dropped"]
      OBVIOUS
    <3>2. a \in AskedRec /\ a.state = "dropped"
      BY <2>2, <3>1 DEF AskedRec
    <3>3. s.asked = [r.asked EXCEPT ![p] = a]
      BY <2>4, <3>1
    <3> QED BY <1>2, <1>3, <3>2, <3>3
  <2>5. CASE r.transport = "open" /\ s.asked = Answer(r.asked, {p})
    <3>1. /\ s.asked \in [Permissions -> AskedRec]
          /\ \A q \in Permissions :
               /\ s.asked[q].state = r.asked[q].state
               /\ q \in {p} => s.asked[q].answers = r.asked[q].answers + 1
               /\ q \notin {p} => s.asked[q] = r.asked[q]
      BY <1>2, <2>5, AnswerFields
    <3> QED BY <1>3, <2>3, <3>1
  <2>6. CASE r.transport # "open" /\ s.asked = r.asked
    BY <1>2, <2>3, <2>6
  <2> QED BY <1>1, <2>4, <2>5, <2>6
<1>9. \A i \in 1 .. Len(s.confirmations) : s.asked[s.confirmations[i]].state \in {"asked", "late"}
  <2>1. ASSUME NEW i \in 1 .. Len(s.confirmations)
        PROVE  s.asked[s.confirmations[i]].state \in {"asked", "late"}
    <3>1. PICK q \in Permissions : q = s.confirmations[i]
      BY <1>4, ElementOfSeq
    <3>2. InLine(r, q) /\ q # p
      BY <1>7, <2>1, <3>1 DEF InLine
    <3>3. r.asked[q].state \in {"asked", "late"}
      BY <3>2 DEF InLine, Perms
    <3> QED BY <1>8, <3>1, <3>2, <3>3
  <2> QED BY <2>1
<1>10. ASSUME NEW q \in Permissions, s.asked[q].state = "asked"
       PROVE  IF InLine(s, q) THEN s.asked[q].answers = 0 /\ s.transport = "open" ELSE s.asked[q].answers = 1
  <2>1. CASE q = p
    BY <1>7, <1>8, <1>10, <2>1
  <2>2. CASE q # p
    BY <1>7, <1>8, <1>10, <2>2 DEF Perms
  <2> QED BY <2>1, <2>2
<1> QED BY <1>4, <1>6, <1>8, <1>9, <1>10 DEF Perms

\* A new request joins the line.
LEMMA AskedPerms ==
  ASSUME NEW r \in MgrRec, Perms(r), NEW p \in Permissions, r.asked[p].state = "no",
         NEW a \in AskedRec, a.state = (IF r.transport = "open" THEN "asked" ELSE "late"), a.answers = 0,
         NEW s, s.transport = r.transport, s.confirmations = Append(r.confirmations, p),
         s.asked = [r.asked EXCEPT ![p] = a]
  PROVE  Perms(s) /\ s.confirmations \in Seq(Permissions) /\ s.asked \in [Permissions -> AskedRec]
<1>1. /\ r.confirmations \in Seq(Permissions) /\ r.asked \in [Permissions -> AskedRec]
      /\ Len(r.confirmations) \in Nat
  BY DEF MgrRec
<1>2. /\ s.confirmations \in Seq(Permissions) /\ Len(s.confirmations) = Len(r.confirmations) + 1
      /\ s.confirmations[Len(r.confirmations) + 1] = p
      /\ \A i \in 1 .. Len(r.confirmations) : s.confirmations[i] = r.confirmations[i]
  BY <1>1, AppendProperties
<1>3. /\ s.asked \in [Permissions -> AskedRec] /\ s.asked[p] = a
      /\ \A q \in Permissions : q # p => s.asked[q] = r.asked[q]
  BY <1>1
<1>4. \A i \in 1 .. Len(r.confirmations) :
        /\ r.confirmations[i] \in Permissions /\ r.asked[r.confirmations[i]].state \in {"asked", "late"}
        /\ r.confirmations[i] # p
  BY <1>1, ElementOfSeq DEF Perms
<1>5. \A i, j \in 1 .. Len(s.confirmations) : s.confirmations[i] = s.confirmations[j] => i = j
  <2>1. \A i, j \in 1 .. Len(r.confirmations) : r.confirmations[i] = r.confirmations[j] => i = j
    BY DEF Perms
  <2> QED BY <1>1, <1>2, <1>4, <2>1
<1>6. \A i \in 1 .. Len(s.confirmations) : s.asked[s.confirmations[i]].state \in {"asked", "late"}
  BY <1>1, <1>2, <1>3, <1>4
<1>7. ASSUME NEW q \in Permissions
      PROVE  InLine(s, q) <=> InLine(r, q) \/ q = p
  BY <1>1, <1>2 DEF InLine
<1>8. ASSUME NEW q \in Permissions, s.asked[q].state = "asked"
      PROVE  IF InLine(s, q) THEN s.asked[q].answers = 0 /\ s.transport = "open" ELSE s.asked[q].answers = 1
  <2>1. CASE q = p
    BY <1>3, <1>7, <1>8, <2>1
  <2>2. CASE q # p
    BY <1>3, <1>7, <1>8, <2>2 DEF Perms
  <2> QED BY <2>1, <2>2
<1> QED BY <1>2, <1>3, <1>5, <1>6, <1>8 DEF Perms


-----------------------------------------------------------------------------
(* Calls that begin and continue. *)

LEMMA CallBegins ==
  ASSUME NEW am, NEW ms, NEW ks, Holds(am, ms, ks), NEW c \in Conversations, am[c] = 0,
         NEW r \in MgrRec, r.conversation = c, r.lastId = 0, r.pending = {}, r.status # "running",
         Perms(r), r.child = "running" => r.transport = "open",
         NEW k \in CallRec, k.kind = "initialize", k.manager = Len(ms) + 1, NEW s, StepOf(r, k, s)
  PROVE  Holds([am EXCEPT ![c] = Len(ms) + 1], Append(ms, s.mgr), Append(ks, s.call))
<1>1. PICK ms2 : ms2 = Append(ms, s.mgr)
  OBVIOUS
<1>2. PICK ks2 : ks2 = Append(ks, s.call)
  OBVIOUS
<1>3. PICK am2 : am2 = [am EXCEPT ![c] = Len(ms) + 1]
  OBVIOUS
<1>4. /\ am \in [Conversations -> Nat] /\ ms \in Seq(MgrRec) /\ ks \in Seq(CallRec)
      /\ Len(ms) \in Nat /\ Len(ks) \in Nat
  BY DEF Holds
<1>5. s.mgr \in MgrRec /\ s.call \in CallRec /\ Same(r, s.mgr) /\ s.mgr.status # "running"
  BY DEF StepOf
<1>6. /\ ms2 \in Seq(MgrRec) /\ Len(ms2) = Len(ms) + 1 /\ ms2[Len(ms) + 1] = s.mgr
      /\ \A n \in 1 .. Len(ms) : ms2[n] = ms[n]
  BY <1>1, <1>4, <1>5, AppendProperties
<1>7. /\ ks2 \in Seq(CallRec) /\ Len(ks2) = Len(ks) + 1 /\ ks2[Len(ks) + 1] = s.call
      /\ \A i \in 1 .. Len(ks) : ks2[i] = ks[i]
  BY <1>2, <1>4, <1>5, AppendProperties
<1>8. /\ am2 \in [Conversations -> Nat] /\ am2[c] = Len(ms) + 1
      /\ \A d \in Conversations : d # c => am2[d] = am[d]
  BY <1>3, <1>4
<1>9. Registry(am2, ms2)
  <2>1. \A d \in Conversations : am[d] # 0 => am[d] \in 1 .. Len(ms) /\ ms[am[d]].conversation = d
    BY DEF Holds, Registry
  <2>2. ASSUME NEW d \in Conversations, am2[d] # 0
        PROVE  am2[d] \in 1 .. Len(ms2) /\ ms2[am2[d]].conversation = d
    <3>1. CASE d = c
      BY <1>4, <1>5, <1>6, <1>8, <3>1 DEF Same
    <3>2. CASE d # c
      BY <1>4, <1>6, <1>8, <2>1, <2>2, <3>2
    <3> QED BY <3>1, <3>2
  <2> QED BY <2>2 DEF Registry
<1>10. ASSUME NEW n \in 1 .. Len(ms) PROVE MgrPlace(am2, n, ms[n])
  <2>1. MgrPlace(am, n, ms[n]) /\ ms[n] \in MgrRec
    BY <1>4, ElementOfSeq DEF Holds
  <2>2. ms[n].conversation \in Conversations /\ n # 0
    BY <2>1 DEF MgrRec
  <2> QED BY <1>8, <2>1, <2>2 DEF MgrPlace, Reachable
<1>11. MgrPlace(am2, Len(ms) + 1, s.mgr)
  <2>1. Perms(s.mgr)
    BY <1>5, PermsSame DEF Same
  <2>2. s.mgr.pending \subseteq 1 .. s.mgr.lastId
    BY DEF StepOf
  <2> QED BY <1>5, <1>8, <2>1, <2>2 DEF MgrPlace, Reachable, Same
<1>12. ASSUME NEW i \in 1 .. Len(ks)
       PROVE  CallPlace(ms2, ks[i]) /\ ks[i].manager \in 1 .. Len(ms)
  <2>1. CallPlace(ms, ks[i])
    BY DEF Holds
  <2>2. ks[i].manager \in 1 .. Len(ms2) /\ ms2[ks[i].manager] = ms[ks[i].manager]
    BY <1>4, <1>6, <2>1 DEF CallPlace
  <2> QED BY <2>1, <2>2 DEF CallPlace
<1>13. s.call.manager = Len(ms) + 1 /\ CallPlace(ms2, s.call)
  <2>1. /\ s.call.manager = Len(ms) + 1 /\ s.call.kind = "initialize" /\ s.call.result = "wait"
        /\ Pends(s.call) => s.mgr.lastId = 1 /\ s.mgr.pending = {1} /\ s.call.request = 1
    BY DEF StepOf
  <2> QED BY <1>4, <1>6, <2>1 DEF CallPlace
<1>14. Apart(ks2)
  <2>1. ASSUME NEW i \in 1 .. Len(ks2), NEW j \in 1 .. Len(ks2), i # j,
               Pends(ks2[i]), Pends(ks2[j]), ks2[i].manager = ks2[j].manager
        PROVE  ks2[i].request # ks2[j].request
    <3>1. i \in 1 .. Len(ks) /\ j \in 1 .. Len(ks)
      BY <1>4, <1>7, <1>12, <1>13, <2>1
    <3> QED BY <1>7, <2>1, <3>1 DEF Holds, Apart
  <2> QED BY <2>1 DEF Apart
<1>15. ASSUME NEW n \in 1 .. Len(ms2), ms2[n].status = "running" PROVE TurnOf(ks2, n)
  <2>1. n \in 1 .. Len(ms)
    BY <1>4, <1>5, <1>6, <1>15
  <2>2. TurnOf(ks, n)
    BY <1>6, <1>15, <2>1 DEF Holds
  <2> QED BY <1>4, <1>7, <2>2 DEF TurnOf
<1>16. \A n \in 1 .. Len(ms2) : MgrPlace(am2, n, ms2[n])
  BY <1>4, <1>6, <1>10, <1>11
<1>17. \A i \in 1 .. Len(ks2) : CallPlace(ms2, ks2[i])
  BY <1>4, <1>7, <1>12, <1>13
<1> QED BY <1>1, <1>2, <1>3, <1>6, <1>7, <1>8, <1>9, <1>14, <1>15, <1>16, <1>17 DEF Holds

LEMMA CallAdded ==
  ASSUME NEW am, NEW ms, NEW ks, Holds(am, ms, ks), NEW m \in 1 .. Len(ms),
         NEW r, Same(ms[m], r), r.lastId = ms[m].lastId, r.pending = ms[m].pending,
         NEW k, k.manager = m, NEW s, StepOf(r, k, s), s.call.kind = "send" => s.call.stage # "option",
         s.mgr.status = "running" =>
           ms[m].status = "running"
             \/ (s.call.kind = "send" /\ (InFlight(s.call) \/ s.call.stage = "failed"))
  PROVE  Holds(am, [ms EXCEPT ![m] = s.mgr], Append(ks, s.call))
<1>1. PICK ks2 : ks2 = Append(ks, s.call)
  OBVIOUS
<1>2. ks \in Seq(CallRec) /\ Len(ks) \in Nat
  BY DEF Holds
<1>3. s.mgr \in MgrRec /\ s.call \in CallRec /\ s.call.manager = m /\ s.call.result = "wait"
  BY DEF StepOf
<1>4. /\ ks2 \in Seq(CallRec) /\ Len(ks2) = Len(ks) + 1 /\ ks2[Len(ks) + 1] = s.call
      /\ \A i \in 1 .. Len(ks) : ks2[i] = ks[i]
  BY <1>1, <1>2, <1>3, AppendProperties
<1>5. PICK i \in 1 .. Len(ks2) : i = Len(ks) + 1
  BY <1>2, <1>4
<1>6. /\ ks2[i] = s.call /\ i \notin 1 .. Len(ks)
      /\ \A j \in 1 .. Len(ks2) : j # i => j \in 1 .. Len(ks) /\ ks2[j] = ks[j]
      /\ \A j \in 1 .. Len(ks) : j \in 1 .. Len(ks2) /\ ks2[j] = ks[j]
  BY <1>2, <1>4, <1>5
<1>7. s.mgr.status = "running" => TurnOf(ks2, m)
  <2>1. CASE ms[m].status = "running"
    <3>1. TurnOf(ks, m)
      BY <2>1 DEF Holds
    <3> QED BY <1>6, <3>1 DEF TurnOf
  <2>2. CASE s.call.kind = "send" /\ (InFlight(s.call) \/ s.call.stage = "failed")
    BY <1>3, <1>6, <2>2 DEF TurnOf
  <2> QED BY <2>1, <2>2
<1>8. Same(ms[m], s.mgr)
  BY DEF StepOf, Same
<1>9. \/ ~Pends(s.call) /\ s.mgr.lastId = ms[m].lastId /\ s.mgr.pending = ms[m].pending
      \/ /\ s.mgr.lastId = ms[m].lastId + 1 /\ s.mgr.pending = ms[m].pending \cup {ms[m].lastId + 1}
         /\ s.call.request = ms[m].lastId + 1
  BY DEF StepOf
<1>10. Holds(am, ms, ks) /\ m \in 1 .. Len(ms) /\ i \in 1 .. Len(ks2)
  OBVIOUS
<1>11. s.call.kind = "send" => s.call.stage # "option"
  OBVIOUS
<1>12. Holds(am, [ms EXCEPT ![m] = s.mgr], ks2)
  <2>1. Takes(ms, ks, m, s.mgr, s.call, ks2, i)
    BY ONLY <1>3, <1>4, <1>6, <1>7, <1>8, <1>9, <1>10, <1>11 DEF Takes
  <2> QED BY ONLY <1>10, <2>1, OneCall
<1> QED BY <1>1, <1>12

LEMMA CallMoved ==
  ASSUME NEW am, NEW ms, NEW ks, Holds(am, ms, ks), NEW i \in 1 .. Len(ks),
         NEW s, StepOf(ms[ks[i].manager], ks[i], s)
  PROVE  Holds(am, [ms EXCEPT ![ks[i].manager] = s.mgr], [ks EXCEPT ![i] = s.call])
<1>1. PICK ks2 : ks2 = [ks EXCEPT ![i] = s.call]
  OBVIOUS
<1>2. /\ ks \in Seq(CallRec) /\ s.mgr \in MgrRec /\ s.call \in CallRec /\ s.call.result = "wait"
      /\ CallPlace(ms, ks[i])
  BY DEF Holds, StepOf
<1>3. PICK m \in 1 .. Len(ms) : m = ks[i].manager
  BY <1>2 DEF CallPlace
<1>4. /\ ks2 \in Seq(CallRec) /\ Len(ks2) = Len(ks) /\ ks2[i] = s.call
      /\ \A j \in 1 .. Len(ks) : j # i => ks2[j] = ks[j]
  BY <1>1, <1>2, ExceptSeq
<1>5. /\ s.call.kind = ks[i].kind /\ s.call.manager = m
      /\ s.call.kind = "send" =>
           s.call.stage # "option" /\ (s.call.stage = "done" => s.mgr.status # "running")
      /\ s.mgr.status = "running" => ms[m].status = "running"
      /\ Same(ms[m], s.mgr)
  BY <1>3 DEF StepOf
<1>6. s.mgr.status = "running" => TurnOf(ks2, m)
  <2>1. ASSUME s.mgr.status = "running" PROVE TurnOf(ks2, m)
    <3>1. PICK j \in 1 .. Len(ks) : /\ ks[j].manager = m /\ ks[j].kind = "send"
                                    /\ InFlight(ks[j]) \/ ks[j].stage = "failed"
      BY <1>5, <2>1 DEF Holds, TurnOf
    <3>2. CASE j # i
      BY <1>4, <3>1, <3>2 DEF TurnOf
    <3>3. CASE j = i
      <4>1. s.call.stage \in Stages \cup {"done", "failed"}
        BY <1>2 DEF CallRec
      <4> QED BY <1>4, <1>5, <2>1, <3>1, <3>3, <4>1 DEF TurnOf, InFlight
    <3> QED BY <3>2, <3>3
  <2> QED BY <2>1
<1>7. \/ ~Pends(s.call) /\ s.mgr.lastId = ms[m].lastId /\ s.mgr.pending = ms[m].pending
      \/ /\ s.mgr.lastId = ms[m].lastId + 1 /\ s.mgr.pending = ms[m].pending \cup {ms[m].lastId + 1}
         /\ s.call.request = ms[m].lastId + 1
  BY <1>3 DEF StepOf
<1>8. i \in 1 .. Len(ks2) /\ \A j \in 1 .. Len(ks) : j \in 1 .. Len(ks2)
  BY <1>4
<1>9. Holds(am, ms, ks) /\ m \in 1 .. Len(ms)
  OBVIOUS
<1>10. /\ s.mgr \in MgrRec /\ s.call \in CallRec /\ s.call.manager = m /\ s.call.result = "wait"
       /\ s.call.kind = "send" => s.call.stage # "option"
       /\ Same(ms[m], s.mgr)
  BY <1>2, <1>5
<1>11. /\ ks2 \in Seq(CallRec) /\ ks2[i] = s.call
       /\ \A j \in 1 .. Len(ks2) : j # i => j \in 1 .. Len(ks) /\ ks2[j] = ks[j]
       /\ i \in 1 .. Len(ks) => ks[i].manager = m
  BY <1>3, <1>4
<1>12. Holds(am, [ms EXCEPT ![m] = s.mgr], ks2)
  <2>1. Takes(ms, ks, m, s.mgr, s.call, ks2, i)
    BY ONLY <1>6, <1>7, <1>8, <1>9, <1>10, <1>11 DEF Takes
  <2> QED BY ONLY <1>9, <2>1, OneCall
<1> QED BY <1>1, <1>3, <1>12


-----------------------------------------------------------------------------
(* The actions. *)

\* Reads of a registered manager and of a call.
LEMMA Registered ==
  ASSUME Inv, NEW c \in Conversations, agentManagers[c] # 0
  PROVE  /\ agentManagers[c] \in 1 .. Len(managers) /\ managers[agentManagers[c]] \in MgrRec
         /\ MgrPlace(agentManagers, agentManagers[c], managers[agentManagers[c]])
BY ElementOfSeq DEF Inv, Holds, Registry

LEMMA OfManager ==
  ASSUME Inv, NEW m \in DOMAIN managers
  PROVE  /\ m \in 1 .. Len(managers) /\ managers[m] \in MgrRec
         /\ MgrPlace(agentManagers, m, managers[m])
<1>1. managers \in Seq(MgrRec)
  BY DEF Inv, Holds
<1>2. m \in 1 .. Len(managers)
  BY <1>1
<1> QED BY <1>1, <1>2, ElementOfSeq DEF Inv, Holds

LEMMA OfCall ==
  ASSUME Inv, NEW i \in DOMAIN ipcCalls
  PROVE  /\ ipcCalls \in Seq(CallRec) /\ i \in 1 .. Len(ipcCalls) /\ ipcCalls[i] \in CallRec
         /\ CallPlace(managers, ipcCalls[i])
         /\ ipcCalls[i].manager \in 1 .. Len(managers) /\ managers[ipcCalls[i].manager] \in MgrRec
         /\ MgrPlace(agentManagers, ipcCalls[i].manager, managers[ipcCalls[i].manager])
<1>1. ipcCalls \in Seq(CallRec) /\ managers \in Seq(MgrRec)
  BY DEF Inv, Holds
<1>2. i \in 1 .. Len(ipcCalls)
  BY <1>1
<1>3. CallPlace(managers, ipcCalls[i])
  BY <1>2 DEF Inv, Holds
<1>4. ipcCalls[i].manager \in 1 .. Len(managers)
  BY <1>3 DEF CallPlace
<1> QED BY <1>1, <1>2, <1>3, <1>4, ElementOfSeq DEF Inv, Holds

LEMMA InitInv == AgentInit => Inv
<1> SUFFICES ASSUME AgentInit PROVE Inv
  OBVIOUS
<1>1. managers = <<>> /\ ipcCalls = <<>> /\ agentManagers = [c \in Conversations |-> 0]
  BY DEF AgentInit
<1>2. <<>> \in Seq(MgrRec) /\ <<>> \in Seq(CallRec) /\ Len(<<>>) = 0
  OBVIOUS
<1> QED BY <1>1, <1>2 DEF Inv, Holds, Registry, Apart

LEMMA FreshManager ==
  ASSUME NEW c \in Conversations, NEW m \in Nat
  PROVE  LET r == Manager(c)
             s == [r EXCEPT !.transport = "open", !.child = "running"]
         IN  /\ \A t \in {r, s} : /\ t \in MgrRec /\ t.conversation = c /\ t.lastId = 0 /\ t.pending = {}
                                  /\ t.status # "running" /\ Perms(t)
                                  /\ t.child = "running" => t.transport = "open"
             /\ IpcCall("initialize", m) \in CallRec /\ IpcCall("initialize", m).kind = "initialize"
             /\ IpcCall("initialize", m).manager = m
<1>1. PICK r : r = Manager(c)
  OBVIOUS
<1>2. PICK s : s = [r EXCEPT !.transport = "open", !.child = "running"]
  OBVIOUS
<1>3. PICK reqs : reqs = [p \in Permissions |-> [state |-> "no", callId |-> "none", answers |-> 0]]
  OBVIOUS
<1>4. reqs \in [Permissions -> AskedRec] /\ \A p \in Permissions : reqs[p].state = "no"
  BY <1>3 DEF AskedRec
<1>5. <<>> \in Seq(Permissions) /\ Len(<<>>) = 0
  OBVIOUS
<1>6. r \in MgrRec /\ r.confirmations = <<>> /\ r.asked = reqs
  BY <1>1, <1>3, <1>4, <1>5 DEF Manager, MgrRec
<1>7. s \in MgrRec /\ s.confirmations = <<>> /\ s.asked = reqs
  BY <1>2, <1>6 DEF MgrRec
<1>8. Perms(r) /\ Perms(s)
  BY <1>4, <1>5, <1>6, <1>7 DEF Perms
<1>9. /\ r.conversation = c /\ r.lastId = 0 /\ r.pending = {} /\ r.status # "running" /\ r.child = "none"
      /\ s.conversation = c /\ s.lastId = 0 /\ s.pending = {} /\ s.status # "running" /\ s.transport = "open"
  BY <1>1, <1>2, <1>6 DEF Manager, MgrRec
<1>10. /\ IpcCall("initialize", m) \in CallRec /\ IpcCall("initialize", m).kind = "initialize"
       /\ IpcCall("initialize", m).manager = m
  BY DEF IpcCall, CallRec, IpcKinds, Stages
<1> QED BY <1>1, <1>2, <1>6, <1>7, <1>8, <1>9, <1>10

\* createAgentManager: the conversation's manager is stopped and given up.
LEMMA Created ==
  ASSUME Inv, NEW c \in Conversations, NEW before, before = createAgentManager(c)
  PROVE  /\ Holds([agentManagers EXCEPT ![c] = 0], before.managers, before.calls)
         /\ Len(before.managers) = Len(managers)
<1>1. PICK am : am = [agentManagers EXCEPT ![c] = 0]
  OBVIOUS
<1>2. agentManagers \in [Conversations -> Nat]
  BY DEF Inv, Holds
<1>3. /\ am \in [Conversations -> Nat] /\ am[c] = 0
      /\ \A d \in Conversations : d # c => am[d] = agentManagers[d]
  BY <1>1, <1>2
<1>4. CASE agentManagers[c] = 0
  <2>1. before.managers = managers /\ before.calls = ipcCalls
    BY <1>4 DEF createAgentManager
  <2>2. am = agentManagers
    BY <1>1, <1>2, <1>4
  <2> QED BY <1>1, <2>1, <2>2 DEF Inv
<1>5. CASE agentManagers[c] # 0
  <2>1. PICK m : m = agentManagers[c]
    OBVIOUS
  <2>2. m \in 1 .. Len(managers) /\ managers[m] \in MgrRec /\ MgrPlace(agentManagers, m, managers[m])
    BY <1>5, <2>1, Registered
  <2>3. PICK s : s = Stop(managers[m])
    OBVIOUS
  <2>4. Stopped(managers[m], s)
    BY <2>2, <2>3, StopFields DEF MgrPlace, Reachable
  <2>5. PICK ms : ms = [managers EXCEPT ![m] = s]
    OBVIOUS
  <2>6. before.managers = ms /\ before.calls = StopCalls(ipcCalls, m, managers[m])
    BY <1>5, <2>1, <2>3, <2>5 DEF createAgentManager
  <2>7. Holds(agentManagers, ms, before.calls)
    <3>1. Holds(agentManagers, managers, ipcCalls)
      BY DEF Inv
    <3>2. Holds(agentManagers, [managers EXCEPT ![m] = s], StopCalls(ipcCalls, m, managers[m]))
      BY ONLY <2>2, <2>4, <3>1, StopsOne
    <3> QED BY <2>5, <2>6, <3>2
  <2>8. ms[m].child # "running" /\ Len(ms) = Len(managers)
    <3>1. managers \in Seq(MgrRec) /\ s \in MgrRec
      BY <2>4 DEF Inv, Holds, Stopped, Follows
    <3>2. ms[m] = s /\ Len(ms) = Len(managers)
      BY <2>2, <2>5, <3>1, ExceptSeq
    <3> QED BY <2>4, <3>2 DEF Stopped
  <2>9. \A d \in Conversations :
          am[d] # agentManagers[d] => am[d] = 0 /\ (agentManagers[d] # 0 => ms[agentManagers[d]].child # "running")
    BY <1>3, <2>1, <2>8
  <2>10. Holds(am, ms, before.calls)
    BY <1>3, <2>7, <2>9, Deregister
  <2> QED BY <1>1, <2>6, <2>8, <2>10
<1> QED BY <1>4, <1>5

LEMMA InitializeInv ==
  ASSUME Inv, NEW c \in Conversations, AcpInitialize(c)
  PROVE  Inv'
<1>1. PICK m \in Nat : m = Len(managers) + 1
  BY DEF Inv, Holds
<1>2. PICK before : before = createAgentManager(c)
  OBVIOUS
<1>3. PICK am : am = [agentManagers EXCEPT ![c] = 0]
  OBVIOUS
<1>4. Holds(am, before.managers, before.calls) /\ m = Len(before.managers) + 1
  BY <1>1, <1>2, <1>3, Created
<1>5. PICK r : r = Manager(c)
  OBVIOUS
<1>6. PICK spawned : spawned = [r EXCEPT !.transport = "open", !.child = "running"]
  OBVIOUS
<1>7. PICK k : k = IpcCall("initialize", m)
  OBVIOUS
<1>8. /\ agentManagers' = [agentManagers EXCEPT ![c] = m]
      /\ \E s \in {Sent(spawned, k, "init"), Failed(r, k)} :
           managers' = Append(before.managers, s.mgr) /\ ipcCalls' = Append(before.calls, s.call)
  BY <1>1, <1>2, <1>5, <1>6, <1>7 DEF AcpInitialize
<1>9. PICK s \in {Sent(spawned, k, "init"), Failed(r, k)} :
        managers' = Append(before.managers, s.mgr) /\ ipcCalls' = Append(before.calls, s.call)
  BY <1>8
<1>10. /\ \A t \in {r, spawned} :
            /\ t \in MgrRec /\ t.conversation = c /\ t.lastId = 0 /\ t.pending = {}
            /\ t.status # "running" /\ Perms(t)
            /\ t.child = "running" => t.transport = "open"
       /\ k \in CallRec /\ k.kind = "initialize" /\ k.manager = m
  BY <1>5, <1>6, <1>7, FreshManager
<1>11. PICK t \in {r, spawned} : StepOf(t, k, s)
  BY <1>9, <1>10, SentStep, FailedStep DEF Stages
<1>12. am[c] = 0 /\ [am EXCEPT ![c] = m] = [agentManagers EXCEPT ![c] = m]
  <2>1. agentManagers \in [Conversations -> Nat]
    BY DEF Inv, Holds
  <2> QED BY <1>3, <2>1
<1>13. Holds([am EXCEPT ![c] = m], Append(before.managers, s.mgr), Append(before.calls, s.call))
  BY <1>4, <1>10, <1>11, <1>12, CallBegins
<1> QED BY <1>8, <1>9, <1>12, <1>13 DEF Inv

LEMMA SendMessageInv ==
  ASSUME Inv, NEW c \in Conversations, AcpSendMessage(c)
  PROVE  Inv'
<1>1. PICK m : m = agentManagers[c]
  OBVIOUS
<1>2. PICK r : r = [managers[m] EXCEPT !.status = "running"]
  OBVIOUS
<1>3. PICK k : k = IpcCall("send", m)
  OBVIOUS
<1>4. /\ m # 0 /\ agentManagers' = agentManagers
      /\ \E s \in EnsureSession(r, k) :
           managers' = [managers EXCEPT ![m] = s.mgr] /\ ipcCalls' = Append(ipcCalls, s.call)
  BY <1>1, <1>2, <1>3 DEF AcpSendMessage
<1>5. PICK s \in EnsureSession(r, k) :
        managers' = [managers EXCEPT ![m] = s.mgr] /\ ipcCalls' = Append(ipcCalls, s.call)
  BY <1>4
<1>6. m \in 1 .. Len(managers) /\ managers[m] \in MgrRec
  BY <1>1, <1>4, Registered
<1>7. /\ r \in MgrRec /\ Same(managers[m], r) /\ r.lastId = managers[m].lastId
      /\ r.pending = managers[m].pending
  BY <1>2, <1>6 DEF MgrRec, Same
<1>8. k \in CallRec /\ k.kind = "send" /\ k.manager = m
  <2>1. m \in Nat
    BY <1>6
  <2> QED BY <1>3, <2>1 DEF IpcCall, CallRec, IpcKinds, Stages
<1>9. StepOf(r, k, s) /\ (InFlight(s.call) \/ s.call.stage = "failed")
  BY <1>7, <1>8, EnsureSessionStep, EnsureSessionWaits
<1>10. s.call.kind = "send" /\ s.call.stage # "option"
  BY <1>8, <1>9 DEF StepOf
<1>11. Holds(agentManagers, [managers EXCEPT ![m] = s.mgr], Append(ipcCalls, s.call))
  <2>1. Holds(agentManagers, managers, ipcCalls)
    BY DEF Inv
  <2> QED BY ONLY <1>6, <1>7, <1>8, <1>9, <1>10, <2>1, CallAdded
<1> QED BY <1>4, <1>5, <1>11 DEF Inv

LEMMA SetOptionInv ==
  ASSUME Inv, NEW c \in Conversations, AcpSetOption(c)
  PROVE  Inv'
<1>1. PICK m : m = agentManagers[c]
  OBVIOUS
<1>2. PICK k : k = IpcCall("set", m)
  OBVIOUS
<1>3. PICK r : r = managers[m]
  OBVIOUS
<1>4. PICK s : s = Sent(r, k, "option")
  OBVIOUS
<1>5. /\ m # 0 /\ agentManagers' = agentManagers
      /\ managers' = [managers EXCEPT ![m] = s.mgr] /\ ipcCalls' = Append(ipcCalls, s.call)
  BY <1>1, <1>2, <1>3, <1>4 DEF AcpSetOption
<1>6. m \in 1 .. Len(managers) /\ r \in MgrRec
  BY <1>1, <1>3, <1>5, Registered
<1>7. k \in CallRec /\ k.kind = "set" /\ k.manager = m
  <2>1. m \in Nat
    BY <1>6
  <2> QED BY <1>2, <2>1 DEF IpcCall, CallRec, IpcKinds, Stages
<1>8. StepOf(r, k, s)
  BY <1>4, <1>6, <1>7, SentStep DEF Stages
<1>9. /\ Same(managers[m], r) /\ r.lastId = managers[m].lastId /\ r.pending = managers[m].pending
      /\ s.call.kind = "set" /\ (s.mgr.status = "running" => managers[m].status = "running")
  BY <1>3, <1>7, <1>8 DEF Same, StepOf
<1>10. Holds(agentManagers, [managers EXCEPT ![m] = s.mgr], Append(ipcCalls, s.call))
  <2>1. Holds(agentManagers, managers, ipcCalls)
    BY DEF Inv
  <2> QED BY ONLY <1>6, <1>7, <1>8, <1>9, <2>1, CallAdded
<1> QED BY <1>5, <1>10 DEF Inv


LEMMA ConfirmInv ==
  ASSUME Inv, NEW c \in Conversations, NEW callId, NEW offered \in BOOLEAN,
         AcpConfirmTool(c, callId, offered)
  PROVE  Inv'
<1>1. PICK m : m = agentManagers[c]
  OBVIOUS
<1>2. m # 0
  BY <1>1 DEF AcpConfirmTool
<1>3. PICK r : r = managers[m]
  OBVIOUS
<1>4. /\ m \in 1 .. Len(managers) /\ r \in MgrRec /\ MgrPlace(agentManagers, m, r)
      /\ r.confirmations \in Seq(Permissions) /\ DOMAIN r.confirmations = 1 .. Len(r.confirmations)
  <2>1. m \in 1 .. Len(managers) /\ r \in MgrRec /\ MgrPlace(agentManagers, m, r)
    BY <1>1, <1>2, <1>3, Registered
  <2>2. r.confirmations \in Seq(Permissions)
    BY <2>1 DEF MgrRec
  <2>3. DOMAIN r.confirmations = 1 .. Len(r.confirmations)
    BY <2>2
  <2> QED BY <2>1, <2>2, <2>3
<1>5. PICK n \in 1 .. Len(r.confirmations) :
        LET p == r.confirmations[n]
            reqs == IF ~offered
                     THEN [r.asked EXCEPT ![p].state = "dropped"]
                     ELSE IF r.transport = "open" THEN Answer(r.asked, {p}) ELSE r.asked
        IN  managers' = [managers EXCEPT ![m] =
                           [r EXCEPT !.confirmations = RemoveAt(r.confirmations, n), !.asked = reqs]]
  BY <1>1, <1>3, <1>4 DEF AcpConfirmTool
<1>6. PICK p : p = r.confirmations[n]
  OBVIOUS
<1>7. PICK reqs : reqs = IF ~offered
                           THEN [r.asked EXCEPT ![p].state = "dropped"]
                           ELSE IF r.transport = "open" THEN Answer(r.asked, {p}) ELSE r.asked
  OBVIOUS
<1>8. PICK confs : confs = RemoveAt(r.confirmations, n)
  OBVIOUS
<1>9. PICK s : s = [r EXCEPT !.confirmations = confs, !.asked = reqs]
  OBVIOUS
<1>10. managers' = [managers EXCEPT ![m] = s]
  BY <1>5, <1>6, <1>7, <1>8, <1>9
<1>11. s.confirmations = confs /\ s.asked = reqs /\ s.transport = r.transport
  BY <1>4, <1>9 DEF MgrRec
<1>12. Perms(s) /\ confs \in Seq(Permissions) /\ reqs \in [Permissions -> AskedRec]
  <2>1. Perms(r)
    BY <1>4 DEF MgrPlace
  <2>2. \/ s.asked = [r.asked EXCEPT ![r.confirmations[n]].state = "dropped"]
        \/ r.transport = "open" /\ s.asked = Answer(r.asked, {r.confirmations[n]})
        \/ r.transport # "open" /\ s.asked = r.asked
    BY <1>6, <1>7, <1>11
  <2>3. s.confirmations = RemoveAt(r.confirmations, n) /\ n \in 1 .. Len(r.confirmations)
    BY <1>5, <1>8, <1>11
  <2> QED BY <1>4, <1>11, <2>1, <2>2, <2>3, ConfirmedPerms
<1>13. Follows(r, s) /\ s.pending = r.pending
  <2>1. /\ s \in MgrRec /\ s.conversation = r.conversation /\ s.lastId = r.lastId
        /\ s.pending = r.pending /\ s.status = r.status /\ s.child = r.child
    BY <1>4, <1>9, <1>12 DEF MgrRec
  <2> QED BY <1>11, <1>12, <2>1 DEF Follows
<1>14. Holds(agentManagers, [managers EXCEPT ![m] = s], ipcCalls)
  BY <1>3, <1>4, <1>13, ManagerAlone DEF Inv
<1> QED BY <1>10, <1>14 DEF AcpConfirmTool, Inv

LEMMA StopInv ==
  ASSUME Inv, NEW c \in Conversations, AcpStop(c)
  PROVE  Inv'
<1>1. PICK m : m = agentManagers[c]
  OBVIOUS
<1>2. PICK s : s = Stop(Stop(managers[m]))
  OBVIOUS
<1>3. /\ m # 0 /\ managers' = [managers EXCEPT ![m] = s]
      /\ ipcCalls' = StopCalls(ipcCalls, m, managers[m])
      /\ agentManagers' = [agentManagers EXCEPT ![c] = 0]
  BY <1>1, <1>2 DEF AcpStop
<1>4. m \in 1 .. Len(managers) /\ managers[m] \in MgrRec /\ MgrPlace(agentManagers, m, managers[m])
  BY <1>1, <1>3, Registered
<1>5. Stopped(managers[m], s)
  BY <1>2, <1>4, StopTwice DEF MgrPlace, Reachable
<1>6. Holds(agentManagers, managers', ipcCalls')
  <2>1. Holds(agentManagers, managers, ipcCalls)
    BY DEF Inv
  <2>2. Holds(agentManagers, [managers EXCEPT ![m] = s], StopCalls(ipcCalls, m, managers[m]))
    BY ONLY <1>4, <1>5, <2>1, StopsOne
  <2> QED BY <1>3, <2>2
<1>7. PICK am : am = agentManagers'
  OBVIOUS
<1>8. PICK ms : ms = managers'
  OBVIOUS
<1>9. ms[m].child # "running"
  <2>1. managers \in Seq(MgrRec) /\ s \in MgrRec
    BY <1>5 DEF Inv, Holds, Stopped, Follows
  <2>2. ms[m] = s
    BY <1>3, <1>4, <1>8, <2>1, ExceptSeq
  <2> QED BY <1>5, <2>2 DEF Stopped
<1>10. /\ am \in [Conversations -> Nat] /\ am[c] = 0
       /\ \A d \in Conversations : d # c => am[d] = agentManagers[d]
  <2>1. agentManagers \in [Conversations -> Nat]
    BY DEF Inv, Holds
  <2> QED BY <1>3, <1>7, <2>1
<1>11. \A d \in Conversations :
         am[d] # agentManagers[d] => am[d] = 0 /\ (agentManagers[d] # 0 => ms[agentManagers[d]].child # "running")
  BY <1>1, <1>9, <1>10
<1>12. Holds(agentManagers, ms, ipcCalls')
  BY <1>6, <1>8
<1>13. Holds(am, ms, ipcCalls')
  BY ONLY <1>10, <1>11, <1>12, Deregister
<1> QED BY <1>7, <1>8, <1>13 DEF Inv

LEMMA StopAllInv ==
  ASSUME Inv, StopAll
  PROVE  Inv'
<1>1. PICK live : live = {agentManagers[c] : c \in Conversations} \ {0}
  OBVIOUS
<1>2. PICK ms : ms = [m \in DOMAIN managers |-> IF m \in live THEN Stop(managers[m]) ELSE managers[m]]
  OBVIOUS
<1>3. PICK ks : ks = [i \in DOMAIN ipcCalls |->
                        IF ipcCalls[i].manager \in live
                        THEN StopCalls(ipcCalls, ipcCalls[i].manager, managers[ipcCalls[i].manager])[i]
                        ELSE ipcCalls[i]]
  OBVIOUS
<1>4. PICK am : am = [c \in Conversations |-> 0]
  OBVIOUS
<1>5. managers' = ms /\ ipcCalls' = ks /\ agentManagers' = am
  BY <1>1, <1>2, <1>3, <1>4 DEF StopAll
<1>6. /\ managers \in Seq(MgrRec) /\ ipcCalls \in Seq(CallRec) /\ agentManagers \in [Conversations -> Nat]
      /\ Len(managers) \in Nat /\ Len(ipcCalls) \in Nat
      /\ DOMAIN managers = 1 .. Len(managers) /\ DOMAIN ipcCalls = 1 .. Len(ipcCalls)
  <2>1. managers \in Seq(MgrRec) /\ ipcCalls \in Seq(CallRec) /\ agentManagers \in [Conversations -> Nat]
    BY DEF Inv, Holds
  <2> QED BY <2>1
<1>7. ASSUME NEW m \in 1 .. Len(managers)
      PROVE  /\ ms[m] \in MgrRec /\ Follows(managers[m], ms[m])
             /\ m \in live => Stopped(managers[m], ms[m])
             /\ m \notin live => ms[m] = managers[m] /\ managers[m].child # "running"
  <2>1. managers[m] \in MgrRec /\ MgrPlace(agentManagers, m, managers[m])
    BY <1>6, ElementOfSeq DEF Inv, Holds
  <2>2. CASE m \in live
    <3>1. ms[m] = Stop(managers[m])
      BY <1>2, <1>6, <2>2
    <3>2. Stopped(managers[m], Stop(managers[m]))
      BY <2>1, StopFields DEF MgrPlace, Reachable
    <3> QED BY <2>2, <3>1, <3>2 DEF Stopped, Follows
  <2>3. CASE m \notin live
    <3>1. ms[m] = managers[m]
      BY <1>2, <1>6, <2>3
    <3>2. managers[m].conversation \in Conversations /\ m # 0
      BY <2>1 DEF MgrRec
    <3>3. managers[m].child # "running"
      BY <1>1, <2>1, <2>3, <3>2 DEF MgrPlace, Reachable
    <3>4. Follows(managers[m], managers[m])
      BY <2>1 DEF Follows, MgrPlace
    <3> QED BY <2>1, <2>3, <3>1, <3>3, <3>4
  <2> QED BY <2>2, <2>3
<1>8. ms \in Seq(MgrRec) /\ Len(ms) = Len(managers)
  <2>1. ms \in [1 .. Len(managers) -> MgrRec]
    BY <1>2, <1>6, <1>7
  <2> QED BY <1>6, <2>1, SeqDef
<1>9. ASSUME NEW i \in 1 .. Len(ipcCalls)
      PROVE  /\ ks[i] \in CallRec /\ Kept(ipcCalls[i], ks[i])
             /\ Pends(ipcCalls[i]) =>
                  (ipcCalls[i].request \in ms[ipcCalls[i].manager].pending <=> ks[i].result = "wait")
  <2>1. ipcCalls[i] \in CallRec /\ CallPlace(managers, ipcCalls[i])
    BY <1>6, ElementOfSeq DEF Inv, Holds
  <2>2. PICK m \in 1 .. Len(managers) : m = ipcCalls[i].manager
    BY <2>1 DEF CallPlace
  <2>3. Pends(ipcCalls[i]) => (ipcCalls[i].request \in managers[m].pending <=> ipcCalls[i].result = "wait")
    BY <2>1, <2>2 DEF CallPlace
  <2>4. CASE m \in live
    <3>1. ks[i] = StopCalls(ipcCalls, m, managers[m])[i]
      BY <1>3, <1>6, <2>2, <2>4
    <3>2. /\ ks[i] \in CallRec /\ Kept(ipcCalls[i], ks[i])
          /\ ks[i].result = IF /\ managers[m].transport = "open" /\ ipcCalls[i].manager = m /\ Pends(ipcCalls[i])
                               /\ ipcCalls[i].result = "wait" /\ ipcCalls[i].request \in managers[m].pending
                            THEN "error" ELSE ipcCalls[i].result
      BY <1>6, <3>1, StopCallsFields
    <3>3. ms[m].pending = IF managers[m].transport = "open" THEN {} ELSE managers[m].pending
      BY <1>7, <2>4 DEF Stopped
    <3>4. CASE managers[m].transport = "open"
      BY <2>2, <2>3, <3>2, <3>3, <3>4
    <3>5. CASE managers[m].transport # "open"
      BY <2>2, <2>3, <3>2, <3>3, <3>5
    <3> QED BY <3>4, <3>5
  <2>5. CASE m \notin live
    <3>1. ks[i] = ipcCalls[i] /\ ms[m] = managers[m]
      BY <1>3, <1>6, <1>7, <2>2, <2>5
    <3> QED BY <2>1, <2>2, <2>3, <3>1 DEF Kept
  <2> QED BY <2>4, <2>5
<1>10. ks \in Seq(CallRec) /\ Len(ks) = Len(ipcCalls)
  <2>1. ks \in [1 .. Len(ipcCalls) -> CallRec]
    BY <1>3, <1>6, <1>9
  <2> QED BY <1>6, <2>1, SeqDef
<1>11. Holds(agentManagers, ms, ks)
  <2>1. Holds(agentManagers, managers, ipcCalls)
    BY DEF Inv
  <2>2. \A m \in 1 .. Len(managers) : Follows(managers[m], ms[m])
    BY <1>7
  <2> QED BY ONLY <1>8, <1>9, <1>10, <2>1, <2>2, Settles
<1>12. am \in [Conversations -> Nat] /\ \A c \in Conversations : am[c] = 0
  BY <1>4
<1>13. ASSUME NEW c \in Conversations, agentManagers[c] # 0
       PROVE  ms[agentManagers[c]].child # "running"
  <2>1. agentManagers[c] \in 1 .. Len(managers) /\ agentManagers[c] \in live
    BY <1>1, <1>13, Registered
  <2> QED BY <1>7, <2>1 DEF Stopped
<1>14. Holds(am, ms, ks)
  BY ONLY <1>11, <1>12, <1>13, Deregister
<1> QED BY <1>5, <1>14 DEF Inv


LEMMA ResumeInv ==
  ASSUME Inv, NEW i \in DOMAIN ipcCalls, Resume(i)
  PROVE  Inv'
<1>1. PICK k : k = ipcCalls[i]
  OBVIOUS
<1>2. /\ k \in CallRec /\ managers[k.manager] \in MgrRec /\ i \in 1 .. Len(ipcCalls)
      /\ k.kind = "send" => k.stage # "option"
  BY <1>1, OfCall DEF CallPlace
<1>3. InFlight(k)
  BY <1>1 DEF Resume, SettledCall
<1>4. PICK s \in Resumed(managers[k.manager], k) :
        /\ managers' = [managers EXCEPT ![ipcCalls[i].manager] = s.mgr]
        /\ ipcCalls' = [ipcCalls EXCEPT ![i] = s.call]
  BY <1>1 DEF Resume
<1>5. StepOf(managers[ipcCalls[i].manager], ipcCalls[i], s)
  BY <1>1, <1>2, <1>3, ResumedStep
<1>6. Holds(agentManagers, managers, ipcCalls)
  BY DEF Inv
<1>7. Holds(agentManagers, [managers EXCEPT ![ipcCalls[i].manager] = s.mgr], [ipcCalls EXCEPT ![i] = s.call])
  BY ONLY <1>2, <1>5, <1>6, CallMoved
<1> QED BY <1>4, <1>7 DEF Inv, Resume

LEMMA TimeoutInv ==
  ASSUME Inv, NEW i \in DOMAIN ipcCalls, RequestTimeout(i)
  PROVE  Inv'
<1>1. PICK k : k = ipcCalls[i]
  OBVIOUS
<1>2. PICK m : m = k.manager
  OBVIOUS
<1>3. PICK l : l = [k EXCEPT !.result = "error"]
  OBVIOUS
<1>4. PICK r : r = [managers[m] EXCEPT !.pending = managers[m].pending \ {k.request}]
  OBVIOUS
<1>5. /\ Pends(k) /\ managers' = [managers EXCEPT ![m] = r] /\ ipcCalls' = [ipcCalls EXCEPT ![i] = l]
      /\ agentManagers' = agentManagers
  BY <1>1, <1>2, <1>3, <1>4 DEF RequestTimeout, Pends
<1>6. /\ ipcCalls \in Seq(CallRec) /\ i \in 1 .. Len(ipcCalls) /\ k \in CallRec
      /\ m \in 1 .. Len(managers) /\ managers[m] \in MgrRec /\ MgrPlace(agentManagers, m, managers[m])
  BY <1>1, <1>2, OfCall
<1>7. Follows(managers[m], r) /\ r.pending = managers[m].pending \ {k.request}
  <2>1. /\ r \in MgrRec /\ r.conversation = managers[m].conversation /\ r.lastId = managers[m].lastId
        /\ r.pending = managers[m].pending \ {k.request} /\ r.status = managers[m].status
        /\ r.child = managers[m].child /\ r.transport = managers[m].transport
        /\ r.confirmations = managers[m].confirmations /\ r.asked = managers[m].asked
    BY <1>4, <1>6 DEF MgrRec
  <2>2. Perms(r)
    BY <1>6, <2>1, PermsSame DEF MgrPlace
  <2> QED BY <2>1, <2>2 DEF Follows
<1>8. l \in CallRec /\ Kept(k, l) /\ l.result = "error"
  BY <1>3, <1>6 DEF CallRec, Kept
<1>9. PICK ks : ks = [ipcCalls EXCEPT ![i] = l]
  OBVIOUS
<1>10. /\ ks \in Seq(CallRec) /\ Len(ks) = Len(ipcCalls) /\ ks[i] = l
       /\ \A j \in 1 .. Len(ipcCalls) : j # i => ks[j] = ipcCalls[j]
  BY <1>6, <1>8, <1>9, ExceptSeq
<1>11. ASSUME NEW j \in 1 .. Len(ipcCalls)
       PROVE  /\ Kept(ipcCalls[j], ks[j])
              /\ ipcCalls[j].manager # m => ks[j].result = ipcCalls[j].result
              /\ Pends(ipcCalls[j]) /\ ipcCalls[j].manager = m =>
                   (ipcCalls[j].request \in r.pending <=> ks[j].result = "wait")
  <2>1. CASE j = i
    BY <1>1, <1>2, <1>7, <1>8, <1>10, <2>1
  <2>2. CASE j # i
    <3>1. ks[j] = ipcCalls[j] /\ CallPlace(managers, ipcCalls[j])
      BY <1>10, <2>2 DEF Inv, Holds
    <3>2. Pends(ipcCalls[j]) /\ ipcCalls[j].manager = m => ipcCalls[j].request # k.request
      BY <1>1, <1>2, <1>5, <1>6, <2>2 DEF Inv, Holds, Apart
    <3>3. Pends(ipcCalls[j]) /\ ipcCalls[j].manager = m =>
            (ipcCalls[j].request \in managers[m].pending <=> ipcCalls[j].result = "wait")
      BY <3>1 DEF CallPlace
    <3> QED BY <1>7, <3>1, <3>2, <3>3 DEF Kept
  <2> QED BY <2>1, <2>2
<1>12. Holds(agentManagers, [managers EXCEPT ![m] = r], ks)
  <2>1. Holds(agentManagers, managers, ipcCalls)
    BY DEF Inv
  <2> QED BY ONLY <1>6, <1>7, <1>10, <1>11, <2>1, OneManager
<1> QED BY <1>5, <1>9, <1>12 DEF Inv

LEMMA TokenReplyInv ==
  ASSUME Inv, NEW i \in DOMAIN ipcCalls, NEW result \in {"ok", "error"}, TokenReply(i, result)
  PROVE  Inv'
<1>1. PICK k : k = ipcCalls[i]
  OBVIOUS
<1>2. PICK l : l = [k EXCEPT !.result = result]
  OBVIOUS
<1>3. PICK ks : ks = [ipcCalls EXCEPT ![i] = l]
  OBVIOUS
<1>4. k.stage = "token" /\ ipcCalls' = ks /\ managers' = managers /\ agentManagers' = agentManagers
  BY <1>1, <1>2, <1>3 DEF TokenReply
<1>5. /\ ipcCalls \in Seq(CallRec) /\ managers \in Seq(MgrRec) /\ i \in 1 .. Len(ipcCalls) /\ k \in CallRec
  BY <1>1, OfCall DEF Inv, Holds
<1>6. l \in CallRec /\ Kept(k, l)
  BY <1>2, <1>5 DEF CallRec, Kept
<1>7. /\ ks \in Seq(CallRec) /\ Len(ks) = Len(ipcCalls) /\ ks[i] = l
      /\ \A j \in 1 .. Len(ipcCalls) : j # i => ks[j] = ipcCalls[j]
  BY <1>3, <1>5, <1>6, ExceptSeq
<1>8. ASSUME NEW j \in 1 .. Len(ipcCalls)
      PROVE  /\ Kept(ipcCalls[j], ks[j])
             /\ Pends(ipcCalls[j]) =>
                  (ipcCalls[j].request \in managers[ipcCalls[j].manager].pending <=> ks[j].result = "wait")
  <2>1. CASE j = i
    BY <1>1, <1>4, <1>6, <1>7, <2>1 DEF Pends
  <2>2. CASE j # i
    <3>1. ks[j] = ipcCalls[j] /\ CallPlace(managers, ipcCalls[j])
      BY <1>7, <2>2 DEF Inv, Holds
    <3> QED BY <3>1 DEF CallPlace, Kept
  <2> QED BY <2>1, <2>2
<1>9. ASSUME NEW m \in 1 .. Len(managers) PROVE Follows(managers[m], managers[m])
  <2>1. managers[m] \in MgrRec /\ MgrPlace(agentManagers, m, managers[m])
    BY <1>5, ElementOfSeq DEF Inv, Holds
  <2> QED BY <2>1 DEF Follows, MgrPlace
<1>10. Holds(agentManagers, managers, ks)
  <2>1. Holds(agentManagers, managers, ipcCalls)
    BY DEF Inv
  <2> QED BY ONLY <1>5, <1>7, <1>8, <1>9, <2>1, Settles
<1> QED BY <1>4, <1>10 DEF Inv

LEMMA RespondsInv ==
  ASSUME Inv, NEW m \in DOMAIN managers, NEW id, NEW result \in {"ok", "error"},
         AgentResponds(m, id, result)
  PROVE  Inv'
<1>1. PICK initialized \in BOOLEAN :
        initialized = (managers[m].initialized \/ (id = 1 /\ result = "ok"))
  OBVIOUS
<1>2. PICK r : r = [managers[m] EXCEPT !.inbox = managers[m].inbox \ {id},
                                       !.pending = managers[m].pending \ {id},
                                       !.initialized = initialized]
  OBVIOUS
<1>3. PICK ks : ks = Settle(ipcCalls, m, {id} \cap managers[m].pending, result)
  OBVIOUS
<1>4. managers' = [managers EXCEPT ![m] = r] /\ ipcCalls' = ks /\ agentManagers' = agentManagers
  BY <1>1, <1>2, <1>3 DEF AgentResponds
<1>5. m \in 1 .. Len(managers) /\ managers[m] \in MgrRec /\ MgrPlace(agentManagers, m, managers[m])
  BY OfManager
<1>6. Follows(managers[m], r) /\ r.pending = managers[m].pending \ {id}
  <2>1. /\ managers[m].inbox \ {id} \in SUBSET Nat /\ managers[m].pending \ {id} \in SUBSET Nat
    BY <1>5 DEF MgrRec
  <2>2. /\ r \in MgrRec /\ r.conversation = managers[m].conversation /\ r.lastId = managers[m].lastId
        /\ r.pending = managers[m].pending \ {id} /\ r.status = managers[m].status
        /\ r.child = managers[m].child /\ r.transport = managers[m].transport
        /\ r.confirmations = managers[m].confirmations /\ r.asked = managers[m].asked
    BY <1>1, <1>2, <1>5, <2>1 DEF MgrRec
  <2>3. Perms(r)
    BY <1>5, <2>2, PermsSame DEF MgrPlace
  <2> QED BY <2>2, <2>3 DEF Follows
<1>7. ipcCalls \in Seq(CallRec)
  BY DEF Inv, Holds
<1>8. /\ ks \in Seq(CallRec) /\ Len(ks) = Len(ipcCalls)
      /\ \A i \in 1 .. Len(ipcCalls) :
           /\ Kept(ipcCalls[i], ks[i])
           /\ ks[i].result = IF /\ ipcCalls[i].manager = m /\ Pends(ipcCalls[i])
                                /\ ipcCalls[i].result = "wait"
                                /\ ipcCalls[i].request \in {id} \cap managers[m].pending
                             THEN result ELSE ipcCalls[i].result
  BY <1>3, <1>7, SettleFields
<1>9. ASSUME NEW i \in 1 .. Len(ipcCalls), Pends(ipcCalls[i]), ipcCalls[i].manager = m
      PROVE  ipcCalls[i].request \in r.pending <=> ks[i].result = "wait"
  <2>1. CallPlace(managers, ipcCalls[i])
    BY DEF Inv, Holds
  <2>2. ipcCalls[i].request \in managers[m].pending <=> ipcCalls[i].result = "wait"
    BY <1>9, <2>1 DEF CallPlace
  <2>3. CASE ipcCalls[i].request = id
    BY <1>6, <1>8, <1>9, <2>2, <2>3
  <2>4. CASE ipcCalls[i].request # id
    BY <1>6, <1>8, <1>9, <2>2, <2>4
  <2> QED BY <2>3, <2>4
<1>10. \A i \in 1 .. Len(ipcCalls) : ipcCalls[i].manager # m => ks[i].result = ipcCalls[i].result
  BY <1>8
<1>11. Holds(agentManagers, [managers EXCEPT ![m] = r], ks)
  <2>1. Holds(agentManagers, managers, ipcCalls)
    BY DEF Inv
  <2> QED BY ONLY <1>5, <1>6, <1>8, <1>9, <1>10, <2>1, OneManager
<1> QED BY <1>4, <1>11 DEF Inv

LEMMA AsksInv ==
  ASSUME Inv, NEW m \in DOMAIN managers, NEW callId \in CallIds, AgentAsksPermission(m, callId)
  PROVE  Inv'
<1>1. PICK r : r = managers[m]
  OBVIOUS
<1>2. m \in 1 .. Len(managers) /\ r \in MgrRec /\ MgrPlace(agentManagers, m, r)
  BY <1>1, OfManager
<1>3. PICK a : a = [state |-> IF r.transport = "open" THEN "asked" ELSE "late",
                    callId |-> callId, answers |-> 0]
  OBVIOUS
<1>4. a \in AskedRec /\ a.state = (IF r.transport = "open" THEN "asked" ELSE "late") /\ a.answers = 0
  BY <1>3 DEF AskedRec
<1>5. PICK p \in Permissions :
        /\ r.asked[p].state = "no"
        /\ managers' = [managers EXCEPT ![m] =
                          [r EXCEPT !.confirmations = Append(r.confirmations, p), !.asked[p] = a]]
  BY <1>1, <1>3 DEF AgentAsksPermission
<1>6. PICK confs : confs = Append(r.confirmations, p)
  OBVIOUS
<1>7. PICK reqs : reqs = [r.asked EXCEPT ![p] = a]
  OBVIOUS
<1>8. PICK s : s = [r EXCEPT !.confirmations = confs, !.asked = reqs]
  OBVIOUS
<1>9. managers' = [managers EXCEPT ![m] = s]
  BY <1>2, <1>5, <1>6, <1>7, <1>8 DEF MgrRec
<1>10. s.confirmations = confs /\ s.asked = reqs /\ s.transport = r.transport
  BY <1>2, <1>8 DEF MgrRec
<1>11. Perms(s) /\ confs \in Seq(Permissions) /\ reqs \in [Permissions -> AskedRec]
  <2>1. Perms(r)
    BY <1>2 DEF MgrPlace
  <2>2. s.confirmations = Append(r.confirmations, p) /\ s.asked = [r.asked EXCEPT ![p] = a]
    BY <1>6, <1>7, <1>10
  <2> QED BY <1>2, <1>4, <1>5, <1>10, <2>1, <2>2, AskedPerms
<1>12. Follows(r, s) /\ s.pending = r.pending
  <2>1. /\ s \in MgrRec /\ s.conversation = r.conversation /\ s.lastId = r.lastId
        /\ s.pending = r.pending /\ s.status = r.status /\ s.child = r.child
    BY <1>2, <1>8, <1>11 DEF MgrRec
  <2> QED BY <1>10, <1>11, <2>1 DEF Follows
<1>13. Holds(agentManagers, [managers EXCEPT ![m] = s], ipcCalls)
  BY <1>1, <1>2, <1>12, ManagerAlone DEF Inv
<1> QED BY <1>9, <1>13 DEF AgentAsksPermission, Inv

\* The agent's last update of a turn, and the end of its process.
LEMMA AgentInv ==
  ASSUME Inv, NEW m \in DOMAIN managers, AgentFinishes(m) \/ AgentExits(m) \/ ForceKill(m)
  PROVE  Inv'
<1>1. PICK r : r = managers[m]
  OBVIOUS
<1>2. m \in 1 .. Len(managers) /\ r \in MgrRec /\ MgrPlace(agentManagers, m, r)
  BY <1>1, OfManager
<1>3. PICK finished : finished = [r EXCEPT !.status = "finished"]
  OBVIOUS
<1>4. PICK ended : ended = [r EXCEPT !.child = "exited", !.inbox = {}]
  OBVIOUS
<1>5. PICK s \in {finished, ended} : managers' = [managers EXCEPT ![m] = s]
  <2>1. CASE AgentFinishes(m)
    BY <1>1, <1>3, <2>1 DEF AgentFinishes
  <2>2. CASE AgentExits(m) \/ ForceKill(m)
    <3>1. managers' = [managers EXCEPT ![m].child = "exited", ![m].inbox = {}]
      BY <2>2 DEF AgentExits, ForceKill
    <3>2. managers' = [managers EXCEPT ![m] = ended]
      <4>1. managers \in Seq(MgrRec)
        BY DEF Inv, Holds
      <4> QED BY <1>1, <1>2, <1>4, <3>1, <4>1
    <3> QED BY <3>2
  <2> QED BY <2>1, <2>2
<1>6. /\ s \in MgrRec /\ s.conversation = r.conversation /\ s.lastId = r.lastId
      /\ s.pending = r.pending /\ s.transport = r.transport
      /\ s.status \in {r.status, "finished"} /\ s.child \in {r.child, "exited"}
      /\ s.confirmations = r.confirmations /\ s.asked = r.asked
  <2>1. CASE s = finished
    BY <1>2, <1>3, <2>1 DEF MgrRec
  <2>2. CASE s = ended
    BY <1>2, <1>4, <2>2 DEF MgrRec
  <2> QED BY <1>5, <2>1, <2>2
<1>7. Perms(s)
  BY <1>2, <1>6, PermsSame DEF MgrPlace
<1>8. Follows(r, s)
  BY <1>6, <1>7 DEF Follows
<1>9. Holds(agentManagers, [managers EXCEPT ![m] = s], ipcCalls)
  BY <1>1, <1>2, <1>6, <1>8, ManagerAlone DEF Inv
<1> QED BY <1>5, <1>9 DEF AgentFinishes, AgentExits, ForceKill, Inv

-----------------------------------------------------------------------------
(* Theorems. *)

LEMMA NextInv == Inv /\ [AgentNext]_agentVars => Inv'
<1> SUFFICES ASSUME Inv, [AgentNext]_agentVars PROVE Inv'
  OBVIOUS
<1>1. CASE UNCHANGED agentVars
  BY <1>1 DEF agentVars, Inv
<1>2. ASSUME NEW c \in Conversations, AcpInitialize(c) PROVE Inv'
  BY <1>2, InitializeInv
<1>3. ASSUME NEW c \in Conversations, AcpSendMessage(c) PROVE Inv'
  BY <1>3, SendMessageInv
<1>4. ASSUME NEW c \in Conversations, AcpSetOption(c) PROVE Inv'
  BY <1>4, SetOptionInv
<1>5. ASSUME NEW c \in Conversations, NEW callId \in CallIds, NEW offered \in BOOLEAN,
             AcpConfirmTool(c, callId, offered)
      PROVE  Inv'
  BY <1>5, ConfirmInv
<1>6. ASSUME NEW c \in Conversations, AcpStop(c) PROVE Inv'
  BY <1>6, StopInv
<1>7. CASE StopAll
  BY <1>7, StopAllInv
<1>8. ASSUME NEW i \in DOMAIN ipcCalls,
             Resume(i) \/ RequestTimeout(i) \/ \E result \in {"ok", "error"} : TokenReply(i, result)
      PROVE  Inv'
  BY <1>8, ResumeInv, TimeoutInv, TokenReplyInv
<1>9. ASSUME NEW m \in DOMAIN managers, NEW id, NEW result \in {"ok", "error"},
             AgentResponds(m, id, result)
      PROVE  Inv'
  BY <1>9, RespondsInv
<1>10. ASSUME NEW m \in DOMAIN managers, NEW callId \in CallIds, AgentAsksPermission(m, callId)
       PROVE  Inv'
  BY <1>10, AsksInv
<1>11. ASSUME NEW m \in DOMAIN managers, AgentFinishes(m) \/ AgentExits(m) \/ ForceKill(m)
       PROVE  Inv'
  BY <1>11, AgentInv
<1> QED
  BY <1>1, <1>2, <1>3, <1>4, <1>5, <1>6, <1>7, <1>8, <1>9, <1>10, <1>11 DEF AgentNext

\* In every reachable state each manager, each agent's process, each call that
\* awaits and each permission request is in one of the places Holds names.
THEOREM AcpInvariant == AgentSpec => []Inv
<1>1. AgentInit => Inv
  BY InitInv
<1>2. Inv /\ [AgentNext]_agentVars => Inv'
  BY NextInv
<1> QED BY <1>1, <1>2, PTL DEF AgentSpec

\* However acp-initialize, acp-stop, timeouts and the agents' own ends overlap,
\* an agent's process that nobody has told to end belongs to the manager its
\* conversation is registered with, and can be reached through its transport.
THEOREM NoOrphanAgentAlways == AgentSpec => []NoOrphanAgent
<1>1. Inv => NoOrphanAgent
  BY OfManager DEF NoOrphanAgent, MgrPlace, Reachable
<1> QED BY <1>1, AcpInvariant, PTL

\* A manager that says "running" has a sendMessage behind it that still waits or
\* has failed: no turn ends, is stopped or is answered without the status moving.
THEOREM RunningHasATurnAlways == AgentSpec => []RunningHasATurn
<1>1. Inv => RunningHasATurn
  <2> SUFFICES ASSUME Inv, NEW m \in DOMAIN managers, managers[m].status = "running"
               PROVE  \E i \in DOMAIN ipcCalls :
                        /\ ipcCalls[i].manager = m /\ ipcCalls[i].kind = "send"
                        /\ InFlight(ipcCalls[i]) \/ ipcCalls[i].stage = "failed"
    BY DEF RunningHasATurn
  <2>1. TurnOf(ipcCalls, m)
    BY OfManager DEF Inv, Holds
  <2>2. DOMAIN ipcCalls = 1 .. Len(ipcCalls)
    BY DEF Inv, Holds
  <2> QED BY <2>1, <2>2 DEF TurnOf
<1> QED BY <1>1, AcpInvariant, PTL

\* A call that waits for a request has the entry in pending that will settle it,
\* a call that has its result has none, and no two calls wait for one answer.
THEOREM WaitingIsPendingAlways == AgentSpec => []WaitingIsPending
<1>1. Inv => WaitingIsPending
  <2> SUFFICES ASSUME Inv PROVE WaitingIsPending
    OBVIOUS
  <2>1. DOMAIN ipcCalls = 1 .. Len(ipcCalls)
    BY DEF Inv, Holds
  <2>2. ASSUME NEW i \in DOMAIN ipcCalls, NEW j \in DOMAIN ipcCalls, i # j,
               InFlight(ipcCalls[i]), InFlight(ipcCalls[j]),
               "token" \notin {ipcCalls[i].stage, ipcCalls[j].stage}
        PROVE  <<ipcCalls[i].manager, ipcCalls[i].request>> # <<ipcCalls[j].manager, ipcCalls[j].request>>
    <3>1. Pends(ipcCalls[i]) /\ Pends(ipcCalls[j])
      BY <2>2 DEF Pends
    <3>2. ipcCalls[i].manager = ipcCalls[j].manager => ipcCalls[i].request # ipcCalls[j].request
      BY <2>1, <2>2, <3>1 DEF Inv, Holds, Apart
    <3> QED BY <3>2
  <2>3. ASSUME NEW i \in DOMAIN ipcCalls, InFlight(ipcCalls[i]), ipcCalls[i].stage # "token"
        PROVE  ipcCalls[i].request \in managers[ipcCalls[i].manager].pending <=> ipcCalls[i].result = "wait"
    BY <2>3, OfCall DEF CallPlace, Pends
  <2> QED BY <2>2, <2>3 DEF WaitingIsPending
<1> QED BY <1>1, AcpInvariant, PTL

\* What runs or waits has something that will end it, whatever overlaps.
THEOREM NothingWaitsInVainAlways == AgentSpec => []NothingWaitsInVain
BY RunningHasATurnAlways, WaitingIsPendingAlways, PTL DEF NothingWaitsInVain

\* A permission request an agent made while its transport was open waits in the
\* manager's confirmations or was answered exactly once, whatever the order of
\* the user's choices, acp-stop, a second acp-initialize and the shutdown.
THEOREM PermissionAnsweredOnceAlways == AgentSpec => []PermissionAnsweredOnce
<1>1. Inv => PermissionAnsweredOnce
  <2> SUFFICES ASSUME Inv, NEW m \in DOMAIN managers, NEW p \in Permissions,
                      managers[m].asked[p].state = "asked"
               PROVE  IF p \in Range(managers[m].confirmations)
                      THEN managers[m].asked[p].answers = 0 /\ managers[m].transport = "open"
                      ELSE managers[m].asked[p].answers = 1
    BY DEF PermissionAnsweredOnce
  <2>1. managers[m] \in MgrRec /\ Perms(managers[m])
    BY OfManager DEF MgrPlace
  <2>2. managers[m].confirmations \in Seq(Permissions)
    BY <2>1 DEF MgrRec
  <2>3. p \in Range(managers[m].confirmations) <=> InLine(managers[m], p)
    <3>1. DOMAIN managers[m].confirmations = 1 .. Len(managers[m].confirmations)
      BY <2>2
    <3> QED BY <3>1 DEF Range, InLine
  <2> QED BY <2>1, <2>3 DEF Perms
<1> QED BY <1>1, AcpInvariant, PTL

-----------------------------------------------------------------------------
(* WaveWindow *)

WAction == {e \in Actions : /\ e.op \in {"switchtab", "closetab"} => e.tab \in Tabs
                            /\ e.op = "switchworkspace" => e.ws \in Workspaces
                            /\ e.op # "switchtab" => e.backend}
WinRec ==
  [st : {"none", "open", "deleting", "closed"}, ws : Workspaces \cup {None},
   loaded : [Tabs -> Views \cup {None}], active : Views \cup {None}, queue : Seq(WAction),
   pc : {"idle", "turn", "call", "reply", "obtain", "config", "init", "ready", "settle"},
   tab : Tabs \cup {None}, reply : Tabs \cup {None} \cup Replies, asks : {"no", "sole", "more"}]
ViewRec ==
  [tab : Tabs \cup {None}, win : Windows \cup {None}, active : BOOLEAN,
   life : {"none", "live", "closing", "gone"}, page : {"loading", "loaded", "ready"},
   child : Windows \cup {None}, shown : SUBSET Windows]
DbRec ==
  [tabs : [Workspaces -> Seq(Tabs)], active : [Workspaces -> Tabs \cup {None}],
   win : [Windows -> Workspaces \cup {None}], named : SUBSET Workspaces, used : SUBSET Tabs]
AskRec ==
  [n : Nat, win : Windows, ws : Workspaces \cup {None},
   stage : {"list", "owned", "free", "deleted"}, old : Workspaces \cup {None}]

\* A window by itself: what is in process heads the queue, and only the first
\* action of a window is not told to the backend.
WinOK(r) ==
  /\ r \in WinRec
  /\ \A i \in 1 .. Len(r.queue) : i > 1 => r.queue[i].backend
  /\ r.pc \notin {"idle", "turn"} => r.queue # <<>>
  /\ r.pc \in {"obtain", "config"} => r.tab \in Tabs
  /\ r.pc = "reply" => r.reply # None
  /\ r.st # "none" => r.ws \in Workspaces
  /\ r.st = "none" => r = NewWindow

DbGood(d) == /\ d \in DbRec
             /\ \A s \in Workspaces : d.tabs[s] # <<>> => d.active[s] \in Tabs
DbOK == DbGood(db)

Shape ==
  /\ win \in [Windows -> WinRec] /\ \A w \in Windows : WinOK(win[w])
  /\ view \in [Views -> ViewRec] /\ cache \in [Tabs -> Views \cup {None}]
  /\ recent \subseteq Views /\ ops \in Nat /\ failures \in Nat

Asks == /\ asked \subseteq AskRec
        /\ \A c \in asked : /\ win[c.win].st # "none"
                            /\ c.stage # "deleted" => c.ws \in Workspaces

\* A window that was closed and has given up what it had in process.
Late(r) == r.st # "open" /\ r.pc \in {"turn", "idle"}

NewViews ==
  \A v \in Views : view[v].life = "none" =>
    /\ view[v] = NewView /\ v \notin recent
    /\ \A t \in Tabs : cache[t] # v
    /\ \A w \in Windows : win[w].active # v /\ \A t \in Tabs : win[w].loaded[t] # v
OldViews ==
  \A v \in Views : view[v].life # "none" =>
    view[v].tab \in Tabs /\ view[v].win \in Windows /\ win[view[v].win].st # "none"
\* What was made for a window that is open was shown in it.
MadeShown ==
  \A v \in Views : view[v].life # "none" /\ Open(view[v].win) => view[v].win \in view[v].shown
Cached ==
  \A t \in Tabs : cache[t] # None => view[cache[t]].life = "live" /\ view[cache[t]].tab = t

\* What a window lists and shows was shown in it.
ListedShown ==
  \A w \in Windows, t \in Tabs :
    win[w].loaded[t] # None /\ ~Late(win[w]) =>
      view[win[w].loaded[t]].tab = t /\ w \in view[win[w].loaded[t]].shown
ActiveShown ==
  \A w \in Windows :
    win[w].active # None /\ ~Late(win[w]) => w \in view[win[w].active].shown
ActiveListed ==
  \A w \in Windows, t \in Tabs :
    Open(w) /\ win[w].loaded[t] # None =>
      /\ win[w].active # None
      /\ win[w].loaded[view[win[w].active].tab] = win[w].active

\* What is shown in one window only lives while that window needs it.
ListedLives ==
  \A w \in Windows, t \in Tabs :
    win[w].loaded[t] # None /\ Open(w) /\ view[win[w].loaded[t]].win = w
      /\ view[win[w].loaded[t]].shown = {w} => view[win[w].loaded[t]].life = "live"
ActiveLives ==
  \A w \in Windows, t \in Tabs :
    Open(w) /\ win[w].loaded[t] # None /\ view[win[w].active].shown = {w} =>
      view[win[w].active].life = "live" /\ view[win[w].active].active
Children ==
  \A w \in Windows, v \in Views :
    Open(w) /\ view[v].win = w /\ view[v].shown = {w} =>
      view[v].child = w \/ (win[w].pc = "init" /\ win[w].active = v)
Starting ==
  \A w \in Windows : win[w].pc = "init" => win[w].active # None /\ view[win[w].active].win = w

Links == /\ NewViews /\ OldViews /\ MadeShown /\ Cached /\ ListedShown /\ ActiveShown /\ ActiveListed
         /\ ListedLives /\ ActiveLives /\ Children /\ Starting

\* The views are the same but for pages that end, those in out among them; nothing
\* new enters the cache; and a window lists and shows what it did, or less: what
\* goes out is not what it needs.
ViewKept(v, out) ==
  /\ view'[v].tab = view[v].tab /\ view'[v].win = view[v].win /\ view'[v].active = view[v].active
  /\ view'[v].child \in {view[v].child, view[v].win} /\ view'[v].shown = view[v].shown
  /\ view[v].life = "none" => view'[v] = view[v]
  /\ view[v].life # "none" => view'[v].life # "none"
  /\ view[v].life = "live" /\ v \notin out => view'[v].life = "live"
WindowKept(w, out) ==
  /\ win'[w].active = win[w].active
  /\ \A t \in Tabs : win'[w].loaded[t] \in {win[w].loaded[t], None}
  /\ win[w].st # "none" => win'[w].st # "none"
  /\ win'[w].st = "open" => win[w].st \in {"open", "none"}
  /\ Late(win[w]) /\ win[w].st # "none" => Late(win'[w])
  /\ win'[w].pc = "init" => win[w].pc = "init"
  /\ win[w].pc = "init" /\ win'[w].st = "open" =>
       win'[w].pc = "init" \/ view'[win[w].active].child = w
  /\ win'[w].st = "open" =>
       \A t \in Tabs : win'[w].loaded[t] # None =>
         /\ win[w].loaded[t] \notin out \/ view[win[w].loaded[t]].shown # {w}
              \/ view[win[w].loaded[t]].win # w
         /\ win[w].active \notin out \/ view[win[w].active].shown # {w}
         /\ win'[w].loaded[view[win[w].active].tab] = win[w].loaded[view[win[w].active].tab]

LEMMA LinksKept ==
  ASSUME WindowAssumption, Shape, Links, Shape', NEW out \in SUBSET Views,
         \A v \in Views : ViewKept(v, out),
         \A t \in Tabs : cache'[t] = None \/ (cache'[t] = cache[t] /\ cache[t] \notin out),
         \A v \in recent' : v \in recent \/ view[v].life # "none",
         \A w \in Windows : WindowKept(w, out)
  PROVE  Links'
<1>1. \A w \in Windows : /\ win[w] \in WinRec /\ win'[w] \in WinRec
                         /\ win[w].st = "none" => win[w] = NewWindow
  BY DEF Shape, WinOK
<1>2. \A v \in Views : view[v] \in ViewRec /\ view'[v] \in ViewRec
  BY DEF Shape
<1>3. \A t \in Tabs : cache[t] \in Views \cup {None} /\ cache'[t] \in Views \cup {None}
  BY DEF Shape
<1>4. None \notin Views /\ None \notin Tabs
  BY DEF WindowAssumption
<1>5. \A w \in Windows : /\ win[w].active \in Views \cup {None} /\ win'[w].active = win[w].active
                         /\ \A t \in Tabs : /\ win[w].loaded[t] \in Views \cup {None}
                                            /\ win'[w].loaded[t] \in {win[w].loaded[t], None}
  BY <1>1 DEF WinRec, WindowKept
\* A window that has just been opened lists nothing.
<1>6. \A w \in Windows : win[w].st = "none" =>
        win[w].active = None /\ (\A t \in Tabs : win[w].loaded[t] = None) /\ win[w].pc = "idle"
  BY <1>1 DEF NewWindow, NoLoaded
<1>7. \A w \in Windows, t \in Tabs : win'[w].loaded[t] # None =>
        win'[w].loaded[t] = win[w].loaded[t] /\ win[w].loaded[t] \in Views /\ win[w].st # "none"
  BY <1>5, <1>6
<1>8. \A w \in Windows : win'[w].active # None => win'[w].active \in Views /\ win[w].st # "none"
  BY <1>5, <1>6
<1>9. NewViews'
  <2>1. SUFFICES ASSUME NEW v \in Views, view'[v].life = "none"
                 PROVE  /\ view'[v] = NewView /\ v \notin recent'
                        /\ \A t \in Tabs : cache'[t] # v
                        /\ \A w \in Windows : win'[w].active # v /\ \A t \in Tabs : win'[w].loaded[t] # v
    BY DEF NewViews
  <2>2. view[v].life = "none" /\ view'[v] = view[v]
    BY <2>1 DEF ViewKept
  <2>3. /\ view[v] = NewView /\ v \notin recent /\ \A t \in Tabs : cache[t] # v
        /\ \A w \in Windows : win[w].active # v /\ \A t \in Tabs : win[w].loaded[t] # v
    BY <2>2 DEF Links, NewViews
  <2>4. v # None
    BY <1>4
  <2> QED BY <1>5, <2>1, <2>2, <2>3, <2>4
<1>10. OldViews'
  <2>1. SUFFICES ASSUME NEW v \in Views, view'[v].life # "none"
                 PROVE  /\ view'[v].tab \in Tabs /\ view'[v].win \in Windows
                        /\ win'[view'[v].win].st # "none"
    BY DEF OldViews
  <2>2. view[v].life # "none" /\ view'[v].tab = view[v].tab /\ view'[v].win = view[v].win
    BY <2>1 DEF ViewKept
  <2>3. view[v].tab \in Tabs /\ view[v].win \in Windows /\ win[view[v].win].st # "none"
    BY <2>2 DEF Links, OldViews
  <2> QED BY <2>2, <2>3 DEF WindowKept
<1>21. MadeShown'
  <2>1. SUFFICES ASSUME NEW v \in Views, view'[v].life # "none", win'[view'[v].win].st = "open"
                 PROVE  view'[v].win \in view'[v].shown
    BY DEF MadeShown, Open
  <2>2. /\ view[v].life # "none" /\ view'[v].win = view[v].win /\ view'[v].shown = view[v].shown
    BY <2>1 DEF ViewKept
  <2>3. view[v].win \in Windows /\ win[view[v].win].st # "none"
    BY <2>2 DEF Links, OldViews
  <2>4. win[view[v].win].st = "open"
    BY <2>1, <2>2, <2>3 DEF WindowKept
  <2> QED BY <2>2, <2>4 DEF Links, MadeShown, Open
<1>11. Cached'
  <2>1. SUFFICES ASSUME NEW t \in Tabs, cache'[t] # None
                 PROVE  view'[cache'[t]].life = "live" /\ view'[cache'[t]].tab = t
    BY DEF Cached
  <2>2. PICK v \in Views : v = cache[t] /\ cache'[t] = v /\ v \notin out
    BY <1>3, <2>1
  <2>3. view[v].life = "live" /\ view[v].tab = t
    BY <2>1, <2>2 DEF Links, Cached
  <2> QED BY <2>2, <2>3 DEF ViewKept
<1>12. \A w \in Windows : ~Late(win'[w]) /\ win[w].st # "none" => ~Late(win[w])
  BY DEF WindowKept
<1>13. ListedShown'
  <2>1. SUFFICES ASSUME NEW w \in Windows, NEW t \in Tabs, win'[w].loaded[t] # None, ~Late(win'[w])
                 PROVE  /\ view'[win'[w].loaded[t]].tab = t /\ w \in view'[win'[w].loaded[t]].shown
    BY DEF ListedShown
  <2>2. PICK v \in Views : v = win[w].loaded[t] /\ win'[w].loaded[t] = v
    BY <1>7, <2>1
  <2>3. view[v].tab = t /\ w \in view[v].shown
    BY <1>4, <1>7, <1>12, <2>1, <2>2 DEF Links, ListedShown
  <2> QED BY <2>2, <2>3 DEF ViewKept
<1>14. ActiveShown'
  <2>1. SUFFICES ASSUME NEW w \in Windows, win'[w].active # None, ~Late(win'[w])
                 PROVE  w \in view'[win'[w].active].shown
    BY DEF ActiveShown
  <2>2. PICK v \in Views : v = win[w].active /\ win'[w].active = v
    BY <1>5, <1>8, <2>1
  <2>3. w \in view[v].shown
    BY <1>4, <1>8, <1>12, <2>1, <2>2 DEF Links, ActiveShown
  <2> QED BY <2>2, <2>3 DEF ViewKept
\* What an open window lists and shows.
<1>15. ASSUME NEW w \in Windows, NEW t \in Tabs, win'[w].st = "open", win'[w].loaded[t] # None
       PROVE  /\ win[w].st = "open" /\ win[w].loaded[t] # None /\ win[w].active \in Views
              /\ win'[w].active = win[w].active /\ win[w].loaded[view[win[w].active].tab] = win[w].active
              /\ win'[w].loaded[view[win[w].active].tab] = win[w].active
  <2>1. win[w].st = "open" /\ win[w].loaded[t] # None
    BY <1>4, <1>7, <1>15 DEF WindowKept
  <2>2. win[w].active # None /\ win[w].loaded[view[win[w].active].tab] = win[w].active
    BY <2>1 DEF Links, ActiveListed, Open
  <2>3. win'[w].loaded[view[win[w].active].tab] = win[w].loaded[view[win[w].active].tab]
    BY <1>15 DEF WindowKept
  <2> QED BY <1>5, <2>1, <2>2, <2>3
<1>16. ActiveListed'
  <2>1. SUFFICES ASSUME NEW w \in Windows, NEW t \in Tabs, win'[w].st = "open", win'[w].loaded[t] # None
                 PROVE  /\ win'[w].active # None
                        /\ win'[w].loaded[view'[win'[w].active].tab] = win'[w].active
    BY DEF ActiveListed, Open
  <2>2. PICK v \in Views : v = win[w].active /\ win'[w].active = v /\ win'[w].loaded[view[v].tab] = v
    BY <1>15, <2>1
  <2> QED BY <1>4, <2>2 DEF ViewKept
<1>17. ListedLives'
  <2>1. SUFFICES ASSUME NEW w \in Windows, NEW t \in Tabs, win'[w].st = "open", win'[w].loaded[t] # None,
                        view'[win'[w].loaded[t]].win = w, view'[win'[w].loaded[t]].shown = {w}
                 PROVE  view'[win'[w].loaded[t]].life = "live"
    BY DEF ListedLives, Open
  <2>2. PICK v \in Views : v = win[w].loaded[t] /\ win'[w].loaded[t] = v
    BY <1>7, <2>1
  <2>3. view[v].win = w /\ view[v].shown = {w}
    BY <2>1, <2>2 DEF ViewKept
  <2>4. view[v].life = "live"
    BY <1>4, <1>15, <2>1, <2>2, <2>3 DEF Links, ListedLives, Open
  <2>5. v \notin out
    BY <2>1, <2>2, <2>3 DEF WindowKept
  <2> QED BY <2>2, <2>4, <2>5 DEF ViewKept
<1>18. ActiveLives'
  <2>1. SUFFICES ASSUME NEW w \in Windows, NEW t \in Tabs, win'[w].st = "open", win'[w].loaded[t] # None,
                        view'[win'[w].active].shown = {w}
                 PROVE  view'[win'[w].active].life = "live" /\ view'[win'[w].active].active
    BY DEF ActiveLives, Open
  <2>2. PICK v \in Views : v = win[w].active /\ win'[w].active = v
    BY <1>15, <2>1
  <2>3. view[v].shown = {w}
    BY <2>1, <2>2 DEF ViewKept
  <2>4. view[v].life = "live" /\ view[v].active
    BY <1>15, <2>1, <2>2, <2>3 DEF Links, ActiveLives, Open
  <2>5. v \notin out
    BY <2>1, <2>2, <2>3 DEF WindowKept
  <2> QED BY <2>2, <2>4, <2>5 DEF ViewKept
<1>19. Children'
  <2>1. SUFFICES ASSUME NEW w \in Windows, NEW v \in Views, win'[w].st = "open",
                        view'[v].win = w, view'[v].shown = {w}
                 PROVE  view'[v].child = w \/ (win'[w].pc = "init" /\ win'[w].active = v)
    BY DEF Children, Open
  <2>2. view[v].win = w /\ view[v].shown = {w} /\ view'[v].child \in {view[v].child, w}
    BY <2>1 DEF ViewKept
  <2>3. view[v].life # "none"
    <3>1. NewView.shown = {}
      BY DEF NewView
    <3> QED BY <2>2, <3>1 DEF Links, NewViews
  <2>4. win[w].st = "open"
    <3>1. win[w].st # "none"
      BY <2>2, <2>3 DEF Links, OldViews
    <3> QED BY <2>1, <3>1 DEF WindowKept
  <2>5. view[v].child = w \/ (win[w].pc = "init" /\ win[w].active = v)
    BY <2>2, <2>4 DEF Links, Children, Open
  <2>6. win'[w].active = win[w].active
    BY <1>5
  <2> QED BY <2>1, <2>2, <2>5, <2>6 DEF WindowKept
<1>20. Starting'
  <2>1. SUFFICES ASSUME NEW w \in Windows, win'[w].pc = "init"
                 PROVE  win'[w].active # None /\ view'[win'[w].active].win = w
    BY DEF Starting
  <2>2. win[w].pc = "init" /\ win'[w].active = win[w].active
    BY <2>1 DEF WindowKept
  <2>3. win[w].active # None /\ view[win[w].active].win = w
    BY <2>2 DEF Links, Starting
  <2> QED BY <1>5, <2>2, <2>3 DEF ViewKept
<1> QED BY <1>9, <1>10, <1>11, <1>13, <1>14, <1>16, <1>17, <1>18, <1>19, <1>20, <1>21 DEF Links

\* Steps of one window that leave what it lists and shows.
RecKept(r, s) ==
  /\ s.active = r.active /\ s.loaded = r.loaded
  /\ s.st = r.st \/ (r.st \notin {"open", "none"} /\ s.st \notin {"open", "none"})
  /\ Late(r) => Late(s)
  /\ s.pc = "init" => r.pc = "init"
  /\ r.pc = "init" => s.pc = "init" \/ s.st # "open"

WindowsOK == win' \in [Windows -> WinRec] /\ \A w \in Windows : WinOK(win'[w])

LEMMA OneWindowKept ==
  ASSUME Shape, NEW w \in Windows, NEW s, WinOK(s), RecKept(win[w], s),
         win' = [win EXCEPT ![w] = s]
  PROVE  WindowsOK /\ \A u \in Windows : WindowKept(u, {})
<1>1. s \in WinRec
  BY DEF WinOK
<1>2. win'[w] = s /\ \A u \in Windows : u # w => win'[u] = win[u]
  BY DEF Shape
<1>3. win' \in [Windows -> WinRec]
  BY <1>1 DEF Shape
<1>4. \A u \in Windows : WinOK(win'[u])
  BY <1>2 DEF Shape
<1>5. ASSUME NEW u \in Windows, u # w PROVE WindowKept(u, {})
  BY <1>2, <1>5 DEF WindowKept
<1>6. WindowKept(w, {})
  <2>1. PICK r : r = win[w]
    OBVIOUS
  <2>2. RecKept(r, s)
    BY <2>1
  <2> QED BY <1>2, <2>1, <2>2 DEF WindowKept, RecKept
<1> QED BY <1>3, <1>4, <1>5, <1>6 DEF WindowsOK

LEMMA SameWindows ==
  ASSUME Shape, win' = win
  PROVE  WindowsOK /\ \A u \in Windows : WindowKept(u, {})
BY DEF Shape, WindowsOK, WindowKept

LEMMA QueueTail ==
  ASSUME NEW r, WinOK(r), r.queue # <<>>
  PROVE  /\ Tail(r.queue) \in Seq(WAction)
         /\ \A i \in 1 .. Len(Tail(r.queue)) : Tail(r.queue)[i].backend
         /\ r.queue[1] \in WAction
<1>1. PICK q \in Seq(WAction) : q = r.queue
  BY DEF WinOK, WinRec
<1>2. /\ Tail(q) \in Seq(WAction) /\ Len(Tail(q)) = Len(q) - 1
      /\ \A i \in 1 .. Len(Tail(q)) : Tail(q)[i] = q[i + 1]
  BY <1>1, HeadTailProperties
<1>3. Len(q) \in Nat /\ Len(q) > 0
  BY <1>1, EmptySeq, LenProperties
<1>4. q[1] \in WAction
  BY <1>3, ElementOfSeq
<1>5. ASSUME NEW i \in 1 .. Len(Tail(q)) PROVE Tail(q)[i].backend
  <2>1. i + 1 \in 1 .. Len(q) /\ i + 1 > 1
    BY <1>2, <1>3
  <2>2. q[i + 1].backend
    BY <1>1, <2>1 DEF WinOK
  <2> QED BY <1>2, <2>2
<1> QED BY <1>1, <1>2, <1>4, <1>5

\* The end of an action, and of the loop.
LEMMA EndOfAction ==
  ASSUME NEW r, WinOK(r), r.pc \notin {"turn", "idle"}, r.pc = "init" => r.st # "open",
         r.st # "none"
  PROVE  /\ WinOK(NextTurn(r)) /\ NextTurn(r).pc = "turn"
         /\ WinOK(Return(r)) /\ Return(r).pc = "idle"
         /\ RecKept(r, NextTurn(r)) /\ RecKept(r, Return(r))
<1>1. r \in WinRec /\ r.queue # <<>> /\ r.ws \in Workspaces
  BY DEF WinOK
<1>2. PICK q \in Seq(WAction) : q = Tail(r.queue) /\ \A i \in 1 .. Len(q) : q[i].backend
  BY <1>1, QueueTail
<1>3. /\ NextTurn(r) = [r EXCEPT !.queue = q, !.pc = "turn", !.reply = None, !.tab = None]
      /\ Return(r) = [r EXCEPT !.queue = q, !.pc = "idle", !.reply = None, !.tab = None]
  BY <1>2 DEF NextTurn, Return
<1>4. ASSUME NEW s, NEW pc \in {"turn", "idle"},
             s = [r EXCEPT !.queue = q, !.pc = pc, !.reply = None, !.tab = None]
      PROVE  WinOK(s) /\ s.pc = pc /\ RecKept(r, s)
  <2>1. s \in WinRec /\ s.pc = pc /\ s.queue = q /\ s.st = r.st /\ s.ws = r.ws
        /\ s.active = r.active /\ s.loaded = r.loaded
    BY <1>1, <1>2, <1>4 DEF WinRec
  <2> QED BY <1>1, <1>2, <1>4, <2>1 DEF WinOK, RecKept, Late
<1> QED BY <1>3, <1>4

LEMMA Queued ==
  ASSUME WindowAssumption, Shape, NEW w \in Windows, win[w].st # "none", NEW e \in WAction, e.backend, Enqueue(w, e)
  PROVE  WindowsOK /\ \A u \in Windows : WindowKept(u, {})
<1>1. PICK r : r = win[w]
  OBVIOUS
<1>2. WinOK(r) /\ r \in WinRec
  BY <1>1 DEF Shape, WinOK
<1>3. PICK q \in Seq(WAction) : q = r.queue
  BY <1>2 DEF WinRec
<1>4. Len(q) \in Nat /\ \A i \in 1 .. Len(q) : q[i] \in WAction
  BY <1>3, LenProperties, ElementOfSeq
<1>5. CASE Len(q) >= 2
  <2>1. PICK p : p = [q EXCEPT ![2] = e]
    OBVIOUS
  <2>2. p \in Seq(WAction) /\ Len(p) = Len(q) /\ \A i \in 1 .. Len(q) : p[i] = IF i = 2 THEN e ELSE q[i]
    BY <1>3, <1>4, <1>5, <2>1, ExceptSeq, LenProperties
  <2>3. PICK s : s = [r EXCEPT !.queue = p]
    OBVIOUS
  <2>4. s \in WinRec /\ s.queue = p /\ s.pc = r.pc /\ s.st = r.st /\ s.ws = r.ws /\ s.tab = r.tab
        /\ s.reply = r.reply /\ s.active = r.active /\ s.loaded = r.loaded
    BY <1>2, <2>2, <2>3 DEF WinRec
  <2>5. s.queue # <<>>
    BY <1>5, <2>2, <2>4, EmptySeq
  <2>6. \A i \in 1 .. Len(s.queue) : i > 1 => s.queue[i].backend
    BY <1>2, <1>3, <2>2, <2>4 DEF WinOK
  <2>7. WinOK(s)
    BY <1>1, <1>2, <2>4, <2>5, <2>6 DEF WinOK
  <2>8. RecKept(r, s)
    BY <2>4 DEF RecKept, Late
  <2>9. win' = [win EXCEPT ![w] = s]
    BY <1>1, <1>3, <1>5, <2>1, <2>3 DEF Enqueue
  <2> QED BY <1>1, <2>7, <2>8, <2>9, OneWindowKept
<1>6. CASE ~(Len(q) >= 2)
  <2>1. PICK p : p = Append(q, e)
    OBVIOUS
  <2>2. p \in Seq(WAction) /\ Len(p) = Len(q) + 1
        /\ \A i \in 1 .. Len(p) : p[i] = IF i = Len(p) THEN e ELSE q[i]
    BY <1>3, <1>4, <2>1, AppendProperties
  <2>3. PICK pc : pc = IF q = <<>> THEN "turn" ELSE r.pc
    OBVIOUS
  <2>4. PICK s : s = [r EXCEPT !.queue = p, !.pc = pc]
    OBVIOUS
  <2>5. q = <<>> => r.pc \in {"idle", "turn"}
    BY <1>2, <1>3 DEF WinOK
  <2>6. s \in WinRec /\ s.queue = p /\ s.pc = pc /\ s.st = r.st /\ s.ws = r.ws /\ s.tab = r.tab
        /\ s.reply = r.reply /\ s.active = r.active /\ s.loaded = r.loaded
    BY <1>2, <2>2, <2>3, <2>4 DEF WinRec
  <2>7. s.queue # <<>>
    BY <1>4, <2>2, <2>6, EmptySeq
  <2>8. \A i \in 1 .. Len(s.queue) : i > 1 => s.queue[i].backend
    BY <1>2, <1>3, <1>4, <2>2, <2>6 DEF WinOK
  <2>9. pc = r.pc \/ (pc = "turn" /\ r.pc \in {"idle", "turn"})
    BY <2>3, <2>5
  <2>10. WinOK(s)
    BY <1>1, <1>2, <2>6, <2>7, <2>8, <2>9 DEF WinOK
  <2>11. RecKept(r, s)
    BY <2>6, <2>9 DEF RecKept, Late
  <2>12. win' = [win EXCEPT ![w] = s]
    BY <1>1, <1>3, <1>6, <2>1, <2>3, <2>4 DEF Enqueue
  <2> QED BY <1>1, <2>10, <2>11, <2>12, OneWindowKept
<1> QED BY <1>5, <1>6

WindowInv == Shape /\ DbOK /\ Asks /\ Links

\* No window is forgotten.
Remembered == \A w \in Windows : win[w].st # "none" => win'[w].st # "none"

LEMMA ViewsStay ==
  ASSUME WindowAssumption, Shape, Links, WindowsOK, \A u \in Windows : WindowKept(u, {}),
         view' = view, cache' = cache, ops' \in Nat, failures' \in Nat, recent' \in SUBSET Views,
         \A v \in recent' : v \in recent \/ view[v].life # "none"
  PROVE  Shape' /\ Links' /\ Remembered
<1>1. Shape'
  BY DEF Shape, WindowsOK
<1>2. \A v \in Views : ViewKept(v, {})
  BY DEF ViewKept
<1> QED BY <1>1, <1>2, LinksKept DEF Remembered, WindowKept

LEMMA AsksStay ==
  ASSUME Asks, asked' \subseteq asked, Remembered
  PROVE  Asks'
BY DEF Asks, Remembered, AskRec

\* One window changes, and not what it lists and shows.
LEMMA RecStep ==
  ASSUME WindowAssumption, WindowInv, NEW w \in Windows, NEW s, WinOK(s), RecKept(win[w], s),
         win' = [win EXCEPT ![w] = s], view' = view, cache' = cache, asked' \subseteq asked,
         DbGood(db'), ops' \in Nat, failures' \in Nat, recent' \in SUBSET Views,
         \A v \in recent' : v \in recent \/ view[v].life # "none"
  PROVE  WindowInv'
<1>1. WindowsOK /\ \A u \in Windows : WindowKept(u, {})
  BY OneWindowKept DEF WindowInv
<1>2. Shape' /\ Links' /\ Remembered
  BY <1>1, ViewsStay DEF WindowInv
<1> QED BY <1>2, AsksStay DEF WindowInv, DbOK

\* The actions that put an action into a queue.
LEMMA QueuedStep ==
  ASSUME WindowAssumption, WindowInv, NEW w \in Windows, win[w].st # "none", NEW e \in WAction, e.backend,
         Enqueue(w, e), asked' \subseteq asked, ops' \in Nat,
         UNCHANGED <<db, view, cache, recent, failures>>
  PROVE  WindowInv'
<1>1. WindowsOK /\ \A u \in Windows : WindowKept(u, {})
  BY Queued DEF WindowInv
<1>2. Shape' /\ Links' /\ Remembered
  BY <1>1, ViewsStay DEF WindowInv, Shape
<1> QED BY <1>2, AsksStay DEF WindowInv, DbOK

LEMMA TabsOf ==
  ASSUME WindowInv, NEW s \in Workspaces, NEW t \in ToSet(db.tabs[s])
  PROVE  t \in Tabs
<1>1. db.tabs[s] \in Seq(Tabs)
  BY DEF WindowInv, DbOK, DbGood, DbRec
<1> QED BY <1>1, ElementOfSeq, LenProperties DEF ToSet

LEMMA OpenWindow ==
  ASSUME WindowInv, NEW w \in Windows, Open(w)
  PROVE  win[w].st # "none" /\ win[w].ws \in Workspaces
BY DEF WindowInv, Shape, WinOK, Open

LEMMA SetActiveTabStep ==
  ASSUME WindowAssumption, WindowInv, NEW w \in Windows, NEW t \in Tabs, SetActiveTab(w, t)
  PROVE  WindowInv'
<1> DEFINE e == Action("switchtab", t, None, TRUE)
<1>2. e \in WAction /\ e.backend
  BY DEF Action, WAction, Actions
<1>3. Open(w) /\ ops' \in Nat
  BY DEF SetActiveTab, Shows, Asking, WindowInv, Shape
<1>4. asked' \subseteq asked /\ UNCHANGED <<db, view, cache, recent, failures>>
  BY DEF SetActiveTab
<1>5. win[w].st # "none"
  BY <1>3, OpenWindow
<1>6. Enqueue(w, e)
  BY DEF SetActiveTab
<1> HIDE DEF e
<1> QED BY <1>2, <1>3, <1>4, <1>5, <1>6, QueuedStep

LEMMA CreateTabStep ==
  ASSUME WindowAssumption, WindowInv, NEW w \in Windows, CreateTab(w)
  PROVE  WindowInv'
<1> DEFINE e == Action("createtab", None, None, TRUE)
<1>2. e \in WAction /\ e.backend
  BY DEF Action, WAction, Actions
<1>3. Open(w) /\ ops' \in Nat
  BY DEF CreateTab, Shows, Asking, WindowInv, Shape
<1>4. asked' \subseteq asked /\ UNCHANGED <<db, view, cache, recent, failures>>
  BY DEF CreateTab
<1>5. win[w].st # "none"
  BY <1>3, OpenWindow
<1>6. Enqueue(w, e)
  BY DEF CreateTab
<1> HIDE DEF e
<1> QED BY <1>2, <1>3, <1>4, <1>5, <1>6, QueuedStep

LEMMA CloseTabStep ==
  ASSUME WindowAssumption, WindowInv, NEW w \in Windows, NEW t \in Tabs, CloseTab(w, t)
  PROVE  WindowInv'
<1> DEFINE e == Action("closetab", t, None, TRUE)
<1>2. e \in WAction /\ e.backend
  BY DEF Action, WAction, Actions
<1>3. Open(w) /\ ops' \in Nat
  BY DEF CloseTab, Asking, WindowInv, Shape
<1>4. asked' \subseteq asked /\ UNCHANGED <<db, view, cache, recent, failures>>
  BY DEF CloseTab
<1>5. win[w].st # "none"
  BY <1>3, OpenWindow
<1>6. Enqueue(w, e)
  BY DEF CloseTab
<1> HIDE DEF e
<1> QED BY <1>2, <1>3, <1>4, <1>5, <1>6, QueuedStep

LEMMA QueueSwitchStep ==
  ASSUME WindowAssumption, WindowInv, NEW c \in asked, QueueSwitch(c)
  PROVE  WindowInv'
<1> DEFINE e == Action("switchworkspace", None, c.ws, TRUE)
<1>2. c \in AskRec /\ win[c.win].st # "none" /\ c.stage # "deleted"
  BY DEF WindowInv, Asks, QueueSwitch
<1>3. c.win \in Windows /\ c.ws \in Workspaces
  BY <1>2 DEF AskRec, WindowInv, Asks
<1>4. e \in WAction /\ e.backend
  BY <1>3 DEF Action, WAction, Actions
<1>5. Enqueue(c.win, e) /\ asked' \subseteq asked /\ ops' \in Nat
  BY DEF QueueSwitch, WindowInv, Shape
<1> HIDE DEF e
<1> QED BY <1>2, <1>3, <1>4, <1>5, QueuedStep DEF QueueSwitch

-----------------------------------------------------------------------------
\* The calls of the pages that await.

LEMMA CallType ==
  ASSUME WindowInv, NEW w \in Windows, NEW s \in Workspaces \cup {None}, NEW old \in Workspaces \cup {None},
         NEW stage \in {"list", "owned", "free", "deleted"}, stage # "deleted" => s # None
  PROVE  /\ Call(w, s, stage, old) \in AskRec /\ Call(w, s, stage, old).win = w
         /\ Call(w, s, stage, old).stage = stage
         /\ stage # "deleted" => Call(w, s, stage, old).ws \in Workspaces
BY DEF Call, AskRec, WindowInv, Shape

LEMMA MoreAsks ==
  ASSUME Asks, Remembered, NEW c \in AskRec,
         asked' \subseteq asked \cup {c}, win[c.win].st # "none",
         c.stage # "deleted" => c.ws \in Workspaces
  PROVE  Asks'
BY DEF Asks, Remembered, AskRec

LEMMA SwitchWorkspaceStep ==
  ASSUME WindowAssumption, WindowInv, NEW w \in Windows, NEW s \in Workspaces, SwitchWorkspace(w, s)
  PROVE  WindowInv'
<1>1. WindowsOK /\ \A u \in Windows : WindowKept(u, {})
  BY SameWindows DEF SwitchWorkspace, WindowInv
<1>2. Shape' /\ Links' /\ Remembered
  BY <1>1, ViewsStay DEF SwitchWorkspace, Asking, WindowInv, Shape
<1>3. PICK c : c = Call(w, s, "list", None)
  OBVIOUS
<1>4. c \in AskRec /\ c.win = w /\ c.ws \in Workspaces
  BY <1>3, CallType DEF WindowAssumption
<1>5. asked' = asked \cup {c} /\ win[w].st # "none"
  BY <1>3, OpenWindow DEF SwitchWorkspace, Shows
<1>6. Asks'
  BY <1>2, <1>4, <1>5, MoreAsks DEF WindowInv
<1> QED BY <1>2, <1>6 DEF SwitchWorkspace, WindowInv, DbOK

LEMMA ListWorkspacesStep ==
  ASSUME WindowAssumption, WindowInv, NEW c \in asked, ListWorkspaces(c)
  PROVE  WindowInv'
<1>1. WindowsOK /\ \A u \in Windows : WindowKept(u, {})
  BY SameWindows DEF ListWorkspaces, WindowInv
<1>2. Shape' /\ Links' /\ Remembered
  BY <1>1, ViewsStay DEF ListWorkspaces, WindowInv, Shape
<1>3. PICK stage \in {"owned", "free"} : asked' = (asked \ {c}) \cup {[c EXCEPT !.stage = stage]}
  <2>1. PICK stage : stage = IF c.ws \in db.named /\ Exists(c.ws) /\ Owners(db, c.ws) # {}
                             THEN "owned" ELSE "free"
    OBVIOUS
  <2> QED BY <2>1 DEF ListWorkspaces
<1>4. c \in AskRec /\ win[c.win].st # "none" /\ c.stage # "deleted"
  BY DEF WindowInv, Asks, ListWorkspaces
<1>5. PICK d : d = [c EXCEPT !.stage = stage]
  OBVIOUS
<1>6. d \in AskRec /\ d.win = c.win /\ d.ws = c.ws
  BY <1>4, <1>5 DEF AskRec
<1>7. c.ws \in Workspaces
  BY <1>4 DEF WindowInv, Asks
<1>8. Asks'
  BY <1>2, <1>3, <1>4, <1>5, <1>6, <1>7, MoreAsks DEF WindowInv
<1> QED BY <1>2, <1>8 DEF ListWorkspaces, WindowInv, DbOK


-----------------------------------------------------------------------------
\* Views that are destroyed.

LEMMA Views_Destroyed ==
  ASSUME Shape, Links, NEW out \in SUBSET Views, view' = Destroyed(out), cache' = Forgotten(cache, out)
  PROVE  /\ view' \in [Views -> ViewRec] /\ cache' \in [Tabs -> Views \cup {None}]
         /\ \A v \in Views : ViewKept(v, out)
         /\ \A t \in Tabs : cache'[t] = None \/ (cache'[t] = cache[t] /\ cache[t] \notin out)
<1>1. ASSUME NEW v \in Views PROVE view'[v] \in ViewRec /\ ViewKept(v, out)
  <2>1. PICK r : r = view[v]
    OBVIOUS
  <2>2. r \in ViewRec
    BY <2>1 DEF Shape
  <2>3. view'[v] = IF v \in out /\ r.life = "live" THEN [r EXCEPT !.life = "closing"] ELSE r
    BY <2>1 DEF Destroyed
  <2>4. CASE v \in out /\ r.life = "live"
    <3>1. PICK s : s = [r EXCEPT !.life = "closing"]
      OBVIOUS
    <3>2. /\ s \in ViewRec /\ s.tab = r.tab /\ s.win = r.win /\ s.active = r.active /\ s.child = r.child
          /\ s.shown = r.shown /\ s.life = "closing"
      BY <2>2, <3>1 DEF ViewRec
    <3>3. view'[v] = s
      BY <2>3, <2>4, <3>1
    <3> QED BY <2>1, <2>4, <3>2, <3>3 DEF ViewKept
  <2>5. CASE ~(v \in out /\ r.life = "live")
    BY <2>1, <2>2, <2>3, <2>5 DEF ViewKept
  <2> QED BY <2>4, <2>5
<1>2. ASSUME NEW t \in Tabs
      PROVE  /\ cache'[t] \in Views \cup {None}
             /\ cache'[t] = None \/ (cache'[t] = cache[t] /\ cache[t] \notin out)
  <2>1. cache[t] \in Views \cup {None}
    BY DEF Shape
  <2>2. cache'[t] = IF \E v \in out : view[v].tab = t THEN None ELSE cache[t]
    BY DEF Forgotten
  <2>3. cache[t] # None => view[cache[t]].tab = t
    BY DEF Links, Cached
  <2> QED BY <2>1, <2>2, <2>3
<1>3. view' \in [Views -> ViewRec]
  BY <1>1 DEF Destroyed
<1>4. cache' \in [Tabs -> Views \cup {None}]
  BY <1>2 DEF Forgotten
<1> QED BY <1>1, <1>2, <1>3, <1>4

\* What a window lists and shows was shown in it, so no other window can be the
\* only one it was shown in.
LEMMA NotOnlyThere ==
  ASSUME WindowAssumption, Shape, Links, NEW w \in Windows, ~Late(win[w]), NEW u \in Windows, u # w
  PROVE  /\ \A v \in Listed(win[w].loaded) : v \in Views /\ view[v].shown # {u}
         /\ win[w].active \in Views => view[win[w].active].shown # {u}
<1>1. win[w] \in WinRec /\ None \notin Views
  BY DEF Shape, WindowAssumption
<1>2. win[w].loaded \in [Tabs -> Views \cup {None}]
  BY <1>1 DEF WinRec
<1>3. ASSUME NEW v \in Listed(win[w].loaded) PROVE v \in Views /\ w \in view[v].shown
  <2>1. PICK t \in Tabs : v = win[w].loaded[t] /\ v # None
    BY <1>2 DEF Listed
  <2> QED BY <1>2, <2>1 DEF Links, ListedShown
<1>4. win[w].active \in Views => w \in view[win[w].active].shown
  BY <1>1 DEF Links, ActiveShown
<1> QED BY <1>3, <1>4

\* A window that destroys what it lists, and shows nothing of it from then on,
\* takes nothing that another one needs.
LEMMA OthersKept ==
  ASSUME WindowAssumption, Shape, Links, NEW w \in Windows, ~Late(win[w]),
         NEW out, out \subseteq Listed(win[w].loaded), NEW u \in Windows, u # w, win'[u] = win[u]
  PROVE  WindowKept(u, out)
<1>1. \A v \in out : v \in Views /\ view[v].shown # {u}
  BY NotOnlyThere
<1>2. win[u] \in WinRec
  BY DEF Shape
<1>3. \A t \in Tabs : win[u].loaded[t] \in Views \cup {None}
  BY <1>2 DEF WinRec
<1> QED BY <1>1, <1>3 DEF WindowKept

-----------------------------------------------------------------------------
\* An eviction.

LEMMA EvictedTabs ==
  ASSUME NEW w \in Windows, NEW tried \in SUBSET Views, \A v \in tried : view[v].tab \in Tabs
  PROVE  /\ EvictedFrom(w, tried) \in SUBSET Tabs
         /\ \A t \in EvictedFrom(w, tried) : Open(w) /\ win[w].loaded[t] # None /\ t # ActiveTab(w)
BY DEF EvictedFrom, Removed, Stale

LEMMA RemovedOut ==
  ASSUME WindowAssumption, Shape, Links, NEW w \in Windows, NEW ts \in SUBSET Tabs,
         \A t \in ts : Open(w) /\ win[w].loaded[t] # None /\ t # ActiveTab(w)
  PROVE  /\ ViewsOf(w, ts) \subseteq Listed(win[w].loaded)
         /\ Unloaded(w, ts) \in WinRec /\ WinOK(Unloaded(w, ts))
         /\ \A t \in Tabs : Unloaded(w, ts).loaded[t] = IF t \in ts THEN None ELSE win[w].loaded[t]
         /\ \A t \in Tabs : t \notin ts /\ Open(w) => win[w].loaded[t] \notin ViewsOf(w, ts)
         /\ win[w].active # None => view[win[w].active].tab \notin ts
         /\ Unloaded(w, ts).st = win[w].st /\ Unloaded(w, ts).pc = win[w].pc
         /\ Unloaded(w, ts).active = win[w].active /\ Unloaded(w, ts).ws = win[w].ws
         /\ Unloaded(w, ts).queue = win[w].queue /\ Unloaded(w, ts).tab = win[w].tab
         /\ Unloaded(w, ts).reply = win[w].reply
         /\ ts = {} => Unloaded(w, ts) = win[w]
<1>1. PICK r : r = win[w]
  OBVIOUS
<1>2. r \in WinRec /\ WinOK(r) /\ None \notin Views
  BY <1>1 DEF Shape, WindowAssumption
<1>3. r.loaded \in [Tabs -> Views \cup {None}]
  BY <1>2 DEF WinRec
<1>4. PICK f : f = [t \in Tabs |-> IF t \in ts THEN None ELSE r.loaded[t]]
  OBVIOUS
<1>5. f \in [Tabs -> Views \cup {None}]
  BY <1>3, <1>4
<1>6. PICK s : s = [r EXCEPT !.loaded = f]
  OBVIOUS
<1>7. s = Unloaded(w, ts)
  BY <1>1, <1>4, <1>6 DEF Unloaded
<1>8. /\ s \in WinRec /\ s.loaded = f /\ s.st = r.st /\ s.pc = r.pc /\ s.active = r.active /\ s.ws = r.ws
      /\ s.queue = r.queue /\ s.tab = r.tab /\ s.reply = r.reply
  BY <1>2, <1>5, <1>6 DEF WinRec
<1>9. ts = {} => s = r
  <2>1. ts = {} => f = r.loaded
    BY <1>3, <1>4
  <2> QED BY <1>2, <1>6, <2>1 DEF WinRec
<1>10. r.st = "none" => ts = {}
  BY <1>1 DEF Open
<1>11. WinOK(s)
  BY <1>2, <1>8, <1>9, <1>10 DEF WinOK
<1>12. ViewsOf(w, ts) \subseteq Listed(r.loaded)
  BY <1>1, <1>3 DEF ViewsOf, Listed
<1>13. ASSUME NEW t \in Tabs, t \notin ts, Open(w) PROVE r.loaded[t] \notin ViewsOf(w, ts)
  <2>1. SUFFICES ASSUME NEW x \in ts, r.loaded[t] = r.loaded[x] PROVE FALSE
    BY <1>1 DEF ViewsOf
  <2>2. r.loaded[x] # None /\ ~Late(win[w])
    BY <1>1, <1>13 DEF Open, Late
  <2>3. view[r.loaded[t]].tab = t /\ view[r.loaded[x]].tab = x
    BY <1>1, <2>1, <2>2 DEF Links, ListedShown
  <2> QED BY <1>13, <2>1, <2>3
<1>14. r.active # None => view[r.active].tab \notin ts
  BY <1>1 DEF ActiveTab
<1> QED BY <1>1, <1>4, <1>7, <1>8, <1>9, <1>11, <1>12, <1>13, <1>14

\* What a window that is open keeps listing is not evicted, nor what it shows.
LEMMA EvictionSpares ==
  ASSUME WindowAssumption, Shape, Links, NEW tried \in SUBSET Views, \A v \in tried : view[v].tab \in Tabs,
         NEW w \in Windows, Open(w), NEW t \in Tabs, t \notin EvictedFrom(w, tried), win[w].loaded[t] # None
  PROVE  /\ win[w].loaded[t] \notin Evicted(tried) \/ view[win[w].loaded[t]].shown # {w}
              \/ view[win[w].loaded[t]].win # w
         /\ win[w].active \notin Evicted(tried) \/ view[win[w].active].shown # {w}
<1>1. \A u \in Windows : win[u] \in WinRec /\ win[u].loaded \in [Tabs -> Views \cup {None}]
  BY DEF Shape, WinRec
<1>2. None \notin Views
  BY DEF WindowAssumption
<1>3. PICK v \in Views : v = win[w].loaded[t]
  BY <1>1
<1>4. PICK a \in Views : a = win[w].active
  <2>1. win[w].active # None
    BY DEF Links, ActiveListed
  <2> QED BY <1>1, <2>1 DEF WinRec
<1>5. win[w].loaded[view[a].tab] = a /\ view[a].tab \in Tabs
  <2>1. w \in view[a].shown
    BY <1>2, <1>4 DEF Links, ActiveShown, Late, Open
  <2>2. view[a].life # "none"
    BY <2>1 DEF Links, NewViews, NewView
  <2> QED BY <1>4, <2>2 DEF Links, ActiveListed, OldViews
\* Another window that lists it has shown it too.
<1>6. ASSUME NEW u \in Windows, u # w, NEW x \in ViewsOf(u, EvictedFrom(u, tried)) PROVE view[x].shown # {w}
  <2>1. Open(u)
    BY <1>6, EvictedTabs DEF ViewsOf
  <2>2. x \in Listed(win[u].loaded)
    BY <1>6, EvictedTabs, RemovedOut
  <2> QED BY <1>6, <2>1, <2>2, NotOnlyThere DEF Late, Open
<1>7. v \notin ViewsOf(w, EvictedFrom(w, tried)) /\ a \notin ViewsOf(w, EvictedFrom(w, tried))
  <2>1. view[a].tab # ActiveTab(w) => FALSE
    BY <1>2, <1>4 DEF ActiveTab
  <2>3. view[a].tab \notin EvictedFrom(w, tried)
    BY <2>1, EvictedTabs
  <2>2. \A x \in Tabs : x \notin EvictedFrom(w, tried) =>
          win[w].loaded[x] \notin ViewsOf(w, EvictedFrom(w, tried))
    BY EvictedTabs, RemovedOut
  <2> QED BY <1>3, <1>5, <2>2, <2>3
<1>8. v \in Evicted(tried) => view[v].win # w \/ view[v].shown # {w}
  BY <1>6, <1>7 DEF Evicted
<1>9. a \in Evicted(tried) => ~view[a].active \/ view[a].shown # {w}
  BY <1>6, <1>7 DEF Evicted, Stale, Spared
<1>10. view[a].shown = {w} => view[a].active
  BY <1>4 DEF Links, ActiveLives
<1> QED BY <1>3, <1>4, <1>8, <1>9, <1>10

LEMMA EvictionTypes ==
  ASSUME WindowAssumption, Shape, NEW tried \in SUBSET Views, \A v \in tried : view[v].tab \in Tabs
  PROVE  Evicted(tried) \in SUBSET Views
<1>1. \A w \in Windows : win[w].loaded \in [Tabs -> Views \cup {None}]
  BY DEF Shape, WinRec
<1>2. ASSUME NEW w \in Windows, NEW x \in ViewsOf(w, EvictedFrom(w, tried)) PROVE x \in Views
  <2>1. PICK t \in EvictedFrom(w, tried) : x = win[w].loaded[t]
    BY <1>2 DEF ViewsOf
  <2>2. t \in Tabs /\ win[w].loaded[t] # None
    BY <2>1, EvictedTabs
  <2> QED BY <1>1, <2>1, <2>2
<1> QED BY <1>2 DEF Evicted, Stale

LEMMA EvictionKept ==
  ASSUME WindowAssumption, Shape, Links, NEW tried \in SUBSET Views, \A v \in tried : view[v].tab \in Tabs,
         NEW w \in Windows, win'[w] = Unloaded(w, EvictedFrom(w, tried))
  PROVE  WindowKept(w, Evicted(tried))
<1>1. PICK ts \in SUBSET Tabs : ts = EvictedFrom(w, tried)
  BY EvictedTabs
<1>2. \A t \in ts : Open(w) /\ win[w].loaded[t] # None /\ t # ActiveTab(w)
  BY <1>1, EvictedTabs
<1>3. /\ \A t \in Tabs : win'[w].loaded[t] = IF t \in ts THEN None ELSE win[w].loaded[t]
      /\ win[w].active # None => view[win[w].active].tab \notin ts
      /\ win'[w].st = win[w].st /\ win'[w].pc = win[w].pc /\ win'[w].active = win[w].active
  BY <1>1, <1>2, RemovedOut
<1>4. ASSUME win'[w].st = "open", NEW t \in Tabs, win'[w].loaded[t] # None
      PROVE  /\ win[w].loaded[t] \notin Evicted(tried) \/ view[win[w].loaded[t]].shown # {w}
                  \/ view[win[w].loaded[t]].win # w
             /\ win[w].active \notin Evicted(tried) \/ view[win[w].active].shown # {w}
             /\ win'[w].loaded[view[win[w].active].tab] = win[w].loaded[view[win[w].active].tab]
  <2>1. Open(w) /\ t \notin ts /\ win[w].loaded[t] # None
    BY <1>3, <1>4 DEF Open
  <2>2. win[w].active # None
    BY <2>1 DEF Links, ActiveListed
  <2>3. view[win[w].active].tab \in Tabs
    <3>1. win[w].active \in Views
      BY <2>2 DEF Shape, WinRec
    <3>2. w \in view[win[w].active].shown
      BY <2>1, <2>2 DEF Links, ActiveShown, Late, Open
    <3>3. view[win[w].active].life # "none"
      BY <3>1, <3>2 DEF Links, NewViews, NewView
    <3> QED BY <3>1, <3>3 DEF Links, OldViews
  <2> QED BY <1>1, <1>3, <2>1, <2>2, <2>3, EvictionSpares
<1> QED BY <1>3, <1>4 DEF WindowKept, Late

-----------------------------------------------------------------------------
\* A view is shown: one from the cache, or a new one that may push others out.

\* The other views.
OtherView(x, w, out) ==
  /\ view'[x].tab = view[x].tab /\ view'[x].win = view[x].win
  /\ view'[x].child = view[x].child /\ view'[x].shown = view[x].shown
  /\ view[x].life = "none" => view'[x] = view[x]
  /\ view[x].life # "none" => view'[x].life # "none"
  /\ view[x].life = "live" /\ x \notin out => view'[x].life = "live"
  /\ x # win[w].active => view'[x].active = view[x].active
\* What the window w shows from now on, and lists for the tab t; when it was closed
\* meanwhile it has given up instead.
ShownView(v, w, t) ==
  /\ view'[v].tab = t /\ view'[v].life = "live" /\ view'[v].active
  /\ \/ /\ view[v].life = "none" /\ view'[v].win = w
        /\ win'[w].pc = "init" /\ view'[v].shown = {w}
     \/ /\ view[v].life = "none" /\ view'[v].win = w
        /\ Late(win'[w]) /\ view'[v].shown = {}
     \/ /\ view[v].life = "live" /\ view[v].tab = t /\ view'[v].win = view[v].win
        /\ view'[v].child = view[v].child /\ view'[v].shown = view[v].shown \cup {w}
        /\ win'[w].pc = "settle"
ShowingWindow(w, v, t, out) ==
  /\ win'[w].active = v /\ win'[w].loaded[t] = v /\ win'[w].st = win[w].st
  /\ \A x \in Tabs : x # t => win'[w].loaded[x] \in {win[w].loaded[x], None}
  /\ win'[w].st = "open" =>
       \A x \in Tabs : x # t /\ win'[w].loaded[x] # None =>
         win[w].loaded[x] \notin out \/ view[win[w].loaded[x]].shown # {w}
           \/ view[win[w].loaded[x]].win # w

LEMMA LinksShown ==
  ASSUME WindowAssumption, Shape, Links, Shape', NEW w \in Windows, NEW v \in Views, NEW t \in Tabs,
         ~Late(win[w]), win[w].st # "none", win[w].pc # "init",
         NEW out \in SUBSET Views, v \notin out,
         \A x \in Views : x # v => OtherView(x, w, out),
         ShownView(v, w, t), ShowingWindow(w, v, t, out),
         \A u \in Windows : u # w => WindowKept(u, out) /\ win'[u].st = win[u].st /\ win'[u].pc = win[u].pc,
         \A x \in Tabs : \/ cache'[x] = None
                         \/ (cache'[x] = v /\ x = t)
                         \/ (cache'[x] = cache[x] /\ cache[x] \notin out \cup {v}),
         \A x \in recent' : x \in recent \cup {v}
  PROVE  Links'
<1>1. \A u \in Windows :
        /\ win[u].active \in Views \cup {None} /\ win[u].loaded \in [Tabs -> Views \cup {None}]
        /\ win'[u].active \in Views \cup {None} /\ win'[u].loaded \in [Tabs -> Views \cup {None}]
  BY DEF Shape, WinRec
<1>2. \A x \in Tabs : cache[x] \in Views \cup {None} /\ cache'[x] \in Views \cup {None}
  BY DEF Shape
<1>3. None \notin Views /\ None \notin Tabs
  BY DEF WindowAssumption
<1>4. \A u \in Windows : u # w =>
        /\ win'[u].st = win[u].st /\ win'[u].pc = win[u].pc /\ win'[u].active = win[u].active
        /\ \A x \in Tabs : win'[u].loaded[x] \in {win[u].loaded[x], None}
        /\ ~Late(win'[u]) => ~Late(win[u])
  BY DEF WindowKept, Late
<1>5. /\ win'[w].active = v /\ win'[w].loaded[t] = v /\ win'[w].st = win[w].st
      /\ \A x \in Tabs : x # t => win'[w].loaded[x] \in {win[w].loaded[x], None}
  BY DEF ShowingWindow
<1>6. /\ view'[v].tab = t /\ view'[v].life = "live" /\ view'[v].active /\ view'[v].win \in Windows
      /\ win[view'[v].win].st # "none"
      /\ view'[v].shown \in {{w}, {}} \/ view'[v].shown = view[v].shown \cup {w}
      /\ Late(win'[w]) \/ w \in view'[v].shown
  BY DEF ShownView, Links, OldViews
<1>7. \A x \in Views : x # v =>
        /\ view'[x].tab = view[x].tab /\ view'[x].win = view[x].win
        /\ view'[x].child = view[x].child /\ view'[x].shown = view[x].shown
        /\ view'[x].life = "none" => view[x].life = "none" /\ view'[x] = view[x]
        /\ view'[x].life # "none" => view[x].life # "none"
  BY DEF OtherView
<1>8. \A u \in Windows : win'[u].st = win[u].st
  BY <1>4, <1>5
\* Who listed or showed v before shares it now.
<1>9. \A u \in Windows : u # w => view'[v].shown # {u} \/ Late(win'[w])
  BY <1>6
<1>10. NewViews'
  <2>1. SUFFICES ASSUME NEW x \in Views, view'[x].life = "none"
                 PROVE  /\ view'[x] = NewView /\ x \notin recent'
                        /\ \A y \in Tabs : cache'[y] # x
                        /\ \A u \in Windows : win'[u].active # x /\ \A y \in Tabs : win'[u].loaded[y] # x
    BY DEF NewViews
  <2>2. x # v /\ view[x].life = "none" /\ view'[x] = view[x]
    BY <1>6, <1>7, <2>1
  <2>3. /\ view[x] = NewView /\ x \notin recent /\ \A y \in Tabs : cache[y] # x
        /\ \A u \in Windows : win[u].active # x /\ \A y \in Tabs : win[u].loaded[y] # x
    BY <2>2 DEF Links, NewViews
  <2>4. ASSUME NEW u \in Windows PROVE win'[u].active # x /\ \A y \in Tabs : win'[u].loaded[y] # x
    <3>1. None # x
      BY <1>3
    <3>2. CASE u # w
      BY ONLY <1>4, <2>3, <2>4, <3>1, <3>2
    <3>3. CASE u = w
      BY ONLY <1>5, <2>2, <2>3, <2>4, <3>1, <3>3
    <3> QED BY <3>2, <3>3
  <2> QED BY <1>3, <2>2, <2>3, <2>4
<1>11. OldViews'
  <2>1. SUFFICES ASSUME NEW x \in Views, view'[x].life # "none"
                 PROVE  /\ view'[x].tab \in Tabs /\ view'[x].win \in Windows
                        /\ win'[view'[x].win].st # "none"
    BY DEF OldViews
  <2>2. CASE x = v
    BY <1>6, <1>8, <2>2
  <2>3. CASE x # v
    BY <1>7, <1>8, <2>1, <2>3 DEF Links, OldViews
  <2> QED BY <2>2, <2>3
<1>12. MadeShown'
  <2>1. SUFFICES ASSUME NEW x \in Views, view'[x].life # "none", win'[view'[x].win].st = "open"
                 PROVE  view'[x].win \in view'[x].shown
    BY DEF MadeShown, Open
  <2>2. CASE x = v
    BY <1>8, <2>1, <2>2 DEF ShownView, Links, MadeShown, OldViews, Open, Late
  <2>3. CASE x # v
    BY <1>7, <1>8, <2>1, <2>3 DEF Links, MadeShown, OldViews, Open
  <2> QED BY <2>2, <2>3
<1>13. Cached'
  <2>1. SUFFICES ASSUME NEW x \in Tabs, cache'[x] # None
                 PROVE  view'[cache'[x]].life = "live" /\ view'[cache'[x]].tab = x
    BY DEF Cached
  <2>2. CASE cache'[x] = v /\ x = t
    BY <1>6, <2>2
  <2>3. CASE cache'[x] = cache[x] /\ cache[x] \notin out \cup {v}
    <3>1. PICK y \in Views : y = cache[x] /\ y # v /\ y \notin out
      BY <1>2, <2>1, <2>3
    <3>2. view[y].life = "live" /\ view[y].tab = x
      BY <2>1, <2>3, <3>1 DEF Links, Cached
    <3> QED BY <2>3, <3>1, <3>2 DEF OtherView
  <2> QED BY <2>1, <2>2, <2>3
\* What is listed, other than v for t, was listed.
<1>14. ASSUME NEW u \in Windows, NEW x \in Tabs, win'[u].loaded[x] # None, ~(u = w /\ x = t)
       PROVE  win'[u].loaded[x] = win[u].loaded[x] /\ win[u].loaded[x] \in Views /\ win[u].loaded[x] # None
  BY <1>1, <1>4, <1>5, <1>14
<1>15. ListedShown'
  <2>1. SUFFICES ASSUME NEW u \in Windows, NEW x \in Tabs, win'[u].loaded[x] # None, ~Late(win'[u])
                 PROVE  view'[win'[u].loaded[x]].tab = x /\ u \in view'[win'[u].loaded[x]].shown
    BY DEF ListedShown
  <2>2. CASE u = w /\ x = t
    BY <1>5, <1>6, <2>1, <2>2
  <2>3. CASE ~(u = w /\ x = t)
    <3>1. PICK y \in Views : y = win[u].loaded[x] /\ win'[u].loaded[x] = y /\ win[u].loaded[x] # None
      BY <1>14, <2>1, <2>3
    <3>2. ~Late(win[u])
      BY <1>4, <2>1
    <3>3. view[y].tab = x /\ u \in view[y].shown
      BY <3>1, <3>2 DEF Links, ListedShown
    <3>4. CASE y # v
      BY <1>7, <3>1, <3>3, <3>4
    <3>5. CASE y = v
      <4>1. view[v].life # "none"
        BY <3>3, <3>5 DEF Links, NewViews, NewView
      <4> QED BY <3>1, <3>3, <3>5, <4>1 DEF ShownView
    <3> QED BY <3>4, <3>5
  <2> QED BY <2>2, <2>3
<1>16. ActiveShown'
  <2>1. SUFFICES ASSUME NEW u \in Windows, win'[u].active # None, ~Late(win'[u])
                 PROVE  u \in view'[win'[u].active].shown
    BY DEF ActiveShown
  <2>2. CASE u = w
    BY <1>5, <1>6, <2>1, <2>2
  <2>3. CASE u # w
    <3>1. PICK y \in Views : y = win[u].active /\ win'[u].active = y /\ win[u].active # None
      BY <1>1, <1>4, <2>1, <2>3
    <3>2. u \in view[y].shown
      BY <1>4, <2>1, <2>3, <3>1 DEF Links, ActiveShown
    <3>3. view[y].life # "none"
      BY <3>2 DEF Links, NewViews, NewView
    <3> QED BY <1>7, <3>1, <3>2, <3>3 DEF ShownView
  <2> QED BY <2>2, <2>3
\* An open window that lists something shows what it did, or is w.
<1>17. ASSUME NEW u \in Windows, u # w, win'[u].st = "open", NEW x \in Tabs, win'[u].loaded[x] # None
       PROVE  /\ win[u].st = "open" /\ win[u].loaded[x] # None /\ win[u].active \in Views
              /\ win'[u].active = win[u].active /\ u \in view[win[u].active].shown
              /\ win'[u].loaded[view[win[u].active].tab] = win[u].active
              /\ view[win[u].active].life # "none"
  <2>1. win[u].st = "open" /\ win[u].loaded[x] # None
    BY <1>4, <1>14, <1>17
  <2>2. win[u].active # None /\ win[u].loaded[view[win[u].active].tab] = win[u].active
    BY <2>1 DEF Links, ActiveListed, Open
  <2>3. win'[u].loaded[view[win[u].active].tab] = win[u].loaded[view[win[u].active].tab]
    BY <1>17 DEF WindowKept
  <2>4. u \in view[win[u].active].shown
    BY <2>1, <2>2 DEF Links, ActiveShown, Late
  <2>5. view[win[u].active].life # "none"
    BY <1>1, <2>2, <2>4 DEF Links, NewViews, NewView
  <2> QED BY <1>1, <1>4, <1>17, <2>1, <2>2, <2>3, <2>4, <2>5
<1>18. ActiveListed'
  <2>1. SUFFICES ASSUME NEW u \in Windows, NEW x \in Tabs, win'[u].st = "open", win'[u].loaded[x] # None
                 PROVE  /\ win'[u].active # None
                        /\ win'[u].loaded[view'[win'[u].active].tab] = win'[u].active
    BY DEF ActiveListed, Open
  <2>2. CASE u = w
    BY <1>3, <1>5, <1>6, <2>2
  <2>3. CASE u # w
    <3>1. PICK y \in Views : y = win[u].active /\ win'[u].active = y /\ win'[u].loaded[view[y].tab] = y
                             /\ view[y].life # "none"
      BY <1>17, <2>1, <2>3
    <3>2. view'[y].tab = view[y].tab
      BY <1>7, <3>1 DEF ShownView
    <3> QED BY <1>3, <3>1, <3>2
  <2> QED BY <2>2, <2>3
<1>19. ListedLives'
  <2>1. SUFFICES ASSUME NEW u \in Windows, NEW x \in Tabs, win'[u].st = "open", win'[u].loaded[x] # None,
                        view'[win'[u].loaded[x]].win = u, view'[win'[u].loaded[x]].shown = {u}
                 PROVE  view'[win'[u].loaded[x]].life = "live"
    BY DEF ListedLives, Open
  <2>2. CASE win'[u].loaded[x] = v
    BY <1>6, <2>2
  <2>3. CASE win'[u].loaded[x] # v
    <3>1. PICK y \in Views : y = win[u].loaded[x] /\ win'[u].loaded[x] = y /\ y # v /\ win[u].loaded[x] # None
                             /\ ~(u = w /\ x = t)
      BY <1>5, <1>14, <2>1, <2>3
    <3>2. view[y].win = u /\ view[y].shown = {u}
      BY <1>7, <2>1, <3>1
    <3>3. view[y].life = "live"
      BY <1>8, <2>1, <3>1, <3>2 DEF Links, ListedLives, Open
    <3>4. y \notin out
      <4>1. CASE u = w
        BY <2>1, <3>1, <3>2, <4>1 DEF ShowingWindow
      <4>2. CASE u # w
        BY <2>1, <3>1, <3>2, <4>2 DEF WindowKept
      <4> QED BY <4>1, <4>2
    <3> QED BY <3>1, <3>3, <3>4 DEF OtherView
  <2> QED BY <2>2, <2>3
<1>20. ActiveLives'
  <2>1. SUFFICES ASSUME NEW u \in Windows, NEW x \in Tabs, win'[u].st = "open", win'[u].loaded[x] # None,
                        view'[win'[u].active].shown = {u}
                 PROVE  view'[win'[u].active].life = "live" /\ view'[win'[u].active].active
    BY DEF ActiveLives, Open
  <2>2. CASE win'[u].active = v
    BY <1>6, <2>2
  <2>3. CASE win'[u].active # v
    <3>1. u # w
      BY <1>5, <2>3
    <3>2. PICK y \in Views : y = win[u].active /\ win'[u].active = y /\ y # v
      BY <1>17, <2>1, <2>3, <3>1
    <3>3. view[y].shown = {u}
      BY <1>7, <2>1, <3>2
    <3>4. view[y].life = "live" /\ view[y].active
      BY <1>17, <2>1, <3>1, <3>2, <3>3 DEF Links, ActiveLives, Open
    <3>5. y \notin out
      BY <2>1, <3>1, <3>2, <3>3 DEF WindowKept
    <3>6. y # win[w].active
      BY <1>3, <3>1, <3>3 DEF Links, ActiveShown
    <3> QED BY <3>2, <3>4, <3>5, <3>6 DEF OtherView
  <2> QED BY <2>2, <2>3
<1>21. Children'
  <2>1. SUFFICES ASSUME NEW u \in Windows, NEW x \in Views, win'[u].st = "open",
                        view'[x].win = u, view'[x].shown = {u}
                 PROVE  view'[x].child = u \/ (win'[u].pc = "init" /\ win'[u].active = x)
    BY DEF Children, Open
  <2>2. CASE x # v
    <3>1. view[x].win = u /\ view[x].shown = {u} /\ view'[x].child = view[x].child /\ win[u].st = "open"
      BY <1>7, <1>8, <2>1, <2>2
    <3>2. view[x].child = u \/ (win[u].pc = "init" /\ win[u].active = x)
      BY <3>1 DEF Links, Children, Open
    <3> QED BY <1>4, <3>1, <3>2
  <2>3. CASE x = v
    <3>1. CASE view[v].life = "none"
      BY <1>5, <2>1, <2>3, <3>1 DEF ShownView
    <3>2. CASE view[v].life # "none"
      <4>1. view[v].win = u /\ view'[v].child = view[v].child /\ w = u /\ win[u].st = "open"
            /\ view'[v].shown = view[v].shown \cup {w}
        BY <1>8, <2>1, <2>3, <3>2 DEF ShownView
      <4>2. u \in view[v].shown
        BY <3>2, <4>1 DEF Links, MadeShown, Open
      <4>3. view[v].shown = {u}
        BY <2>1, <2>3, <4>1, <4>2
      <4> QED BY <2>3, <4>1, <4>3 DEF Links, Children, Open
    <3> QED BY <3>1, <3>2
  <2> QED BY <2>2, <2>3
<1>22. Starting'
  <2>1. SUFFICES ASSUME NEW u \in Windows, win'[u].pc = "init"
                 PROVE  win'[u].active # None /\ view'[win'[u].active].win = u
    BY DEF Starting
  <2>2. CASE u = w
    BY <1>3, <1>5, <2>1, <2>2 DEF ShownView, Late
  <2>3. CASE u # w
    <3>1. PICK y \in Views : y = win[u].active /\ win'[u].active = y /\ win[u].active # None /\ view[y].win = u
      BY <1>1, <1>4, <2>1, <2>3 DEF Links, Starting
    <3>2. view[y].life # "none"
      BY <3>1 DEF Links, NewViews
    <3>3. view'[y].win = u
      BY <1>7, <3>1, <3>2 DEF ShownView
    <3> QED BY <3>1, <3>3
  <2> QED BY <2>2, <2>3
<1> QED BY <1>10, <1>11, <1>12, <1>13, <1>15, <1>16, <1>18, <1>19, <1>20, <1>21, <1>22 DEF Links

-----------------------------------------------------------------------------
\* What the backend keeps.

\* Nothing but less: windows without a workspace, and workspaces that are deleted.
Lessened(d, e) ==
  /\ \A w \in Windows : e.win[w] \in {d.win[w], None}
  /\ \A s \in Workspaces : e.tabs[s] # <<>> => e.tabs[s] = d.tabs[s] /\ e.active[s] = d.active[s]

LEMMA WithoutWorkspaceGood ==
  ASSUME NEW d, DbGood(d), NEW s \in Workspaces, NEW force \in BOOLEAN
  PROVE  /\ DbGood(WithoutWorkspace(d, s, force)) /\ WithoutWorkspace(d, s, force).win = d.win
         /\ Lessened(d, WithoutWorkspace(d, s, force))
         /\ \A r \in Workspaces : r # s =>
              /\ WithoutWorkspace(d, s, force).tabs[r] = d.tabs[r]
              /\ WithoutWorkspace(d, s, force).active[r] = d.active[r]
<1>1. PICK e : e = [d EXCEPT !.tabs[s] = <<>>, !.active[s] = None]
  OBVIOUS
<1>2. d \in DbRec
  BY DEF DbGood
<1>3. d.tabs \in [Workspaces -> Seq(Tabs)] /\ d.active \in [Workspaces -> Tabs \cup {None}]
  BY <1>2 DEF DbRec
<1>4. PICK f : f = [d.tabs EXCEPT ![s] = <<>>]
  OBVIOUS
<1>5. f \in [Workspaces -> Seq(Tabs)] /\ \A r \in Workspaces : f[r] = IF r = s THEN <<>> ELSE d.tabs[r]
  BY <1>3, <1>4, EmptySeq
<1>6. PICK g : g = [d.active EXCEPT ![s] = None]
  OBVIOUS
<1>7. g \in [Workspaces -> Tabs \cup {None}] /\ \A r \in Workspaces : r # s => g[r] = d.active[r]
  BY <1>3, <1>6
<1>8. e = [d EXCEPT !.tabs = f, !.active = g]
  BY <1>1, <1>4, <1>6
<1>9. e \in DbRec /\ e.tabs = f /\ e.active = g /\ e.win = d.win
  BY <1>2, <1>5, <1>7, <1>8 DEF DbRec
<1>10. DbGood(e)
  BY <1>5, <1>7, <1>9 DEF DbGood
<1>11. Lessened(d, e) /\ \A r \in Workspaces : r # s => e.tabs[r] = d.tabs[r] /\ e.active[r] = d.active[r]
  BY <1>5, <1>7, <1>9 DEF Lessened
<1>12. Lessened(d, d)
  BY DEF Lessened
<1>13. WithoutWorkspace(d, s, force) \in {d, e}
  BY <1>1 DEF WithoutWorkspace
<1> QED BY <1>9, <1>10, <1>11, <1>12, <1>13

LEMMA OwnerChanged ==
  ASSUME NEW d, DbGood(d), NEW w \in Windows, NEW s \in Workspaces \cup {None}
  PROVE  /\ DbGood([d EXCEPT !.win[w] = s])
         /\ [d EXCEPT !.win[w] = s].tabs = d.tabs /\ [d EXCEPT !.win[w] = s].active = d.active
         /\ \A u \in Windows : [d EXCEPT !.win[w] = s].win[u] = IF u = w THEN s ELSE d.win[u]
<1>1. PICK f : f = [d.win EXCEPT ![w] = s]
  OBVIOUS
<1>2. d \in DbRec
  BY DEF DbGood
<1>3. f \in [Windows -> Workspaces \cup {None}] /\ \A u \in Windows : f[u] = IF u = w THEN s ELSE d.win[u]
  BY <1>1, <1>2 DEF DbRec
<1>4. PICK e : e = [d EXCEPT !.win = f]
  OBVIOUS
<1>5. e \in DbRec /\ e.tabs = d.tabs /\ e.active = d.active /\ e.win = f
  BY <1>2, <1>3, <1>4 DEF DbRec
<1>6. e = [d EXCEPT !.win[w] = s]
  BY <1>1, <1>4
<1>7. DbGood(e)
  BY <1>5 DEF DbGood
<1> QED BY <1>3, <1>5, <1>6, <1>7

LEMMA WithoutWindowGood ==
  ASSUME NEW d, DbGood(d), NEW w \in Windows
  PROVE  DbGood(WithoutWindow(d, w)) /\ Lessened(d, WithoutWindow(d, w))
         /\ \A r \in Workspaces : r # d.win[w] =>
              WithoutWindow(d, w).tabs[r] = d.tabs[r] /\ WithoutWindow(d, w).active[r] = d.active[r]
<1>1. d.win[w] \in Workspaces \cup {None}
  BY DEF DbGood, DbRec
<1>2. CASE d.win[w] = None
  BY <1>2 DEF WithoutWindow, Lessened
<1>3. CASE d.win[w] # None
  <2>1. PICK e : e = WithoutWorkspace(d, d.win[w], FALSE)
    OBVIOUS
  <2>2. /\ DbGood(e) /\ Lessened(d, e)
        /\ \A r \in Workspaces : r # d.win[w] => e.tabs[r] = d.tabs[r] /\ e.active[r] = d.active[r]
    BY <1>1, <1>3, <2>1, WithoutWorkspaceGood
  <2>3. PICK f : f = [e EXCEPT !.win[w] = None]
    OBVIOUS
  <2>4. /\ DbGood(f) /\ f.tabs = e.tabs /\ f.active = e.active
        /\ \A u \in Windows : f.win[u] = IF u = w THEN None ELSE e.win[u]
    BY <2>2, <2>3, OwnerChanged
  <2>5. f = WithoutWindow(d, w)
    BY <1>3, <2>1, <2>3 DEF WithoutWindow
  <2> QED BY <2>2, <2>4, <2>5 DEF Lessened
<1> QED BY <1>2, <1>3

LEMMA WithoutTabGood ==
  ASSUME NEW d, DbGood(d), NEW s \in Workspaces, NEW t \in ToSet(d.tabs[s])
  PROVE  /\ DbGood(WithoutTab(d, s, t)) /\ WithoutTab(d, s, t).win = d.win
         /\ \A r \in Workspaces : r # s =>
              WithoutTab(d, s, t).tabs[r] = d.tabs[r] /\ WithoutTab(d, s, t).active[r] = d.active[r]
<1>1. d \in DbRec
  BY DEF DbGood
<1>2. PICK q \in Seq(Tabs) : q = d.tabs[s]
  BY <1>1 DEF DbRec
<1>3. Len(q) \in Nat /\ DOMAIN q = 1 .. Len(q) /\ \A i \in 1 .. Len(q) : q[i] \in Tabs
  BY LenProperties, ElementOfSeq
<1>4. PICK at : at = Position(q, t)
  OBVIOUS
<1>5. at \in 1 .. Len(q) /\ q[at] = t
  <2>1. \E i \in DOMAIN q : q[i] = t
    BY <1>2 DEF ToSet
  <2> QED BY <1>3, <1>4, <2>1 DEF Position
<1>6. PICK p : p = RemoveAt(q, at)
  OBVIOUS
<1>7. /\ p \in Seq(Tabs) /\ Len(p) = Len(q) - 1
      /\ \A i \in 1 .. Len(q) - 1 : p[i] \in Tabs
  <2>1. p \in Seq(Tabs) /\ Len(p) = Len(q) - 1
    BY <1>5, <1>6, RemoveAtFields
  <2> QED BY <2>1, ElementOfSeq
<1>8. PICK n : n = Neighbour(q, at)
  OBVIOUS
<1>9. n \in Tabs \cup {None} /\ (p # <<>> => n \in Tabs)
  <2>1. CASE Len(q) = 1
    <3>1. p = <<>>
      BY <1>7, <2>1, EmptySeq
    <3> QED BY <1>8, <2>1, <3>1 DEF Neighbour
  <2>2. CASE Len(q) # 1
    <3>1. PICK i : i = IF at = 1 THEN 1 ELSE at - 1
      OBVIOUS
    <3>2. i \in 1 .. Len(q) - 1
      BY <1>3, <1>5, <2>2, <3>1
    <3>3. n = p[i]
      BY <1>6, <1>8, <2>2, <3>1 DEF Neighbour
    <3> QED BY <1>7, <3>2, <3>3
  <2> QED BY <2>1, <2>2
<1>10. PICK f : f = [d.tabs EXCEPT ![s] = p]
  OBVIOUS
<1>11. f \in [Workspaces -> Seq(Tabs)] /\ \A r \in Workspaces : f[r] = IF r = s THEN p ELSE d.tabs[r]
  BY <1>1, <1>7, <1>10 DEF DbRec
<1>12. PICK m : m = IF d.active[s] = t THEN n ELSE d.active[s]
  OBVIOUS
<1>13. PICK g : g = [d.active EXCEPT ![s] = m]
  OBVIOUS
<1>14. d.active[s] \in Tabs
  BY <1>2, <1>3, <1>5, EmptySeq DEF DbGood
<1>15. m \in Tabs \cup {None} /\ (p # <<>> => m \in Tabs)
  BY <1>9, <1>12, <1>14
<1>16. g \in [Workspaces -> Tabs \cup {None}] /\ \A r \in Workspaces : g[r] = IF r = s THEN m ELSE d.active[r]
  BY <1>1, <1>13, <1>15 DEF DbRec
<1>17. PICK e : e = [d EXCEPT !.tabs = f, !.active = g]
  OBVIOUS
<1>18. e \in DbRec /\ e.tabs = f /\ e.active = g /\ e.win = d.win
  BY <1>1, <1>11, <1>16, <1>17 DEF DbRec
<1>19. DbGood(e)
  BY <1>11, <1>15, <1>16, <1>18 DEF DbGood
<1>20. e = WithoutTab(d, s, t)
  BY <1>1, <1>2, <1>4, <1>6, <1>8, <1>10, <1>12, <1>13, <1>17 DEF WithoutTab, DbRec
<1> QED BY <1>11, <1>16, <1>18, <1>19, <1>20

LEMMA WithTab ==
  ASSUME NEW d, DbGood(d), NEW s \in Workspaces, NEW t \in Tabs
  PROVE  /\ DbGood([d EXCEPT !.tabs[s] = Append(@, t), !.active[s] = t, !.used = @ \cup {t}])
         /\ DbGood([d EXCEPT !.active[s] = t])
<1>1. d \in DbRec
  BY DEF DbGood
<1>2. d.tabs[s] \in Seq(Tabs) /\ Append(d.tabs[s], t) \in Seq(Tabs)
  BY <1>1, AppendProperties DEF DbRec
<1>3. PICK f : f = [d.tabs EXCEPT ![s] = Append(d.tabs[s], t)]
  OBVIOUS
<1>4. f \in [Workspaces -> Seq(Tabs)] /\ \A r \in Workspaces : r # s => f[r] = d.tabs[r]
  BY <1>1, <1>2, <1>3 DEF DbRec
<1>5. PICK g : g = [d.active EXCEPT ![s] = t]
  OBVIOUS
<1>6. g \in [Workspaces -> Tabs \cup {None}] /\ \A r \in Workspaces : g[r] = IF r = s THEN t ELSE d.active[r]
  BY <1>1, <1>5 DEF DbRec
<1>7. PICK e : e = [d EXCEPT !.tabs = f, !.active = g, !.used = d.used \cup {t}]
  OBVIOUS
<1>8. e \in DbRec /\ e.tabs = f /\ e.active = g
  BY <1>1, <1>4, <1>6, <1>7 DEF DbRec
<1>9. DbGood(e)
  BY <1>4, <1>6, <1>8 DEF DbGood
<1>10. e = [d EXCEPT !.tabs[s] = Append(@, t), !.active[s] = t, !.used = @ \cup {t}]
  BY <1>3, <1>5, <1>7
<1>11. PICK h : h = [d EXCEPT !.active = g]
  OBVIOUS
<1>12. h \in DbRec /\ h.tabs = d.tabs /\ h.active = g
  BY <1>1, <1>6, <1>11 DEF DbRec
<1>13. DbGood(h)
  BY <1>6, <1>12 DEF DbGood
<1>14. h = [d EXCEPT !.active[s] = t]
  BY <1>5, <1>11
<1> QED BY <1>9, <1>10, <1>13, <1>14

-----------------------------------------------------------------------------
\* The steps of the backend.

LEMMA RepliedStep ==
  ASSUME WindowAssumption, WindowInv, NEW w \in Windows, win[w].pc = "call",
         NEW d, DbGood(d), NEW r \in Tabs \cup Replies, NEW ev, Replied(w, d, r, ev), failures' \in Nat
  PROVE  WindowInv'
<1>1. PICK x : x = win[w]
  OBVIOUS
<1>2. WinOK(x) /\ x \in WinRec /\ x.pc = "call" /\ r # None
  BY <1>1 DEF WindowInv, Shape, WindowAssumption
<1>3. PICK s : s = [x EXCEPT !.pc = "reply", !.reply = r]
  OBVIOUS
<1>4. /\ s \in WinRec /\ s.pc = "reply" /\ s.reply = r /\ s.st = x.st /\ s.ws = x.ws /\ s.queue = x.queue
      /\ s.active = x.active /\ s.loaded = x.loaded /\ s.tab = x.tab
  BY <1>2, <1>3 DEF WinRec
<1>5. x.st # "none"
  BY <1>2 DEF WinOK, NewWindow
<1>6. WinOK(s) /\ RecKept(x, s)
  BY <1>2, <1>4, <1>5 DEF WinOK, RecKept, Late
<1>7. win' = [win EXCEPT ![w] = s] /\ db' = d /\ UNCHANGED <<view, cache, asked, ops>>
  <2>1. win' = [win EXCEPT ![w].pc = "reply", ![w].reply = r]
    BY DEF Replied
  <2>2. [win EXCEPT ![w].pc = "reply", ![w].reply = r] = [win EXCEPT ![w] = s]
    BY <1>1, <1>3 DEF WindowInv, Shape
  <2> QED BY <2>1, <2>2 DEF Replied
<1>8. UNCHANGED recent
  BY DEF Replied
<1> QED BY <1>1, <1>6, <1>7, <1>8, RecStep DEF WindowInv, Shape

LEMMA Processing ==
  ASSUME WindowInv, NEW w \in Windows, win[w].pc \notin {"idle", "turn"}
  PROVE  /\ WinOK(win[w]) /\ win[w] \in WinRec /\ InProcess(w) \in WAction
         /\ win[w].ws \in Workspaces /\ win[w].st # "none" /\ win[w].queue # <<>>
<1>1. WinOK(win[w])
  BY DEF WindowInv, Shape
<1>2. win[w].queue # <<>> /\ win[w] \in WinRec
  BY <1>1 DEF WinOK
<1>3. win[w].st # "none"
  BY <1>1 DEF WinOK, NewWindow
<1> QED BY <1>1, <1>2, <1>3, QueueTail DEF WinOK, InProcess

LEMMA BackendCreatesTabStep ==
  ASSUME WindowAssumption, WindowInv, NEW w \in Windows, BackendCreatesTab(w)
  PROVE  WindowInv'
<1>1. win[w].pc = "call" /\ failures' \in Nat /\ DbGood(db)
  BY DEF BackendCreatesTab, WindowInv, Shape, DbOK
<1>2. win[w].ws \in Workspaces
  BY <1>1, Processing
<1>3. CASE Replied(w, db, "error", {})
  BY <1>1, <1>3, RepliedStep DEF Replies
<1>4. ASSUME NEW t \in Tabs,
             Replied(w, [db EXCEPT !.tabs[win[w].ws] = Append(@, t), !.active[win[w].ws] = t,
                                   !.used = @ \cup {t}], t, {})
      PROVE  WindowInv'
  <2>1. DbGood([db EXCEPT !.tabs[win[w].ws] = Append(@, t), !.active[win[w].ws] = t, !.used = @ \cup {t}])
    BY <1>1, <1>2, WithTab
  <2> QED BY <1>1, <1>4, <2>1, RepliedStep
<1> QED BY <1>3, <1>4 DEF BackendCreatesTab, Fresh

LEMMA BackendSetsActiveTabStep ==
  ASSUME WindowAssumption, WindowInv, NEW w \in Windows, BackendSetsActiveTab(w)
  PROVE  WindowInv'
<1>1. win[w].pc = "call" /\ failures' \in Nat /\ DbGood(db) /\ InProcess(w).op = "switchtab"
  BY DEF BackendSetsActiveTab, WindowInv, Shape, DbOK
<1>2. win[w].ws \in Workspaces /\ InProcess(w).tab \in Tabs
  BY <1>1, Processing DEF WAction
<1>3. CASE Replied(w, db, "error", {})
  BY <1>1, <1>3, RepliedStep DEF Replies
<1>4. CASE Replied(w, [db EXCEPT !.active[win[w].ws] = InProcess(w).tab], InProcess(w).tab, {})
  <2>1. DbGood([db EXCEPT !.active[win[w].ws] = InProcess(w).tab])
    BY <1>1, <1>2, WithTab
  <2> QED BY <1>1, <1>2, <1>4, <2>1, RepliedStep
<1> QED BY <1>3, <1>4 DEF BackendSetsActiveTab

LEMMA BackendClosesTabStep ==
  ASSUME WindowAssumption, WindowInv, NEW w \in Windows, BackendClosesTab(w)
  PROVE  WindowInv'
<1>1. win[w].pc = "call" /\ failures' \in Nat /\ DbGood(db)
  BY DEF BackendClosesTab, WindowInv, Shape, DbOK
<1>2. win[w].ws \in Workspaces
  BY <1>1, Processing
<1>3. CASE Replied(w, db, "error", {})
  BY <1>1, <1>3, RepliedStep DEF Replies
<1>4. ASSUME InProcess(w).tab \in ToSet(db.tabs[win[w].ws]) PROVE WindowInv'
  <2>1. PICK d : d = WithoutTab(db, win[w].ws, InProcess(w).tab)
    OBVIOUS
  <2>2. DbGood(d)
    BY <1>1, <1>2, <1>4, <2>1, WithoutTabGood
  <2>3. CASE d.active[win[w].ws] # None /\ Replied(w, d, d.active[win[w].ws], {})
    <3>1. d.active[win[w].ws] \in Tabs
      BY <1>2, <2>2, <2>3 DEF DbGood, DbRec
    <3> QED BY <1>1, <2>2, <2>3, <3>1, RepliedStep
  <2>4. CASE Replied(w, d, "closewindow", {})
    BY <1>1, <2>2, <2>4, RepliedStep DEF Replies
  <2>5. ASSUME NEW o \in Windows, Replied(w, WithoutWindow(d, o), "closewindow", {o}) PROVE WindowInv'
    <3>1. DbGood(WithoutWindow(d, o))
      BY <2>2, WithoutWindowGood
    <3> QED BY <1>1, <2>5, <3>1, RepliedStep DEF Replies
  <2> QED BY <1>4, <2>1, <2>3, <2>4, <2>5 DEF BackendClosesTab, Owners
<1> QED BY <1>3, <1>4 DEF BackendClosesTab

LEMMA BackendSwitchesWorkspaceStep ==
  ASSUME WindowAssumption, WindowInv, NEW w \in Windows, BackendSwitchesWorkspace(w)
  PROVE  WindowInv'
<1>1. win[w].pc = "call" /\ failures' \in Nat /\ DbGood(db) /\ InProcess(w).op = "switchworkspace"
  BY DEF BackendSwitchesWorkspace, WindowInv, Shape, DbOK
<1>2. InProcess(w).ws \in Workspaces
  BY <1>1, Processing DEF WAction
<1>3. CASE Replied(w, db, "error", {})
  BY <1>1, <1>3, RepliedStep DEF Replies
<1>4. CASE Replied(w, db, "null", {})
  BY <1>1, <1>4, RepliedStep DEF Replies
<1>5. CASE /\ Exists(InProcess(w).ws) /\ db.win[w] # None
           /\ Replied(w, WithoutWorkspace([db EXCEPT !.win[w] = InProcess(w).ws], db.win[w], FALSE),
                      db.active[InProcess(w).ws], {})
  <2>1. db.win[w] \in Workspaces /\ db.active[InProcess(w).ws] \in Tabs
    BY <1>1, <1>2, <1>5 DEF DbGood, DbRec, Exists
  <2>2. DbGood(WithoutWorkspace([db EXCEPT !.win[w] = InProcess(w).ws], db.win[w], FALSE))
    BY <1>1, <1>2, <2>1, OwnerChanged, WithoutWorkspaceGood
  <2> QED BY <1>1, <1>5, <2>1, <2>2, RepliedStep
<1> QED BY <1>3, <1>4, <1>5 DEF BackendSwitchesWorkspace

LEMMA BackendFailsStep ==
  ASSUME WindowAssumption, WindowInv, NEW w \in Windows, BackendFails(w)
  PROVE  WindowInv'
<1>1. win[w].pc = "call" /\ failures' \in Nat /\ DbGood(db) /\ Replied(w, db, "error", {})
  BY DEF BackendFails, WindowInv, Shape, DbOK
<1> QED BY <1>1, RepliedStep DEF Replies

-----------------------------------------------------------------------------
\* The steps of the loop.

LEMMA TurnStep ==
  ASSUME WindowAssumption, WindowInv, NEW w \in Windows, Turn(w)
  PROVE  WindowInv'
<1>1. PICK r : r = win[w]
  OBVIOUS
<1>2. WinOK(r) /\ r \in WinRec /\ r.pc = "turn"
  BY <1>1 DEF WindowInv, Shape, Turn
<1>3. PICK q \in Seq(WAction) : q = r.queue
  BY <1>2 DEF WinRec
<1>4. r.st # "none"
  BY <1>2 DEF WinOK, NewWindow
\* Every outcome.
<1>5. ASSUME NEW s, s \in WinRec, s.st = r.st, s.ws = r.ws, s.active = r.active, s.loaded = r.loaded,
             s.queue = q \/ (q # <<>> /\ s.queue = Tail(q)),
             \/ s.pc = "idle"
             \/ r.st = "open" /\ s.pc = "turn"
             \/ r.st = "open" /\ s.pc = "call" /\ s.queue = q /\ q # <<>>
             \/ r.st = "open" /\ s.pc = "obtain" /\ s.queue = q /\ q # <<>> /\ s.tab \in Tabs
      PROVE  WinOK(s) /\ RecKept(r, s)
  <2>1. \A i \in 1 .. Len(s.queue) : i > 1 => s.queue[i].backend
    <3>1. CASE s.queue = q
      BY <1>2, <1>3, <3>1 DEF WinOK
    <3>2. CASE q # <<>> /\ s.queue = Tail(q)
      BY <1>2, <1>3, <3>2, QueueTail
    <3> QED BY <1>5, <3>1, <3>2
  <2>2. s.pc # "reply" /\ s.pc # "config" /\ s.pc # "init"
    BY <1>5
  <2> QED BY <1>2, <1>4, <1>5, <2>1, <2>2 DEF WinOK, RecKept, Late
<1>6. CASE q = <<>>
  <2>1. PICK s : s = [r EXCEPT !.pc = "idle"]
    OBVIOUS
  <2>2. /\ s \in WinRec /\ s.st = r.st /\ s.ws = r.ws /\ s.active = r.active /\ s.loaded = r.loaded
        /\ s.queue = q /\ s.pc = "idle"
    BY <1>2, <1>3, <2>1 DEF WinRec
  <2>3. win' = [win EXCEPT ![w] = s]
    BY <1>1, <1>3, <1>6, <2>1 DEF Turn
  <2>4. WinOK(s) /\ RecKept(r, s)
    BY <1>5, <2>2
  <2> QED BY <1>1, <2>3, <2>4, RecStep DEF Turn, WindowInv, Shape, DbOK
<1>7. CASE q # <<>>
  <2>1. Tail(q) \in Seq(WAction) /\ q[1] \in WAction
    BY <1>2, <1>3, <1>7, QueueTail
  <2>2. CASE ~Open(w)
    <3>1. PICK p : p = Tail(q)
      OBVIOUS
    <3>2. PICK s : s = [r EXCEPT !.pc = "idle", !.queue = p]
      OBVIOUS
    <3>3. /\ s \in WinRec /\ s.st = r.st /\ s.ws = r.ws /\ s.active = r.active /\ s.loaded = r.loaded
          /\ s.queue = p /\ s.pc = "idle"
      BY <1>2, <2>1, <3>1, <3>2 DEF WinRec
    <3>4. win' = [win EXCEPT ![w] = s]
      BY <1>1, <1>3, <1>7, <2>2, <3>1, <3>2 DEF Turn
    <3>5. WinOK(s) /\ RecKept(r, s)
      BY <1>5, <1>7, <3>1, <3>3
    <3> QED BY <1>1, <3>4, <3>5, RecStep DEF Turn, WindowInv, Shape, DbOK
  <2>3. CASE Open(w) /\ q[1].op = "switchtab" /\ ActiveTab(w) = q[1].tab
    <3>1. PICK p : p = Tail(q)
      OBVIOUS
    <3>2. PICK s : s = [r EXCEPT !.queue = p]
      OBVIOUS
    <3>3. /\ s \in WinRec /\ s.st = r.st /\ s.ws = r.ws /\ s.active = r.active /\ s.loaded = r.loaded
          /\ s.queue = p /\ s.pc = "turn"
      BY <1>2, <2>1, <3>1, <3>2 DEF WinRec
    <3>4. win' = [win EXCEPT ![w] = s]
      BY <1>1, <1>3, <1>7, <2>3, <3>1, <3>2 DEF Turn
    <3>5. WinOK(s) /\ RecKept(r, s)
      BY <1>1, <1>5, <1>7, <2>3, <3>1, <3>3 DEF Open
    <3> QED BY <1>1, <3>4, <3>5, RecStep DEF Turn, WindowInv, Shape, DbOK
  <2>4. CASE Open(w) /\ q[1].op = "switchtab" /\ ActiveTab(w) # q[1].tab /\ ~q[1].backend
    <3>1. PICK t \in Tabs : t = q[1].tab
      BY <2>1, <2>4 DEF WAction
    <3>2. PICK s : s = [r EXCEPT !.pc = "obtain", !.tab = t]
      OBVIOUS
    <3>3. /\ s \in WinRec /\ s.st = r.st /\ s.ws = r.ws /\ s.active = r.active /\ s.loaded = r.loaded
          /\ s.queue = q /\ s.pc = "obtain" /\ s.tab \in Tabs
      BY <1>2, <1>3, <3>1, <3>2 DEF WinRec
    <3>4. win' = [win EXCEPT ![w] = s]
      BY <1>1, <1>3, <1>7, <2>4, <3>1, <3>2 DEF Turn
    <3>5. WinOK(s) /\ RecKept(r, s)
      BY <1>1, <1>5, <1>7, <2>4, <3>3 DEF Open
    <3> QED BY <1>1, <3>4, <3>5, RecStep DEF Turn, WindowInv, Shape, DbOK
  <2>5. CASE Open(w) /\ (q[1].op = "switchtab" => ActiveTab(w) # q[1].tab /\ q[1].backend)
    <3>1. PICK s : s = [r EXCEPT !.pc = "call"]
      OBVIOUS
    <3>2. /\ s \in WinRec /\ s.st = r.st /\ s.ws = r.ws /\ s.active = r.active /\ s.loaded = r.loaded
          /\ s.queue = q /\ s.pc = "call"
      BY <1>2, <1>3, <3>1 DEF WinRec
    <3>3. win' = [win EXCEPT ![w] = s]
      BY <1>1, <1>3, <1>7, <2>5, <3>1 DEF Turn
    <3>4. WinOK(s) /\ RecKept(r, s)
      BY <1>1, <1>5, <1>7, <2>5, <3>2 DEF Open
    <3> QED BY <1>1, <3>3, <3>4, RecStep DEF Turn, WindowInv, Shape, DbOK
  <2> QED BY <2>2, <2>3, <2>4, <2>5
<1> QED BY <1>6, <1>7

\* The action in process ends.
LEMMA EndStep ==
  ASSUME WindowAssumption, WindowInv, NEW w \in Windows, win[w].pc \notin {"idle", "turn"},
         win[w].pc = "init" => ~Open(w),
         win' = [win EXCEPT ![w] = NextTurn(@)], UNCHANGED <<db, view, cache, asked, ops>>,
         failures' \in Nat, recent' \in SUBSET Views, \A v \in recent' : v \in recent \/ view[v].life # "none"
  PROVE  WindowInv'
<1>1. WinOK(NextTurn(win[w])) /\ RecKept(win[w], NextTurn(win[w]))
  BY Processing, EndOfAction DEF Open
<1> QED BY <1>1, RecStep DEF WindowInv, Shape, DbOK

LEMMA ConfigFailsStep ==
  ASSUME WindowAssumption, WindowInv, NEW w \in Windows, ConfigFails(w)
  PROVE  WindowInv'
<1>1. /\ win[w].pc = "config" /\ win' = [win EXCEPT ![w] = NextTurn(@)]
      /\ UNCHANGED <<db, view, cache, asked, ops, recent>>
  BY DEF ConfigFails
<1>2. failures' \in Nat
  BY DEF ConfigFails, WindowInv, Shape
<1> QED BY <1>1, <1>2, EndStep DEF WindowInv, Shape

LEMMA FinishStep ==
  ASSUME WindowAssumption, WindowInv, NEW w \in Windows, Finish(w)
  PROVE  WindowInv'
<1>1. /\ win[w].pc \in {"settle", "ready"} /\ win' = [win EXCEPT ![w] = NextTurn(@)]
      /\ UNCHANGED <<db, view, cache, asked, ops, recent, failures>>
  BY DEF Finish
<1> QED BY <1>1, EndStep DEF WindowInv, Shape

\* A window destroys views it lists and does not need any more.
LEMMA GoneStep ==
  ASSUME WindowAssumption, WindowInv, NEW w \in Windows, ~Late(win[w]), NEW s, WinOK(s),
         win' = [win EXCEPT ![w] = s], NEW out, out \subseteq Listed(win[w].loaded),
         view' = Destroyed(out), cache' = Forgotten(cache, out), recent' = recent,
         WindowKept(w, out), ops' \in Nat, failures' \in Nat
  PROVE  Shape' /\ Links' /\ Remembered
<1>1. Shape /\ Links
  BY DEF WindowInv
<1>2. out \in SUBSET Views
  <2>1. win[w].loaded \in [Tabs -> Views \cup {None}]
    BY <1>1 DEF Shape, WinRec
  <2> QED BY <2>1 DEF Listed
<1>3. /\ view' \in [Views -> ViewRec] /\ cache' \in [Tabs -> Views \cup {None}]
      /\ \A v \in Views : ViewKept(v, out)
      /\ \A t \in Tabs : cache'[t] = None \/ (cache'[t] = cache[t] /\ cache[t] \notin out)
  BY <1>1, <1>2, Views_Destroyed
<1>4. win'[w] = s /\ \A u \in Windows : u # w => win'[u] = win[u]
  BY <1>1 DEF Shape
<1>5. win' \in [Windows -> WinRec] /\ \A u \in Windows : WinOK(win'[u])
  BY <1>1, <1>4 DEF Shape, WinOK
<1>6. Shape'
  BY <1>1, <1>3, <1>5 DEF Shape
<1>7. \A u \in Windows : WindowKept(u, out)
  BY <1>1, <1>4, OthersKept
<1>8. Links'
  BY <1>1, <1>2, <1>3, <1>6, <1>7, LinksKept
<1> QED BY <1>6, <1>7, <1>8 DEF Remembered, WindowKept

LEMMA ReplyStep ==
  ASSUME WindowAssumption, WindowInv, NEW w \in Windows, Reply(w)
  PROVE  WindowInv'
<1>1. PICK x : x = win[w]
  OBVIOUS
<1>2. /\ WinOK(x) /\ x \in WinRec /\ x.pc = "reply" /\ InProcess(w) \in WAction
      /\ x.ws \in Workspaces /\ x.st # "none" /\ x.queue # <<>>
  BY <1>1, Processing DEF Reply
<1>3. UNCHANGED <<db, recent, asked, ops, failures>>
  BY DEF Reply
<1>4. DbGood(db) /\ recent \in SUBSET Views /\ ops \in Nat /\ failures \in Nat
  BY DEF WindowInv, Shape, DbOK
<1>5. CASE win' = [win EXCEPT ![w] = NextTurn(@)] /\ UNCHANGED <<view, cache>>
  BY <1>1, <1>2, <1>3, <1>4, <1>5, EndStep
<1>6. CASE /\ win' = [win EXCEPT ![w] = Return([win[w] EXCEPT
                            !.asks = IF win[w].reply = "closewindow" /\ Open(w) /\ @ = "no" THEN Alone(w) ELSE @])]
           /\ UNCHANGED <<view, cache>>
  <2>1. PICK b \in {"no", "sole", "more"} :
          b = IF win[w].reply = "closewindow" /\ Open(w) /\ x.asks = "no" THEN Alone(w) ELSE x.asks
    BY <1>1, <1>2 DEF WinRec, Alone
  <2>2. PICK y : y = [x EXCEPT !.asks = b]
    OBVIOUS
  <2>3. /\ y \in WinRec /\ y.pc = x.pc /\ y.st = x.st /\ y.ws = x.ws /\ y.queue = x.queue
        /\ y.active = x.active /\ y.loaded = x.loaded /\ y.reply = x.reply /\ y.tab = x.tab
    BY <1>2, <2>2 DEF WinRec
  <2>4. WinOK(y) /\ RecKept(x, y)
    BY <1>2, <2>3 DEF WinOK, RecKept, Late
  <2>5. WinOK(Return(y)) /\ RecKept(y, Return(y))
    BY <1>2, <2>3, <2>4, EndOfAction
  <2>6. RecKept(x, Return(y))
    BY <2>3, <2>5 DEF RecKept, Late
  <2>7. win' = [win EXCEPT ![w] = Return(y)]
    <3> DEFINE e == [win[w] EXCEPT
                            !.asks = IF win[w].reply = "closewindow" /\ Open(w) /\ @ = "no" THEN Alone(w) ELSE @]
    <3>1. y = e
      BY <1>1, <2>1, <2>2
    <3>2. win' = [win EXCEPT ![w] = Return(e)]
      BY <1>6
    <3> HIDE DEF e
    <3> QED BY <3>1, <3>2
  <2> QED BY <1>1, <1>3, <1>4, <1>6, <2>5, <2>6, <2>7, RecStep
<1>7. CASE /\ win[w].reply \in Tabs /\ win' = [win EXCEPT ![w].pc = "obtain", ![w].tab = win[w].reply]
           /\ UNCHANGED <<view, cache>>
  <2>1. PICK t \in Tabs : t = win[w].reply
    BY <1>7
  <2>2. PICK s : s = [x EXCEPT !.pc = "obtain", !.tab = t]
    OBVIOUS
  <2>3. /\ s \in WinRec /\ s.pc = "obtain" /\ s.st = x.st /\ s.ws = x.ws /\ s.queue = x.queue
        /\ s.active = x.active /\ s.loaded = x.loaded /\ s.tab \in Tabs
    BY <1>2, <2>2 DEF WinRec
  <2>4. WinOK(s) /\ RecKept(x, s)
    BY <1>2, <2>3 DEF WinOK, RecKept, Late
  <2>5. win' = [win EXCEPT ![w] = s]
    BY <1>1, <1>7, <2>1, <2>2 DEF WindowInv, Shape
  <2> QED BY <1>1, <1>3, <1>4, <1>7, <2>4, <2>5, RecStep
<1>8. CASE /\ win[w].reply \in Tabs /\ InProcess(w).op = "switchworkspace"
           /\ win' = [win EXCEPT ![w].pc = "obtain", ![w].tab = win[w].reply, ![w].ws = InProcess(w).ws,
                       ![w].loaded = NoLoaded]
           /\ view' = Destroyed(Listed(win[w].loaded))
           /\ cache' = Forgotten(cache, Listed(win[w].loaded))
  <2>1. PICK t \in Tabs : t = win[w].reply
    BY <1>8
  <2>2. PICK r \in Workspaces : r = InProcess(w).ws
    BY <1>2, <1>8 DEF WAction
  <2>3. NoLoaded \in [Tabs -> Views \cup {None}] /\ \A y \in Tabs : NoLoaded[y] = None
    BY DEF NoLoaded
  <2>4. PICK s : s = [x EXCEPT !.pc = "obtain", !.tab = t, !.ws = r, !.loaded = NoLoaded]
    OBVIOUS
  <2>5. /\ s \in WinRec /\ s.pc = "obtain" /\ s.st = x.st /\ s.ws = r /\ s.queue = x.queue
        /\ s.active = x.active /\ s.loaded = NoLoaded /\ s.tab \in Tabs
    BY <1>2, <2>3, <2>4 DEF WinRec
  <2>6. WinOK(s)
    BY <1>2, <2>5 DEF WinOK
  <2>7. win' = [win EXCEPT ![w] = s]
    BY <1>1, <1>8, <2>1, <2>2, <2>4 DEF WindowInv, Shape
  <2>8. win'[w] = s
    BY <2>7 DEF WindowInv, Shape
  <2>9. WindowKept(w, Listed(win[w].loaded))
    BY <1>1, <1>2, <2>3, <2>5, <2>8 DEF WindowKept, Late
  <2>10. ~Late(win[w])
    BY <1>1, <1>2 DEF Late
  <2>11. Shape' /\ Links' /\ Remembered
    BY <1>3, <1>4, <1>8, <2>6, <2>7, <2>9, <2>10, GoneStep
  <2> QED BY <1>3, <2>11, AsksStay DEF WindowInv, DbOK
<1> QED BY <1>5, <1>6, <1>7, <1>8 DEF Reply

\* The page of a window that was closed meanwhile is told nothing.
LEMMA InitializeStep ==
  ASSUME WindowAssumption, WindowInv, NEW w \in Windows, Initialize(w)
  PROVE  WindowInv'
<1>1. UNCHANGED <<db, cache, recent, asked, ops, failures>> /\ win[w].pc = "init"
  BY DEF Initialize
<1>2. CASE ~Open(w)
  <2>1. win' = [win EXCEPT ![w] = NextTurn(@)] /\ view' = view
    BY <1>2 DEF Initialize
  <2> QED BY <1>1, <1>2, <2>1, EndStep DEF WindowInv, Shape
<1>3. CASE Open(w)
  <2>1. PICK x : x = win[w]
    OBVIOUS
  <2>2. /\ WinOK(x) /\ x \in WinRec /\ x.pc = "init" /\ x.ws \in Workspaces /\ x.st # "none" /\ x.queue # <<>>
    BY <1>1, <2>1, Processing
  <2>3. PICK v \in Views : v = win[w].active
    <3>1. win[w].active # None /\ win[w].active \in Views \cup {None}
      BY <1>1, <2>1, <2>2 DEF WindowInv, Links, Starting, WinRec
    <3> QED BY <3>1
  <2>4. PICK y : y = view[v]
    OBVIOUS
  <2>5. y \in ViewRec /\ y.page = "loaded" /\ y.life # "none" /\ y.win = w
    <3>1. view[v].page = "loaded"
      BY <2>3 DEF Initialize
    <3>2. view[v].life # "none"
      BY <3>1 DEF WindowInv, Links, NewViews, NewView
    <3> QED BY <1>1, <2>3, <2>4, <3>1, <3>2 DEF WindowInv, Shape, Links, Starting
  <2>6. PICK z : z = [y EXCEPT !.child = w]
    OBVIOUS
  <2>7. /\ z \in ViewRec /\ z.tab = y.tab /\ z.win = y.win /\ z.active = y.active /\ z.child = w
        /\ z.shown = y.shown /\ z.life = y.life
    BY <2>5, <2>6 DEF ViewRec
  <2>8. view' = [view EXCEPT ![v] = z]
    BY <1>3, <2>3, <2>4, <2>6 DEF Initialize
  <2>9. view'[v] = z /\ (\A u \in Views : u # v => view'[u] = view[u]) /\ view' \in [Views -> ViewRec]
    BY <2>7, <2>8 DEF WindowInv, Shape
  <2>10. \A u \in Views : ViewKept(u, {})
    BY <2>4, <2>5, <2>7, <2>9 DEF ViewKept
  <2>11. PICK s : s = [x EXCEPT !.pc = "ready"]
    OBVIOUS
  <2>12. /\ s \in WinRec /\ s.pc = "ready" /\ s.st = x.st /\ s.ws = x.ws /\ s.queue = x.queue
         /\ s.active = x.active /\ s.loaded = x.loaded
    BY <2>2, <2>11 DEF WinRec
  <2>13. WinOK(s)
    BY <2>2, <2>12 DEF WinOK
  <2>14. win' = [win EXCEPT ![w] = s]
    BY <1>3, <2>1, <2>11 DEF Initialize
  <2>15. win'[w] = s /\ \A u \in Windows : u # w => win'[u] = win[u]
    BY <2>14 DEF WindowInv, Shape
  <2>16. \A u \in Windows : WindowKept(u, {})
    <3>1. ASSUME NEW u \in Windows, u # w PROVE WindowKept(u, {})
      <4>1. win[u].pc = "init" => win'[u].pc = "init"
        BY <2>15, <3>1
      <4> QED BY <2>15, <3>1, <4>1 DEF WindowKept
    <3>2. WindowKept(w, {})
      BY <2>1, <2>2, <2>3, <2>7, <2>9, <2>12, <2>15 DEF WindowKept, Late
    <3> QED BY <3>1, <3>2
  <2>17. WindowsOK
    BY <2>13, <2>15, <2>12, <2>14 DEF WindowsOK, WindowInv, Shape
  <2>18. Shape'
    BY <1>1, <2>9, <2>17 DEF Shape, WindowsOK, WindowInv
  <2>19. Links'
    BY <1>1, <2>10, <2>16, <2>18, LinksKept DEF WindowInv
  <2>20. Remembered
    BY <2>16 DEF Remembered, WindowKept
  <2> QED BY <1>1, <2>18, <2>19, <2>20, AsksStay DEF WindowInv, DbOK
<1> QED BY <1>2, <1>3

-----------------------------------------------------------------------------
\* What a window shows and is about to show.

\* The workspace a window is to show and the tab it shows or is about to.
Place(r) ==
  IF r.pc = "reply" /\ r.queue[1].op = "switchworkspace" /\ r.reply \in Tabs THEN r.queue[1].ws ELSE r.ws
Target(r, shown) ==
  IF r.pc \in {"obtain", "config"} THEN r.tab
  ELSE IF r.pc = "reply" /\ r.reply \in Tabs THEN r.reply
  ELSE IF r.pc = "turn" /\ r.queue # <<>> /\ ~r.queue[1].backend THEN r.queue[1].tab
  ELSE shown

\* The views keep their tabs, a window its workspace and tab.
TabsStay == \A v \in Views : view[v].life # "none" => view'[v].tab = view[v].tab
SteadyWindow(w) ==
  win'[w].st = "open" =>
    /\ win[w].st = "open" /\ Place(win'[w]) = Place(win[w])
    /\ Target(win'[w], ActiveTab(w)') = Target(win[w], ActiveTab(w))

LEMMA ActiveTabStays ==
  ASSUME WindowAssumption, WindowInv, TabsStay, NEW w \in Windows, win'[w].active = win[w].active
  PROVE  ActiveTab(w)' = ActiveTab(w)
<1>1. win[w].active \in Views \cup {None}
  BY DEF WindowInv, Shape, WinRec
<1>2. win[w].active # None => view[win[w].active].life # "none"
  BY <1>1 DEF WindowInv, Links, NewViews
<1> QED BY <1>1, <1>2 DEF ActiveTab, TabsStay

\* A window whose record keeps these fields is steady.
LEMMA SteadyRec ==
  ASSUME WindowAssumption, WindowInv, TabsStay, NEW w \in Windows,
         win'[w].st = "open" => win[w].st = "open",
         win'[w].active = win[w].active, win'[w].pc = win[w].pc, win'[w].queue = win[w].queue,
         win'[w].tab = win[w].tab, win'[w].reply = win[w].reply, win'[w].ws = win[w].ws
  PROVE  SteadyWindow(w)
<1>1. ActiveTab(w)' = ActiveTab(w)
  BY ActiveTabStays
<1> QED BY <1>1 DEF SteadyWindow, Place, Target

LEMMA DestroyedTabs ==
  ASSUME WindowInv, NEW out, view' = Destroyed(out)
  PROVE  TabsStay
<1>1. ASSUME NEW v \in Views PROVE view'[v].tab = view[v].tab
  <2>1. PICK r \in ViewRec : r = view[v]
    BY DEF WindowInv, Shape
  <2>2. PICK s : s = [r EXCEPT !.life = "closing"]
    OBVIOUS
  <2>3. s.tab = r.tab
    BY <2>2 DEF ViewRec
  <2>4. view'[v] \in {r, s}
    BY <2>1, <2>2 DEF Destroyed
  <2> QED BY <2>1, <2>3, <2>4
<1> QED BY <1>1 DEF TabsStay

LEMMA UnloadedFields ==
  ASSUME WindowInv, NEW w \in Windows, NEW ts
  PROVE  /\ Unloaded(w, ts).st = win[w].st /\ Unloaded(w, ts).active = win[w].active
         /\ Unloaded(w, ts).pc = win[w].pc /\ Unloaded(w, ts).queue = win[w].queue
         /\ Unloaded(w, ts).tab = win[w].tab /\ Unloaded(w, ts).reply = win[w].reply
         /\ Unloaded(w, ts).ws = win[w].ws
<1>1. PICK r \in WinRec : r = win[w]
  BY DEF WindowInv, Shape
<1>2. PICK f : f = [t \in Tabs |-> IF t \in ts THEN None ELSE win[w].loaded[t]]
  OBVIOUS
<1>3. Unloaded(w, ts) = [r EXCEPT !.loaded = f]
  BY <1>1, <1>2 DEF Unloaded
<1> QED BY <1>1, <1>3 DEF WinRec

-----------------------------------------------------------------------------
\* The steps that show a view.

LEMMA ShownInFields ==
  ASSUME NEW ww \in [Windows -> WinRec], NEW w \in Windows, NEW v \in Views, win[w].tab \in Tabs,
         NEW pc \in {"init", "settle"}
  PROVE  \E s \in WinRec :
           /\ ShownIn(ww, w, v, pc) = [ww EXCEPT ![w] = s]
           /\ s.active = v /\ s.pc = pc /\ s.st = ww[w].st /\ s.ws = ww[w].ws /\ s.queue = ww[w].queue
           /\ \A x \in Tabs : s.loaded[x] = IF x = win[w].tab THEN v ELSE ww[w].loaded[x]
<1>1. PICK r \in WinRec : r = ww[w]
  OBVIOUS
<1>2. PICK t \in Tabs : t = win[w].tab
  OBVIOUS
<1>3. r.loaded \in [Tabs -> Views \cup {None}]
  BY DEF WinRec
<1>4. PICK f : f = [r.loaded EXCEPT ![t] = v]
  OBVIOUS
<1>5. f \in [Tabs -> Views \cup {None}] /\ \A x \in Tabs : f[x] = IF x = t THEN v ELSE r.loaded[x]
  BY <1>3, <1>4
<1>6. PICK s : s = [r EXCEPT !.active = v, !.loaded = f, !.pc = pc]
  OBVIOUS
<1>7. s \in WinRec /\ s.active = v /\ s.pc = pc /\ s.st = r.st /\ s.ws = r.ws /\ s.queue = r.queue /\ s.loaded = f
  BY <1>5, <1>6 DEF WinRec
<1>8. ShownIn(ww, w, v, pc) = [ww EXCEPT ![w] = s]
  BY <1>1, <1>2, <1>4, <1>6 DEF ShownIn
<1> QED BY <1>1, <1>2, <1>5, <1>7, <1>8

LEMMA ActivatedFields ==
  ASSUME NEW vw \in [Views -> ViewRec], NEW w \in Windows, NEW v \in Views
  PROVE  /\ Activated(vw, w, v) \in [Views -> ViewRec]
         /\ \A u \in Views : u # v =>
              /\ Activated(vw, w, v)[u].tab = vw[u].tab /\ Activated(vw, w, v)[u].win = vw[u].win
              /\ Activated(vw, w, v)[u].child = vw[u].child /\ Activated(vw, w, v)[u].shown = vw[u].shown
              /\ Activated(vw, w, v)[u].life = vw[u].life
              /\ u # win[w].active => Activated(vw, w, v)[u] = vw[u]
         /\ Activated(vw, w, v)[v].tab = vw[v].tab /\ Activated(vw, w, v)[v].win = vw[v].win
         /\ Activated(vw, w, v)[v].child = vw[v].child /\ Activated(vw, w, v)[v].life = vw[v].life
         /\ Activated(vw, w, v)[v].active /\ Activated(vw, w, v)[v].shown = vw[v].shown \cup {w}
<1>1. PICK aw : aw = Activated(vw, w, v)
  OBVIOUS
<1>2. ASSUME NEW u \in Views, u # v
      PROVE  /\ aw[u] \in ViewRec /\ aw[u].tab = vw[u].tab /\ aw[u].win = vw[u].win
             /\ aw[u].child = vw[u].child /\ aw[u].shown = vw[u].shown /\ aw[u].life = vw[u].life
             /\ u # win[w].active => aw[u] = vw[u]
  <2>1. PICK r \in ViewRec : r = vw[u]
    OBVIOUS
  <2>2. PICK s : s = [r EXCEPT !.active = FALSE]
    OBVIOUS
  <2>3. /\ s \in ViewRec /\ s.tab = r.tab /\ s.win = r.win /\ s.child = r.child /\ s.shown = r.shown
        /\ s.life = r.life
    BY <2>2 DEF ViewRec
  <2>4. aw[u] = IF u = win[w].active THEN s ELSE r
    BY <1>1, <1>2, <2>1, <2>2 DEF Activated
  <2> QED BY <2>1, <2>3, <2>4
<1>3. /\ aw[v] \in ViewRec /\ aw[v].tab = vw[v].tab /\ aw[v].win = vw[v].win /\ aw[v].child = vw[v].child
      /\ aw[v].life = vw[v].life /\ aw[v].active /\ aw[v].shown = vw[v].shown \cup {w}
  <2>1. PICK r \in ViewRec : r = vw[v]
    OBVIOUS
  <2>2. PICK m \in SUBSET Windows : m = r.shown \cup {w}
    BY DEF ViewRec
  <2>3. PICK s : s = [r EXCEPT !.active = TRUE, !.shown = m]
    OBVIOUS
  <2>4. /\ s \in ViewRec /\ s.tab = r.tab /\ s.win = r.win /\ s.child = r.child /\ s.shown = m
        /\ s.life = r.life /\ s.active = TRUE
    BY <2>3 DEF ViewRec
  <2>5. aw[v] = s
    BY <1>1, <2>1, <2>2, <2>3 DEF Activated
  <2> QED BY <2>1, <2>2, <2>4, <2>5
<1>4. aw \in [Views -> ViewRec]
  <2>1. \A u \in Views : aw[u] \in ViewRec
    BY <1>2, <1>3
  <2> QED BY <1>1, <2>1 DEF Activated
<1> QED BY <1>1, <1>2, <1>3, <1>4

LEMMA ObtainStep ==
  ASSUME WindowAssumption, WindowInv, NEW w \in Windows, Obtain(w)
  PROVE  WindowInv'
<1>1. PICK x : x = win[w]
  OBVIOUS
<1>2. /\ WinOK(x) /\ x \in WinRec /\ x.pc = "obtain" /\ x.ws \in Workspaces /\ x.st # "none"
      /\ x.queue # <<>> /\ x.tab \in Tabs
  BY <1>1, Processing DEF Obtain, WinOK
<1>3. PICK t \in Tabs : t = win[w].tab
  BY <1>1, <1>2
<1>4. PICK v \in Views \cup {None} : v = cache[t]
  BY DEF WindowInv, Shape
<1>5. UNCHANGED <<db, cache, asked, ops, failures>> /\ recent' = recent \cup ({v} \ {None})
  BY <1>3, <1>4 DEF Obtain
<1>6. v # None => v \in Views /\ view[v].life = "live" /\ view[v].tab = t
  BY <1>4 DEF WindowInv, Links, Cached
<1>7. DbGood(db) /\ recent \in SUBSET Views /\ ops \in Nat /\ failures \in Nat /\ Shape /\ Links
  BY DEF WindowInv, Shape, DbOK
<1>8. recent' \in SUBSET Views /\ \A u \in recent' : u \in recent \/ view[u].life # "none"
  BY <1>5, <1>6, <1>7
<1>9. CASE v = None
  <2>1. PICK s : s = [x EXCEPT !.pc = "config"]
    OBVIOUS
  <2>2. /\ s \in WinRec /\ s.pc = "config" /\ s.st = x.st /\ s.ws = x.ws /\ s.queue = x.queue
        /\ s.active = x.active /\ s.loaded = x.loaded /\ s.tab = x.tab
    BY <1>2, <2>1 DEF WinRec
  <2>3. WinOK(s) /\ RecKept(x, s)
    BY <1>2, <2>2 DEF WinOK, RecKept, Late
  <2>4. win' = [win EXCEPT ![w] = s] /\ view' = view
    BY <1>1, <1>3, <1>4, <1>9, <2>1 DEF Obtain
  <2> QED BY <1>1, <1>5, <1>7, <1>8, <2>3, <2>4, RecStep
<1>10. CASE v # None /\ win[w].active = v
  <2>1. win' = [win EXCEPT ![w] = NextTurn(@)] /\ view' = view
    BY <1>3, <1>4, <1>10 DEF Obtain
  <2> QED BY <1>1, <1>2, <1>5, <1>7, <1>8, <2>1, EndStep
<1>11. CASE v # None /\ win[w].active # v
  <2>1. win' = ShownIn(win, w, v, "settle") /\ view' = Activated(view, w, v)
    BY <1>3, <1>4, <1>11 DEF Obtain
  <2>2. v \in Views /\ view[v].life = "live" /\ view[v].tab = t
    BY <1>6, <1>11
  <2>3. PICK s \in WinRec :
          /\ win' = [win EXCEPT ![w] = s]
          /\ s.active = v /\ s.pc = "settle" /\ s.st = x.st /\ s.ws = x.ws /\ s.queue = x.queue
          /\ \A y \in Tabs : s.loaded[y] = IF y = t THEN v ELSE x.loaded[y]
    <3>1. win \in [Windows -> WinRec] /\ win[w].tab \in Tabs
      BY <1>3, <1>7 DEF Shape
    <3>2. \E s \in WinRec :
           /\ ShownIn(win, w, v, "settle") = [win EXCEPT ![w] = s]
           /\ s.active = v /\ s.pc = "settle" /\ s.st = win[w].st /\ s.ws = win[w].ws /\ s.queue = win[w].queue
           /\ \A y \in Tabs : s.loaded[y] = IF y = win[w].tab THEN v ELSE win[w].loaded[y]
      BY <2>2, <3>1, ShownInFields
    <3> QED BY <1>1, <1>3, <2>1, <3>2
  <2>4. WinOK(s)
    BY <1>2, <2>3 DEF WinOK
  <2>5. win'[w] = s /\ \A u \in Windows : u # w => win'[u] = win[u]
    BY <1>7, <2>3 DEF Shape
  <2>6. /\ view' \in [Views -> ViewRec]
        /\ \A u \in Views : u # v =>
             /\ view'[u].tab = view[u].tab /\ view'[u].win = view[u].win
             /\ view'[u].child = view[u].child /\ view'[u].shown = view[u].shown
             /\ view'[u].life = view[u].life /\ (u # win[w].active => view'[u] = view[u])
        /\ view'[v].tab = t /\ view'[v].win = view[v].win /\ view'[v].child = view[v].child
        /\ view'[v].life = "live" /\ view'[v].active /\ view'[v].shown = view[v].shown \cup {w}
    BY <1>7, <2>1, <2>2, ActivatedFields DEF Shape
  <2>7. Shape'
    <3>1. win' \in [Windows -> WinRec] /\ \A u \in Windows : WinOK(win'[u])
      BY <1>7, <2>3, <2>4, <2>5 DEF Shape
    <3> QED BY <1>5, <1>7, <1>8, <2>6, <3>1 DEF Shape
  <2>8. \A u \in Views : u # v => OtherView(u, w, {})
    <3>1. \A u \in Views : view[u].life = "none" => u # win[w].active
      BY <1>7 DEF Links, NewViews
    <3> QED BY <2>6, <3>1 DEF OtherView
  <2>9. ShownView(v, w, t)
    BY <2>2, <2>3, <2>5, <2>6 DEF ShownView
  <2>10. ShowingWindow(w, v, t, {})
    BY <1>1, <2>3, <2>5 DEF ShowingWindow
  <2>11. \A u \in Windows : u # w => WindowKept(u, {}) /\ win'[u].st = win[u].st /\ win'[u].pc = win[u].pc
    <3>1. ASSUME NEW u \in Windows, u # w PROVE WindowKept(u, {})
      BY <2>5, <3>1 DEF WindowKept
    <3> QED BY <2>5, <3>1
  <2>12. \A y \in Tabs : \/ cache'[y] = None
                         \/ (cache'[y] = v /\ y = t)
                         \/ (cache'[y] = cache[y] /\ cache[y] \notin {} \cup {v})
    BY <1>5, <1>7, <2>2 DEF Links, Cached
  <2>13. ~Late(win[w]) /\ win[w].st # "none" /\ win[w].pc # "init"
    BY <1>1, <1>2 DEF Late
  <2>14. Links'
    <3>1. \A u \in recent' : u \in recent \cup {v}
      BY <1>5
    <3> QED BY <1>7, <2>2, <2>7, <2>8, <2>9, <2>10, <2>11, <2>12, <2>13, <3>1, LinksShown
  <2>15. Remembered
    BY <1>1, <2>3, <2>5 DEF Remembered
  <2> QED BY <1>5, <2>7, <2>14, <2>15, AsksStay DEF WindowInv, DbOK
<1> QED BY <1>9, <1>10, <1>11

\* A new view, and what it pushes out of the cache.
LEMMA ConfigStep ==
  ASSUME WindowAssumption, WindowInv, NEW w \in Windows, Config(w)
  PROVE  WindowInv' /\ TabsStay /\ \A u \in Windows : SteadyWindow(u)
<1>1. PICK x : x = win[w]
  OBVIOUS
<1>2. /\ WinOK(x) /\ x \in WinRec /\ x.pc = "config" /\ x.ws \in Workspaces /\ x.st # "none"
      /\ x.queue # <<>> /\ x.tab \in Tabs
  BY <1>1, Processing DEF Config, WinOK
<1> DEFINE t == win[w].tab
           v == CHOOSE u \in Unused : TRUE
           with == [cache EXCEPT ![t] = v]
<1>3. t \in Tabs /\ t = win[w].tab
  BY <1>1, <1>2
<1>5. v \in Views /\ view[v].life = "none"
  <2>1. Unused # {}
    BY DEF Config
  <2> QED BY <2>1 DEF Unused
<1>6. with = [cache EXCEPT ![t] = v]
  OBVIOUS
<1>7. PICK all \in Tried(with) :
        /\ cache' = Forgotten(with, Evicted(all \ {v}))
        /\ win' = IF Open(w) THEN ShownIn(AfterEviction(all \ {v}), w, v, "init")
                  ELSE [ShownIn(AfterEviction(all \ {v}), w, v, "init") EXCEPT ![w] = NextTurn(@)]
        /\ view' = IF Open(w)
                   THEN Activated([Destroyed(Evicted(all \ {v})) EXCEPT ![v].life = "live", ![v].tab = t, ![v].win = w], w, v)
                   ELSE [Activated([Destroyed(Evicted(all \ {v})) EXCEPT ![v].life = "live", ![v].tab = t, ![v].win = w], w, v)
                         EXCEPT ![v].shown = {}]
  BY DEF Config
<1>8. UNCHANGED <<db, asked, ops, failures>> /\ recent' = recent \cup {v}
  BY DEF Config
<1> HIDE DEF t, v, with
<1>9. DbGood(db) /\ recent \in SUBSET Views /\ ops \in Nat /\ failures \in Nat /\ Shape /\ Links
  BY DEF WindowInv, Shape, DbOK
<1>10. cache \in [Tabs -> Views \cup {None}] /\ win \in [Windows -> WinRec] /\ view \in [Views -> ViewRec]
       /\ None \notin Views
  BY <1>9 DEF Shape, WindowAssumption
<1>11. PICK tried : tried = all \ {v}
  OBVIOUS
<1>12. tried \in SUBSET Views /\ \A u \in tried : view[u].tab \in Tabs
  <2>1. ASSUME NEW u \in tried PROVE u \in Views /\ view[u].tab \in Tabs
    <3>1. u \in Listed(with) /\ u # v
      BY <1>11, <2>1 DEF Tried
    <3>2. PICK y \in Tabs : u = cache[y] /\ u # None
      BY <1>6, <1>10, <3>1 DEF Listed
    <3> QED BY <1>9, <1>10, <3>2 DEF Links, Cached
  <2> QED BY <2>1
<1>13. PICK out : out = Evicted(tried)
  OBVIOUS
<1>14. out \in SUBSET Views /\ v \notin out
  <2>1. out \in SUBSET Views
    BY <1>9, <1>12, <1>13, EvictionTypes
  <2>2. v \notin Stale(tried)
    BY <1>11 DEF Stale
  <2>3. ASSUME NEW u \in Windows PROVE v \notin ViewsOf(u, EvictedFrom(u, tried))
    <3>1. \A y \in EvictedFrom(u, tried) : y \in Tabs
      BY <1>12, EvictedTabs
    <3> QED BY <1>5, <1>9, <3>1 DEF ViewsOf, Links, NewViews
  <2> QED BY <1>13, <2>1, <2>2, <2>3 DEF Evicted
\* The windows.
<1>15. PICK ww : ww = AfterEviction(tried)
  OBVIOUS
<1>16. \A u \in Windows : EvictedFrom(u, tried) \in SUBSET Tabs /\ ww[u] = Unloaded(u, EvictedFrom(u, tried))
  BY <1>12, <1>15, EvictedTabs DEF AfterEviction
<1>17. \A u \in Windows :
         /\ ww[u] \in WinRec /\ WinOK(ww[u])
         /\ ww[u].st = win[u].st /\ ww[u].pc = win[u].pc /\ ww[u].active = win[u].active /\ ww[u].ws = win[u].ws
         /\ ww[u].queue = win[u].queue
         /\ \A y \in Tabs : ww[u].loaded[y] = IF y \in EvictedFrom(u, tried) THEN None ELSE win[u].loaded[y]
  BY <1>9, <1>12, <1>16, EvictedTabs, RemovedOut
<1>18. ww \in [Windows -> WinRec]
  BY <1>15, <1>17 DEF AfterEviction
<1>19. PICK s \in WinRec :
         /\ ShownIn(ww, w, v, "init") = [ww EXCEPT ![w] = s]
         /\ s.active = v /\ s.pc = "init" /\ s.st = x.st /\ s.ws = x.ws /\ s.queue = x.queue
         /\ \A y \in Tabs : s.loaded[y] = IF y = t THEN v ELSE ww[w].loaded[y]
  <2>1. win[w].tab \in Tabs
    BY <1>3
  <2>2. \E s \in WinRec :
           /\ ShownIn(ww, w, v, "init") = [ww EXCEPT ![w] = s]
           /\ s.active = v /\ s.pc = "init" /\ s.st = ww[w].st /\ s.ws = ww[w].ws /\ s.queue = ww[w].queue
           /\ \A y \in Tabs : s.loaded[y] = IF y = win[w].tab THEN v ELSE ww[w].loaded[y]
    BY <1>5, <1>18, <2>1, ShownInFields
  <2> QED BY <1>1, <1>3, <1>17, <2>2
<1>20. WinOK(s)
  BY <1>2, <1>19 DEF WinOK
<1>21. PICK z : z = IF Open(w) THEN s ELSE NextTurn(s)
  OBVIOUS
<1>22. /\ WinOK(z) /\ z \in WinRec /\ z.st = x.st /\ z.active = v
       /\ \A y \in Tabs : z.loaded[y] = IF y = t THEN v ELSE ww[w].loaded[y]
       /\ z.pc = IF Open(w) THEN "init" ELSE "turn"
  <2>1. CASE Open(w)
    BY <1>19, <1>20, <1>21, <2>1
  <2>2. CASE ~Open(w)
    <3>1. s.st # "open" /\ s.st # "none"
      BY <1>1, <1>2, <1>19, <2>2 DEF Open
    <3>2. WinOK(NextTurn(s)) /\ NextTurn(s).pc = "turn" /\ RecKept(s, NextTurn(s))
      BY <1>19, <1>20, <3>1, EndOfAction
    <3>3. NextTurn(s).st = s.st
      <4>1. PICK q : q = Tail(s.queue)
        OBVIOUS
      <4>2. NextTurn(s) = [s EXCEPT !.queue = q, !.pc = "turn", !.reply = None, !.tab = None]
        BY <4>1 DEF NextTurn
      <4> QED BY <4>2 DEF WinRec
    <3> QED BY <1>19, <1>21, <2>2, <3>2, <3>3 DEF WinOK, RecKept
  <2> QED BY <2>1, <2>2
<1>23. win' = [ww EXCEPT ![w] = z]
  BY <1>7, <1>11, <1>15, <1>18, <1>19, <1>21
<1>24. win'[w] = z /\ \A u \in Windows : u # w => win'[u] = ww[u]
  BY <1>18, <1>23
\* The views.
<1>25. PICK dv : dv = Destroyed(out)
  OBVIOUS
<1>26. /\ dv \in [Views -> ViewRec]
       /\ \A u \in Views :
            /\ dv[u].tab = view[u].tab /\ dv[u].win = view[u].win /\ dv[u].active = view[u].active
            /\ dv[u].child = view[u].child /\ dv[u].shown = view[u].shown
            /\ dv[u].life = IF u \in out /\ view[u].life = "live" THEN "closing" ELSE view[u].life
            /\ view[u].life # "live" => dv[u] = view[u]
  <2>1. ASSUME NEW u \in Views
        PROVE  /\ dv[u] \in ViewRec
               /\ dv[u].tab = view[u].tab /\ dv[u].win = view[u].win /\ dv[u].active = view[u].active
               /\ dv[u].child = view[u].child /\ dv[u].shown = view[u].shown
               /\ dv[u].life = IF u \in out /\ view[u].life = "live" THEN "closing" ELSE view[u].life
               /\ view[u].life # "live" => dv[u] = view[u]
    <3>1. PICK r \in ViewRec : r = view[u]
      BY <1>10
    <3>2. PICK k : k = [r EXCEPT !.life = "closing"]
      OBVIOUS
    <3>3. /\ k \in ViewRec /\ k.tab = r.tab /\ k.win = r.win /\ k.active = r.active /\ k.child = r.child
          /\ k.shown = r.shown /\ k.life = "closing"
      BY <3>1, <3>2 DEF ViewRec
    <3>4. dv[u] = IF u \in out /\ r.life = "live" THEN k ELSE r
      BY <1>25, <3>1, <3>2 DEF Destroyed
    <3> QED BY <3>1, <3>3, <3>4
  <2> QED BY <1>25, <2>1 DEF Destroyed
<1>27. PICK n : n = [dv[v] EXCEPT !.life = "live", !.tab = t, !.win = w]
  OBVIOUS
<1>28. n \in ViewRec /\ n.tab = t /\ n.win = w /\ n.life = "live" /\ n.shown = {}
  <2>1. dv[v] = NewView /\ dv[v] \in ViewRec
    BY <1>5, <1>9, <1>26 DEF Links, NewViews
  <2>2. dv[v].shown = {}
    BY <2>1 DEF NewView
  <2> QED BY <1>3, <1>27, <2>1, <2>2 DEF ViewRec
<1>29. PICK vw : vw = [dv EXCEPT ![v] = n]
  OBVIOUS
<1>30. vw \in [Views -> ViewRec] /\ vw[v] = n /\ \A u \in Views : u # v => vw[u] = dv[u]
  BY <1>5, <1>26, <1>28, <1>29
<1>31. PICK aw : aw = Activated(vw, w, v)
  OBVIOUS
<1>32. /\ aw \in [Views -> ViewRec]
       /\ \A u \in Views : u # v =>
            /\ aw[u].tab = dv[u].tab /\ aw[u].win = dv[u].win /\ aw[u].child = dv[u].child
            /\ aw[u].shown = dv[u].shown /\ aw[u].life = dv[u].life
            /\ u # win[w].active => aw[u] = dv[u]
       /\ aw[v].tab = t /\ aw[v].win = w /\ aw[v].life = "live" /\ aw[v].active /\ aw[v].shown = {w}
  <2>1. /\ Activated(vw, w, v) \in [Views -> ViewRec]
        /\ \A u \in Views : u # v =>
              /\ Activated(vw, w, v)[u].tab = vw[u].tab /\ Activated(vw, w, v)[u].win = vw[u].win
              /\ Activated(vw, w, v)[u].child = vw[u].child /\ Activated(vw, w, v)[u].shown = vw[u].shown
              /\ Activated(vw, w, v)[u].life = vw[u].life
              /\ u # win[w].active => Activated(vw, w, v)[u] = vw[u]
        /\ Activated(vw, w, v)[v].tab = vw[v].tab /\ Activated(vw, w, v)[v].win = vw[v].win
        /\ Activated(vw, w, v)[v].child = vw[v].child /\ Activated(vw, w, v)[v].life = vw[v].life
        /\ Activated(vw, w, v)[v].active /\ Activated(vw, w, v)[v].shown = vw[v].shown \cup {w}
    BY ONLY <1>5, <1>30, ActivatedFields
  <2>2. n.shown \cup {w} = {w}
    BY <1>28
  <2> QED BY <1>5, <1>28, <1>30, <1>31, <2>1, <2>2
<1>33. PICK m : m = [aw[v] EXCEPT !.shown = {}]
  OBVIOUS
<1>34. m \in ViewRec /\ m.tab = t /\ m.win = w /\ m.life = "live" /\ m.active /\ m.shown = {}
  <2>1. aw[v] \in ViewRec
    BY <1>5, <1>32
  <2> QED BY <1>32, <1>33, <2>1 DEF ViewRec
<1>35. view' = IF Open(w) THEN aw ELSE [aw EXCEPT ![v] = m]
  <2>1. vw = [dv EXCEPT ![v].life = "live", ![v].tab = t, ![v].win = w]
    BY <1>5, <1>26, <1>27, <1>29
  <2> QED BY <1>7, <1>11, <1>13, <1>25, <1>31, <1>33, <2>1
<1>36. /\ view' \in [Views -> ViewRec]
       /\ \A u \in Views : u # v => view'[u] = aw[u]
       /\ view'[v].tab = t /\ view'[v].win = w /\ view'[v].life = "live" /\ view'[v].active
       /\ view'[v].shown = IF Open(w) THEN {w} ELSE {}
  <2>1. CASE Open(w)
    BY <1>32, <1>35, <2>1
  <2>2. CASE ~Open(w)
    BY <1>5, <1>32, <1>34, <1>35, <2>2
  <2> QED BY <2>1, <2>2
\* The cache.
<1>37. \A y \in Tabs : \/ cache'[y] = None
                       \/ (cache'[y] = v /\ y = t)
                       \/ (cache'[y] = cache[y] /\ cache[y] \notin out \cup {v})
  <2>1. ASSUME NEW y \in Tabs, cache'[y] # None, ~(cache'[y] = v /\ y = t)
        PROVE  cache'[y] = cache[y] /\ cache[y] \notin out \cup {v}
    <3>1. cache'[y] = with[y] /\ ~\E u \in out : view[u].tab = y
      BY <1>7, <1>11, <1>13, <2>1 DEF Forgotten
    <3>2. y # t /\ with[y] = cache[y]
      BY <1>6, <1>10, <2>1, <3>1
    <3>3. view[cache[y]].tab = y /\ cache[y] # v
      BY <1>5, <1>9, <2>1, <3>1, <3>2 DEF Links, Cached, NewViews
    <3> QED BY <3>1, <3>2, <3>3
  <2> QED BY <2>1
<1>38. cache' \in [Tabs -> Views \cup {None}]
  <2>1. \A y \in Tabs : cache'[y] \in Views \cup {None}
    BY <1>5, <1>10, <1>37
  <2> QED BY <1>7, <2>1 DEF Forgotten
<1>39. Shape'
  <2>1. win' \in [Windows -> WinRec] /\ \A u \in Windows : WinOK(win'[u])
    BY <1>17, <1>18, <1>22, <1>23, <1>24
  <2> QED BY <1>5, <1>8, <1>9, <1>36, <1>38, <2>1 DEF Shape
\* What LinksShown asks for.
<1>40. \A u \in Views : u # v => OtherView(u, w, out)
  <2>1. ASSUME NEW u \in Views, u # v PROVE OtherView(u, w, out)
    <3>1. view[u].life = "none" => u # win[w].active
      BY <1>9 DEF Links, NewViews
    <3>2. view'[u] = aw[u]
      BY <1>36, <2>1
    <3> QED BY <1>26, <1>32, <2>1, <3>1, <3>2 DEF OtherView
  <2> QED BY <2>1
<1>41. ShownView(v, w, t)
  <2>1. CASE Open(w)
    BY <1>5, <1>22, <1>24, <1>36, <2>1 DEF ShownView
  <2>2. CASE ~Open(w)
    <3>1. Late(win'[w])
      BY <1>1, <1>22, <1>24, <2>2 DEF Late, Open
    <3> QED BY <1>5, <1>36, <2>2, <3>1 DEF ShownView
  <2> QED BY <2>1, <2>2
<1>42. ShowingWindow(w, v, t, out)
  <2>1. \A y \in Tabs : y # t => win'[w].loaded[y] \in {win[w].loaded[y], None}
    BY <1>17, <1>22, <1>24
  <2>2. ASSUME win'[w].st = "open", NEW y \in Tabs, y # t, win'[w].loaded[y] # None
        PROVE  \/ win[w].loaded[y] \notin out \/ view[win[w].loaded[y]].shown # {w}
               \/ view[win[w].loaded[y]].win # w
    <3>1. Open(w)
      BY <1>1, <1>22, <1>24, <2>2 DEF Open
    <3>2. y \notin EvictedFrom(w, tried) /\ win[w].loaded[y] # None
      BY <1>17, <1>22, <1>24, <2>2
    <3> QED BY <1>9, <1>12, <1>13, <3>1, <3>2, EvictionSpares
  <2>3. win'[w].active = v /\ win'[w].loaded[t] = v /\ win'[w].st = win[w].st
    BY <1>1, <1>3, <1>22, <1>24
  <2> QED BY <2>1, <2>2, <2>3 DEF ShowingWindow
<1>43. \A u \in Windows : u # w => WindowKept(u, out) /\ win'[u].st = win[u].st /\ win'[u].pc = win[u].pc
  <2>1. ASSUME NEW u \in Windows, u # w PROVE WindowKept(u, out)
    <3>1. win'[u] = Unloaded(u, EvictedFrom(u, tried))
      BY <1>16, <1>24, <2>1
    <3> QED BY <1>9, <1>12, <1>13, <3>1, EvictionKept
  <2> QED BY <1>17, <1>24, <2>1
<1>44. ~Late(win[w]) /\ win[w].st # "none" /\ win[w].pc # "init"
  BY <1>1, <1>2 DEF Late
<1>45. Links'
  <2>1. \A u \in recent' : u \in recent \cup {v}
    BY <1>8
  <2> QED BY <1>3, <1>5, <1>9, <1>14, <1>37, <1>39, <1>40, <1>41, <1>42, <1>43, <1>44, <2>1, LinksShown
<1>46. Remembered
  BY <1>1, <1>22, <1>24, <1>43 DEF Remembered
<1>47. WindowInv'
  BY <1>8, <1>39, <1>45, <1>46, AsksStay DEF WindowInv, DbOK
\* What it shows is the tab it was about to show.
<1>48. TabsStay
  BY <1>5, <1>26, <1>32, <1>36 DEF TabsStay
<1>49. \A u \in Windows : u # w => SteadyWindow(u)
  <2>1. ASSUME NEW u \in Windows, u # w PROVE SteadyWindow(u)
    <3>1. PICK ts : ts = EvictedFrom(u, tried)
      OBVIOUS
    <3>2. win'[u] = Unloaded(u, ts)
      BY <1>16, <1>24, <2>1, <3>1
    <3> QED BY <1>48, <3>2, UnloadedFields, SteadyRec
  <2> QED BY <2>1
<1>50. SteadyWindow(w)
  <2>1. SUFFICES ASSUME win'[w].st = "open"
                 PROVE  /\ win[w].st = "open" /\ Place(win'[w]) = Place(win[w])
                        /\ Target(win'[w], ActiveTab(w)') = Target(win[w], ActiveTab(w))
    BY DEF SteadyWindow
  <2>2. win[w].st = "open" /\ win'[w] = s
    BY <1>1, <1>21, <1>22, <1>24, <2>1 DEF Open
  <2>3. s.pc = "init" /\ s.ws = x.ws /\ s.active = v
    BY <1>19
  <2>4. Place(win'[w]) = Place(win[w])
    BY <1>1, <1>2, <2>2, <2>3 DEF Place
  <2>5. ActiveTab(w)' = t
    BY <1>5, <1>10, <1>36, <2>2, <2>3 DEF ActiveTab
  <2> QED BY <1>1, <1>2, <1>3, <2>2, <2>3, <2>4, <2>5 DEF Target
<1> QED BY <1>47, <1>48, <1>49, <1>50

-----------------------------------------------------------------------------
\* The pages, the timers and the end of a window.

LEMMA PageAdvancesStep ==
  ASSUME WindowAssumption, WindowInv, NEW v \in Views, PageAdvances(v)
  PROVE  WindowInv'
<1>1. UNCHANGED <<db, win, cache, recent, asked, ops, failures>> /\ view[v].life = "live"
  BY DEF PageAdvances
<1>2. PICK page \in {"loaded", "ready"} : view' = [view EXCEPT ![v].page = page]
  BY DEF PageAdvances
<1>3. PICK r \in ViewRec : r = view[v]
  BY DEF WindowInv, Shape
<1>4. PICK s : s = [r EXCEPT !.page = page]
  OBVIOUS
<1>5. /\ s \in ViewRec /\ s.tab = r.tab /\ s.win = r.win /\ s.active = r.active /\ s.child = r.child
      /\ s.shown = r.shown /\ s.life = r.life
  BY <1>4 DEF ViewRec
<1>6. view' \in [Views -> ViewRec] /\ view'[v] = s /\ \A u \in Views : u # v => view'[u] = view[u]
  BY <1>2, <1>3, <1>4, <1>5 DEF WindowInv, Shape
<1>7. \A u \in Views : ViewKept(u, {})
  BY <1>1, <1>3, <1>5, <1>6 DEF ViewKept
<1>8. WindowsOK /\ \A u \in Windows : WindowKept(u, {})
  <2>1. \A u \in Windows : WindowKept(u, {})
    BY <1>1 DEF WindowKept
  <2> QED BY <1>1, <2>1 DEF WindowsOK, WindowInv, Shape
<1>9. Shape'
  BY <1>1, <1>6, <1>8 DEF Shape, WindowsOK, WindowInv
<1>10. Links'
  BY <1>1, <1>7, <1>8, <1>9, LinksKept DEF WindowInv
<1>11. Remembered
  BY <1>1 DEF Remembered
<1> QED BY <1>1, <1>9, <1>10, <1>11, AsksStay DEF WindowInv, DbOK

LEMMA PageDestroyedStep ==
  ASSUME WindowAssumption, WindowInv, NEW v \in Views, PageDestroyed(v)
  PROVE  WindowInv'
<1>1. /\ UNCHANGED <<db, win, recent, asked, ops, failures>> /\ view[v].life = "closing"
      /\ view' = [view EXCEPT ![v].life = "gone"] /\ cache' = Forgotten(cache, {v})
  BY DEF PageDestroyed
<1>2. PICK r \in ViewRec : r = view[v]
  BY DEF WindowInv, Shape
<1>3. PICK s : s = [r EXCEPT !.life = "gone"]
  OBVIOUS
<1>4. /\ s \in ViewRec /\ s.tab = r.tab /\ s.win = r.win /\ s.active = r.active /\ s.child = r.child
      /\ s.shown = r.shown /\ s.life = "gone"
  BY <1>3 DEF ViewRec
<1>5. view' \in [Views -> ViewRec] /\ view'[v] = s /\ \A u \in Views : u # v => view'[u] = view[u]
  BY <1>1, <1>2, <1>3, <1>4 DEF WindowInv, Shape
<1>6. \A u \in Views : ViewKept(u, {})
  BY <1>1, <1>2, <1>4, <1>5 DEF ViewKept
<1>7. \A t \in Tabs : cache'[t] \in Views \cup {None} /\ cache'[t] \in {None, cache[t]}
  BY <1>1 DEF Forgotten, WindowInv, Shape
<1>8. cache' \in [Tabs -> Views \cup {None}]
  BY <1>1, <1>7 DEF Forgotten
<1>9. WindowsOK /\ \A u \in Windows : WindowKept(u, {})
  <2>1. \A u \in Windows : WindowKept(u, {})
    BY <1>1 DEF WindowKept
  <2> QED BY <1>1, <2>1 DEF WindowsOK, WindowInv, Shape
<1>10. Shape'
  BY <1>1, <1>5, <1>8, <1>9 DEF Shape, WindowsOK, WindowInv
<1>11. Links'
  BY <1>1, <1>6, <1>7, <1>9, <1>10, LinksKept DEF WindowInv
<1>12. Remembered
  BY <1>1 DEF Remembered
<1> QED BY <1>1, <1>10, <1>11, <1>12, AsksStay DEF WindowInv, DbOK

LEMMA SecondPassesStep ==
  ASSUME WindowAssumption, WindowInv, SecondPasses
  PROVE  WindowInv'
<1>1. UNCHANGED <<db, win, view, cache, asked, ops, failures>> /\ recent' = {}
  BY DEF SecondPasses
<1>2. WindowsOK /\ \A u \in Windows : WindowKept(u, {})
  BY <1>1, SameWindows DEF WindowInv
<1>3. Shape' /\ Links' /\ Remembered
  BY <1>1, <1>2, ViewsStay DEF WindowInv, Shape
<1> QED BY <1>1, <1>3, AsksStay DEF WindowInv, DbOK

LEMMA RemoveTimerStep ==
  ASSUME WindowAssumption, WindowInv, NEW w \in Windows, NEW t \in Tabs, RemoveTimer(w, t)
  PROVE  WindowInv'
<1>1. UNCHANGED <<db, recent, asked, ops, failures>>
  BY DEF RemoveTimer
<1>2. Shape /\ Links /\ ops \in Nat /\ failures \in Nat
  BY DEF WindowInv, Shape
<1>3. CASE ~Open(w)
  <2>1. UNCHANGED <<win, view, cache>>
    BY <1>3 DEF RemoveTimer
  <2>2. WindowsOK /\ \A u \in Windows : WindowKept(u, {})
    BY <1>2, <2>1, SameWindows
  <2>3. Shape' /\ Links' /\ Remembered
    BY <1>1, <1>2, <2>1, <2>2, ViewsStay DEF Shape
  <2> QED BY <1>1, <2>3, AsksStay DEF WindowInv, DbOK
<1>4. CASE Open(w)
  <2>1. PICK ts : ts = Removed(w, {t})
    OBVIOUS
  <2>2. ts \in SUBSET Tabs /\ \A x \in ts : Open(w) /\ win[w].loaded[x] # None /\ x # ActiveTab(w)
    BY <1>4, <2>1 DEF Removed
  <2>3. PICK out : out = ViewsOf(w, ts)
    OBVIOUS
  <2>4. PICK s : s = Unloaded(w, ts)
    OBVIOUS
  <2>5. win' = [win EXCEPT ![w] = s] /\ view' = Destroyed(out) /\ cache' = Forgotten(cache, out)
    BY <1>4, <2>1, <2>3, <2>4 DEF RemoveTimer, RemoveTabView
  <2>6. /\ out \subseteq Listed(win[w].loaded) /\ WinOK(s)
        /\ \A x \in Tabs : s.loaded[x] = IF x \in ts THEN None ELSE win[w].loaded[x]
        /\ \A x \in Tabs : x \notin ts => win[w].loaded[x] \notin out
        /\ win[w].active # None => view[win[w].active].tab \notin ts
        /\ s.st = win[w].st /\ s.pc = win[w].pc /\ s.active = win[w].active
    BY <1>2, <1>4, <2>2, <2>3, <2>4, RemovedOut
  <2>7. ~Late(win[w])
    BY <1>4 DEF Late, Open
  <2>8. win'[w] = s
    BY <1>2, <2>5 DEF Shape
  <2>9. ASSUME NEW x \in Tabs, s.loaded[x] # None
        PROVE  /\ win[w].loaded[x] \notin out /\ win[w].active \notin out
               /\ s.loaded[view[win[w].active].tab] = win[w].loaded[view[win[w].active].tab]
    <3>1. x \notin ts /\ win[w].loaded[x] # None
      BY <2>6, <2>9
    <3>2. win[w].active # None /\ win[w].loaded[view[win[w].active].tab] = win[w].active
      BY <1>2, <1>4, <3>1 DEF Links, ActiveListed
    <3>3. view[win[w].active].tab \in Tabs
      <4>1. win[w].active \in Views
        BY <1>2, <3>2 DEF Shape, WinRec
      <4>2. w \in view[win[w].active].shown
        BY <1>2, <2>7, <3>2 DEF Links, ActiveShown
      <4>3. view[win[w].active].life # "none"
        BY <1>2, <4>1, <4>2 DEF Links, NewViews, NewView
      <4> QED BY <1>2, <4>1, <4>3 DEF Links, OldViews
    <3> QED BY <2>6, <3>1, <3>2, <3>3
  <2>10. WindowKept(w, out)
    BY <2>6, <2>8, <2>9 DEF WindowKept, Late
  <2>11. Shape' /\ Links' /\ Remembered
    BY <1>1, <1>2, <2>5, <2>6, <2>7, <2>10, GoneStep
  <2> QED BY <1>1, <2>11, AsksStay DEF WindowInv, DbOK
<1> QED BY <1>3, <1>4

LEMMA ClearTabCacheStep ==
  ASSUME WindowAssumption, WindowInv, ClearTabCache
  PROVE  WindowInv'
<1>1. PICK tried : tried = Listed(cache)
  OBVIOUS
<1>2. Shape /\ Links /\ ops \in Nat /\ failures \in Nat
  BY DEF WindowInv, Shape
<1>3. tried \in SUBSET Views /\ \A v \in tried : view[v].tab \in Tabs
  BY <1>1, <1>2 DEF Listed, Shape, Links, Cached
<1>4. PICK out : out = Evicted(tried)
  OBVIOUS
<1>5. out \in SUBSET Views
  BY <1>2, <1>3, <1>4, EvictionTypes
<1>6. /\ win' = AfterEviction(tried) /\ view' = Destroyed(out) /\ cache' = Forgotten(cache, out)
      /\ UNCHANGED <<db, recent, asked, failures>> /\ ops' \in Nat
  BY <1>1, <1>2, <1>4 DEF ClearTabCache, Asking
<1>7. \A u \in Windows : EvictedFrom(u, tried) \in SUBSET Tabs /\ win'[u] = Unloaded(u, EvictedFrom(u, tried))
  BY <1>3, <1>6, EvictedTabs DEF AfterEviction
<1>8. \A u \in Windows : win'[u] \in WinRec /\ WinOK(win'[u])
  BY <1>2, <1>3, <1>7, EvictedTabs, RemovedOut
<1>9. win' \in [Windows -> WinRec]
  BY <1>6, <1>8 DEF AfterEviction
<1>10. \A u \in Windows : WindowKept(u, out)
  BY <1>2, <1>3, <1>4, <1>7, EvictionKept
<1>11. /\ view' \in [Views -> ViewRec] /\ cache' \in [Tabs -> Views \cup {None}]
       /\ \A v \in Views : ViewKept(v, out)
       /\ \A t \in Tabs : cache'[t] = None \/ (cache'[t] = cache[t] /\ cache[t] \notin out)
  BY <1>2, <1>5, <1>6, Views_Destroyed
<1>12. Shape'
  BY <1>2, <1>6, <1>8, <1>9, <1>11 DEF Shape
<1>13. Links'
  BY <1>2, <1>5, <1>6, <1>10, <1>11, <1>12, LinksKept
<1>14. Remembered
  BY <1>10 DEF Remembered, WindowKept
<1> QED BY <1>6, <1>12, <1>13, <1>14, AsksStay DEF WindowInv, DbOK

LEMMA ClosedStep ==
  ASSUME WindowAssumption, WindowInv, NEW w \in Windows, Open(w), NEW delete \in BOOLEAN, Closed(w, delete),
         recent' = recent, ops' \in Nat, failures' \in Nat
  PROVE  Shape' /\ Links' /\ Remembered
<1>1. PICK x : x = win[w]
  OBVIOUS
<1>2. WinOK(x) /\ x \in WinRec /\ x.st = "open"
  BY <1>1 DEF WindowInv, Shape, Open
<1>3. PICK st \in {"deleting", "closed"} : st = IF delete THEN "deleting" ELSE "closed"
  OBVIOUS
<1>4. PICK s : s = [x EXCEPT !.st = st, !.asks = "no"]
  OBVIOUS
<1>5. /\ s \in WinRec /\ s.st = st /\ s.pc = x.pc /\ s.ws = x.ws /\ s.queue = x.queue /\ s.tab = x.tab
      /\ s.reply = x.reply /\ s.active = x.active /\ s.loaded = x.loaded
  BY <1>2, <1>4 DEF WinRec
<1>6. WinOK(s)
  BY <1>2, <1>5 DEF WinOK
<1>7. PICK out : out = Listed(win[w].loaded)
  OBVIOUS
<1>8. win' = [win EXCEPT ![w] = s] /\ view' = Destroyed(out) /\ cache' = Forgotten(cache, out)
  BY <1>1, <1>3, <1>4, <1>7 DEF Closed
<1>9. win'[w] = s
  BY <1>8 DEF WindowInv, Shape
<1>10. WindowKept(w, out)
  BY <1>1, <1>2, <1>5, <1>9 DEF WindowKept, Late
<1>11. ~Late(win[w])
  BY <1>1, <1>2 DEF Late
<1> QED BY <1>6, <1>7, <1>8, <1>10, <1>11, GoneStep

\* The dialog.
LEMMA AsksOfWindow ==
  ASSUME WindowAssumption, WindowInv, NEW w \in Windows, NEW b \in {"no", "sole", "more"}, win' = [win EXCEPT ![w].asks = b],
         Open(w), UNCHANGED <<db, view, cache, recent, asked, failures>>, ops' \in Nat
  PROVE  WindowInv'
<1>1. PICK x : x = win[w]
  OBVIOUS
<1>2. WinOK(x) /\ x \in WinRec /\ x.st = "open"
  BY <1>1 DEF WindowInv, Shape, Open
<1>3. PICK s : s = [x EXCEPT !.asks = b]
  OBVIOUS
<1>4. /\ s \in WinRec /\ s.st = x.st /\ s.pc = x.pc /\ s.ws = x.ws /\ s.queue = x.queue /\ s.tab = x.tab
      /\ s.reply = x.reply /\ s.active = x.active /\ s.loaded = x.loaded
  BY <1>2, <1>3 DEF WinRec
<1>5. WinOK(s) /\ RecKept(x, s)
  BY <1>2, <1>4 DEF WinOK, RecKept, Late
<1>6. win' = [win EXCEPT ![w] = s]
  BY <1>1, <1>3
<1> QED BY <1>1, <1>5, <1>6, RecStep DEF WindowInv, Shape, DbOK

LEMMA CloseStep ==
  ASSUME WindowAssumption, WindowInv, NEW w \in Windows, Close(w)
  PROVE  WindowInv'
<1>1. PICK b \in {"no", "sole", "more"} : b = Alone(w)
  BY DEF Alone
<1>2. /\ Open(w) /\ win' = [win EXCEPT ![w].asks = b] /\ ops' \in Nat
      /\ UNCHANGED <<db, view, cache, recent, asked, failures>>
  BY <1>1 DEF Close, Asking, WindowInv, Shape
<1> QED BY <1>2, AsksOfWindow

LEMMA CloseAnsweredStep ==
  ASSUME WindowAssumption, WindowInv, NEW w \in Windows, CloseAnswered(w)
  PROVE  WindowInv'
<1>1. UNCHANGED <<db, recent, asked, ops, failures>> /\ Open(w)
  BY DEF CloseAnswered
<1>2. ops \in Nat /\ failures \in Nat
  BY DEF WindowInv, Shape
<1>3. CASE win' = [win EXCEPT ![w].asks = "no"] /\ UNCHANGED <<view, cache>>
  BY <1>1, <1>2, <1>3, AsksOfWindow
<1>4. ASSUME NEW delete \in BOOLEAN, Closed(w, delete) PROVE WindowInv'
  <2>1. Shape' /\ Links' /\ Remembered
    BY <1>1, <1>2, <1>4, ClosedStep
  <2> QED BY <1>1, <2>1, AsksStay DEF WindowInv, DbOK
<1> QED BY <1>3, <1>4 DEF CloseAnswered

LEMMA BackendClosesWindowStep ==
  ASSUME WindowAssumption, WindowInv, NEW w \in Windows, BackendClosesWindow(w)
  PROVE  WindowInv'
<1>1. /\ UNCHANGED <<view, cache, recent, asked, ops, failures>> /\ win[w].st = "deleting"
      /\ win' = [win EXCEPT ![w].st = "closed"] /\ db' = WithoutWindow(db, w)
  BY DEF BackendClosesWindow
<1>2. PICK x : x = win[w]
  OBVIOUS
<1>3. WinOK(x) /\ x \in WinRec /\ x.st = "deleting"
  BY <1>1, <1>2 DEF WindowInv, Shape
<1>4. PICK s : s = [x EXCEPT !.st = "closed"]
  OBVIOUS
<1>5. /\ s \in WinRec /\ s.st = "closed" /\ s.pc = x.pc /\ s.ws = x.ws /\ s.queue = x.queue /\ s.tab = x.tab
      /\ s.reply = x.reply /\ s.active = x.active /\ s.loaded = x.loaded
  BY <1>3, <1>4 DEF WinRec
<1>6. WinOK(s) /\ RecKept(x, s)
  BY <1>3, <1>5 DEF WinOK, RecKept, Late
<1>7. win' = [win EXCEPT ![w] = s]
  BY <1>1, <1>2, <1>4
<1>8. DbGood(db')
  BY <1>1, WithoutWindowGood DEF WindowInv, DbOK
<1> QED BY <1>1, <1>2, <1>6, <1>7, <1>8, RecStep DEF WindowInv, Shape

LEMMA HandleCloseWindowStep ==
  ASSUME WindowAssumption, WindowInv, NEW w \in Windows, HandleCloseWindow(w)
  PROVE  WindowInv'
<1>1. UNCHANGED <<db, recent, asked, ops, failures>>
  BY DEF HandleCloseWindow
<1>2. ops \in Nat /\ failures \in Nat /\ Shape /\ Links
  BY DEF WindowInv, Shape
<1>3. Shape' /\ Links' /\ Remembered
  <2>1. CASE Open(w)
    <3>1. Closed(w, TRUE)
      BY <2>1 DEF HandleCloseWindow
    <3> QED BY <1>1, <1>2, <2>1, <3>1, ClosedStep
  <2>2. CASE ~Open(w)
    <3>1. UNCHANGED <<win, view, cache>>
      BY <2>2 DEF HandleCloseWindow
    <3>2. WindowsOK /\ \A u \in Windows : WindowKept(u, {})
      BY <1>2, <3>1, SameWindows
    <3> QED BY <1>1, <1>2, <3>1, <3>2, ViewsStay DEF Shape
  <2> QED BY <2>1, <2>2
<1> QED BY <1>1, <1>3, AsksStay DEF WindowInv, DbOK

\* A window is opened: it lists nothing yet.
LEMMA CreateWindowStep ==
  ASSUME WindowAssumption, WindowInv, NEW c \in asked, NEW w \in Windows, CreateWindow(c, w)
  PROVE  WindowInv'
<1>1. /\ UNCHANGED <<view, cache, recent, ops, failures>> /\ asked' \subseteq asked /\ win[w].st = "none"
      /\ Exists(c.ws) /\ c.stage = "free"
  BY DEF CreateWindow
<1>2. c.ws \in Workspaces /\ DbGood(db) /\ Shape /\ Links
  BY <1>1 DEF WindowInv, Asks, DbOK
<1>3. PICK a \in Tabs : a = db.active[c.ws]
  BY <1>1, <1>2 DEF DbGood, Exists
<1>4. PICK e : e = Action("switchtab", a, None, FALSE)
  OBVIOUS
<1>5. e \in WAction
  BY <1>4 DEF Action, WAction, Actions
<1>6. <<e>> \in Seq(WAction) /\ Len(<<e>>) = 1 /\ <<e>> # <<>>
  BY <1>5
<1>7. PICK x : x = win[w]
  OBVIOUS
<1>8. WinOK(x) /\ x \in WinRec /\ x = NewWindow
  BY <1>1, <1>2, <1>7 DEF Shape, WinOK
<1>9. PICK q : q = <<e>>
  OBVIOUS
<1>10. PICK s : s = [x EXCEPT !.st = "open", !.ws = c.ws, !.pc = "turn", !.queue = q]
  OBVIOUS
<1>11. /\ s \in WinRec /\ s.st = "open" /\ s.ws = c.ws /\ s.pc = "turn" /\ s.queue = q
       /\ s.active = x.active /\ s.loaded = x.loaded
  <2>1. q \in Seq(WAction)
    BY <1>6, <1>9
  <2> QED BY ONLY <1>2, <1>8, <1>10, <2>1 DEF WinRec
<1>12. WinOK(s)
  <2>1. \A i \in 1 .. Len(s.queue) : ~(i > 1)
    BY <1>6, <1>9, <1>11
  <2> QED BY <1>2, <1>11, <2>1 DEF WinOK
<1>13. win' = [win EXCEPT ![w] = s]
  BY <1>2, <1>3, <1>4, <1>7, <1>9, <1>10 DEF CreateWindow, Shape
<1>14. win'[w] = s /\ \A u \in Windows : u # w => win'[u] = win[u]
  BY <1>2, <1>13 DEF Shape
<1>15. WindowsOK
  BY <1>2, <1>11, <1>12, <1>13, <1>14 DEF WindowsOK, Shape
<1>16. x.active = None /\ (\A t \in Tabs : x.loaded[t] = None) /\ x.pc = "idle"
  BY <1>8 DEF NewWindow, NoLoaded
<1>17. \A u \in Windows : WindowKept(u, {})
  <2>1. WindowKept(w, {})
    BY <1>1, <1>7, <1>11, <1>14, <1>16 DEF WindowKept
  <2>2. ASSUME NEW u \in Windows, u # w PROVE WindowKept(u, {})
    BY <1>14, <2>2 DEF WindowKept
  <2> QED BY <2>1, <2>2
<1>18. Shape' /\ Links' /\ Remembered
  BY <1>1, <1>2, <1>15, <1>17, ViewsStay DEF Shape
<1>19. DbGood(db')
  <2>1. db' = [db EXCEPT !.win[w] = c.ws]
    BY DEF CreateWindow
  <2> QED BY <1>2, <2>1, OwnerChanged
<1> QED BY <1>1, <1>18, <1>19, AsksStay DEF WindowInv, DbOK

LEMMA DeleteWorkspaceStep ==
  ASSUME WindowAssumption, WindowInv, NEW w \in Windows, NEW s \in Workspaces, DeleteWorkspace(w, s)
  PROVE  WindowInv'
<1>1. UNCHANGED <<win, view, cache, recent, failures>> /\ Open(w)
  BY DEF DeleteWorkspace, Shows
<1>2. ops' \in Nat
  BY DEF DeleteWorkspace, Asking, WindowInv, Shape
<1>3. WindowsOK /\ \A u \in Windows : WindowKept(u, {})
  BY <1>1, SameWindows DEF WindowInv
<1>4. Shape' /\ Links' /\ Remembered
  BY <1>1, <1>2, <1>3, ViewsStay DEF WindowInv, Shape
<1>5. PICK d : d = WithoutWorkspace(db, s, TRUE)
  OBVIOUS
<1>6. DbGood(d)
  BY <1>5, WithoutWorkspaceGood DEF WindowInv, DbOK
<1>7. PICK r \in Workspaces \cup {None} : asked' = asked \cup {Call(w, r, "deleted", s)}
  BY DEF DeleteWorkspace, Claimable, WindowInv, DbOK, DbGood, DbRec
<1>8. DbGood(db')
  <2>1. db' = d \/ \E o \in Windows : db' = WithoutWindow(d, o)
    BY <1>5 DEF DeleteWorkspace, Owners
  <2> QED BY <1>6, <2>1, WithoutWindowGood
<1>9. PICK c : c = Call(w, r, "deleted", s)
  OBVIOUS
<1>10. c \in AskRec /\ c.win = w /\ c.stage = "deleted"
  BY <1>9, CallType
<1>11. Asks'
  <2>1. win[c.win].st # "none"
    BY <1>1, <1>10, OpenWindow
  <2> QED BY <1>4, <1>7, <1>9, <1>10, <2>1, MoreAsks DEF WindowInv
<1> QED BY <1>4, <1>8, <1>11 DEF WindowInv, DbOK

LEMMA DeleteAnsweredStep ==
  ASSUME WindowAssumption, WindowInv, NEW c \in asked, DeleteAnswered(c)
  PROVE  WindowInv'
<1>1. UNCHANGED <<db, recent, ops, failures>>
  BY DEF DeleteAnswered
<1>2. ops \in Nat /\ failures \in Nat /\ Shape /\ Links /\ Asks
  BY DEF WindowInv, Shape
<1>3. PICK w \in Windows : w = c.win /\ win[w].st # "none" /\ c.ws \in Workspaces \cup {None}
  BY <1>2 DEF Asks, AskRec
<1>4. Shape' /\ Links' /\ Remembered
  <2>1. CASE win[w].ws = c.old /\ c.ws = None /\ Open(w)
    <3>1. Closed(w, TRUE)
      BY <1>3, <2>1 DEF DeleteAnswered
    <3> QED BY <1>1, <1>2, <2>1, <3>1, ClosedStep
  <2>2. CASE ~(win[w].ws = c.old /\ c.ws = None /\ Open(w))
    <3>1. UNCHANGED <<win, view, cache>>
      BY <1>3, <2>2 DEF DeleteAnswered
    <3>2. WindowsOK /\ \A u \in Windows : WindowKept(u, {})
      BY <1>2, <3>1, SameWindows
    <3> QED BY <1>1, <1>2, <3>1, <3>2, ViewsStay DEF Shape
  <2> QED BY <2>1, <2>2
<1>5. Asks'
  <2>1. CASE asked' = (asked \ {c}) \cup {}
    BY <1>2, <1>4, <2>1, AsksStay
  <2>2. CASE c.ws # None /\ asked' = (asked \ {c}) \cup {Call(w, c.ws, "list", None)}
    <3>1. PICK d : d = Call(w, c.ws, "list", None)
      OBVIOUS
    <3>2. d \in AskRec /\ d.win = w /\ d.ws \in Workspaces
      BY <1>3, <2>2, <3>1, CallType
    <3> QED BY <1>2, <1>3, <1>4, <2>2, <3>1, <3>2, MoreAsks
  <2> QED BY <1>3, <2>1, <2>2 DEF DeleteAnswered
<1> QED BY <1>1, <1>4, <1>5 DEF WindowInv, DbOK

-----------------------------------------------------------------------------
\* The start.

LEMMA WindowInvStarts ==
  ASSUME WindowAssumption, WindowInit
  PROVE  WindowInv
<1>1. PICK home \in [Windows -> {s \in Workspaces : Held[s] # <<>>} \cup {None}], named \in SUBSET Workspaces :
        db = [tabs |-> Held,
              active |-> [s \in Workspaces |-> IF Held[s] = <<>> THEN None ELSE Held[s][1]],
              win |-> home, named |-> named,
              used |-> UNION {ToSet(Held[s]) : s \in Workspaces}]
  BY DEF WindowInit
<1>2. Held \in [Workspaces -> Seq(Tabs)]
  BY DEF WindowAssumption
<1>3. \A s \in Workspaces : Held[s] # <<>> => Held[s][1] \in Tabs
  <2>1. ASSUME NEW s \in Workspaces, Held[s] # <<>> PROVE Held[s][1] \in Tabs
    <3>1. PICK q \in Seq(Tabs) : q = Held[s]
      BY <1>2
    <3>2. Len(q) \in Nat /\ Len(q) > 0
      BY <2>1, <3>1, EmptySeq, LenProperties
    <3> QED BY <3>1, <3>2, ElementOfSeq
  <2> QED BY <2>1
<1>4. PICK active : active = [s \in Workspaces |-> IF Held[s] = <<>> THEN None ELSE Held[s][1]]
  OBVIOUS
<1>5. active \in [Workspaces -> Tabs \cup {None}] /\ \A s \in Workspaces : Held[s] # <<>> => active[s] \in Tabs
  BY <1>3, <1>4
<1>6. PICK used : used = UNION {ToSet(Held[s]) : s \in Workspaces}
  OBVIOUS
<1>7. used \in SUBSET Tabs
  <2>1. ASSUME NEW s \in Workspaces, NEW t \in ToSet(Held[s]) PROVE t \in Tabs
    <3>1. PICK q \in Seq(Tabs) : q = Held[s]
      BY <1>2
    <3> QED BY <2>1, <3>1, ElementOfSeq, LenProperties DEF ToSet
  <2> QED BY <1>6, <2>1
<1>8. db = [tabs |-> Held, active |-> active, win |-> home, named |-> named, used |-> used]
  BY <1>1, <1>4, <1>6
<1>9. DbOK /\ db.win = home /\ db.active = active
  BY <1>2, <1>5, <1>7, <1>8 DEF DbOK, DbGood, DbRec
<1>10. NewWindow \in WinRec /\ WinOK(NewWindow)
  <2>1. NoLoaded \in [Tabs -> Views \cup {None}]
    BY DEF NoLoaded
  <2>2. <<>> \in Seq(WAction) /\ Len(<<>>) = 0
    BY EmptySeq
  <2>3. NewWindow \in WinRec
    BY <2>1, <2>2 DEF NewWindow, WinRec
  <2> QED BY <2>2, <2>3 DEF NewWindow, WinOK
<1>11. \A w \in Windows :
         /\ win[w] = NewWindow \/ win[w].st = "open"
         /\ WinOK(win[w]) /\ win[w] \in WinRec /\ win[w].pc \in {"idle", "turn"}
         /\ win[w].active = None /\ win[w].loaded = NoLoaded
  <2>1. SUFFICES ASSUME NEW w \in Windows, db.win[w] # None
                 PROVE  /\ win[w].st = "open" /\ WinOK(win[w]) /\ win[w] \in WinRec /\ win[w].pc = "turn"
                        /\ win[w].active = None /\ win[w].loaded = NoLoaded
    <3>1. \A w \in Windows : db.win[w] = None => win[w] = NewWindow
      BY DEF WindowInit
    <3>2. NewWindow.pc = "idle" /\ NewWindow.active = None /\ NewWindow.loaded = NoLoaded
      BY DEF NewWindow
    <3> QED BY <1>10, <3>1, <3>2
  <2>2. PICK s \in Workspaces : s = db.win[w] /\ Held[s] # <<>>
    BY <1>9, <2>1
  <2>3. PICK a \in Tabs : a = db.active[s]
    BY <1>5, <1>9, <2>2
  <2>4. PICK e : e = Action("switchtab", a, None, FALSE)
    OBVIOUS
  <2>5. e \in WAction
    BY <2>4 DEF Action, WAction, Actions
  <2>6. PICK q : q = <<e>>
    OBVIOUS
  <2>7. q \in Seq(WAction) /\ Len(q) = 1 /\ q # <<>>
    BY <2>5, <2>6
  <2>8. PICK r : r = [NewWindow EXCEPT !.st = "open", !.ws = s, !.pc = "turn", !.queue = q]
    OBVIOUS
  <2>9. /\ r \in WinRec /\ r.st = "open" /\ r.ws = s /\ r.pc = "turn" /\ r.queue = q
        /\ r.active = NewWindow.active /\ r.loaded = NewWindow.loaded
    BY <1>10, <2>7, <2>8 DEF WinRec
  <2>10. WinOK(r)
    <3>1. \A n \in Nat : n = 1 => \A i \in 1 .. n : ~(i > 1)
      OBVIOUS
    <3>2. Len(r.queue) \in Nat /\ Len(r.queue) = 1
      BY <2>7, <2>9
    <3>3. \A i \in 1 .. Len(r.queue) : ~(i > 1)
      BY <3>1, <3>2, Zenon
    <3> QED BY <2>7, <2>9, <3>3 DEF WinOK
  <2>11. win[w] = r
    BY <2>1, <2>2, <2>3, <2>4, <2>6, <2>8 DEF WindowInit
  <2>12. NewWindow.active = None /\ NewWindow.loaded = NoLoaded
    BY DEF NewWindow
  <2> QED BY <2>9, <2>10, <2>11, <2>12
<1>12. \A v \in Views : view[v] = NewView
  BY DEF WindowInit
<1>13. NewView \in ViewRec /\ NewView.life = "none" /\ NewView.shown = {}
  BY DEF NewView, ViewRec
<1>14. cache = NoLoaded /\ recent = {} /\ asked = {} /\ ops = 0 /\ failures = 0
  BY DEF WindowInit
<1>15. Shape
  <2>1. win \in [Windows -> WinRec]
    BY <1>11 DEF WindowInit
  <2>2. view \in [Views -> ViewRec]
    BY <1>13 DEF WindowInit
  <2> QED BY <1>11, <1>14, <2>1, <2>2 DEF Shape, NoLoaded
<1>16. Asks
  BY <1>14 DEF Asks
<1>17. Links
  <2>1. None \notin Views /\ \A t \in Tabs : NoLoaded[t] = None
    BY DEF WindowAssumption, NoLoaded
  <2>2. NewViews
    BY <1>11, <1>12, <1>14, <2>1 DEF NewViews
  <2>3. OldViews /\ MadeShown /\ Cached
    BY <1>12, <1>13, <1>14, <2>1 DEF OldViews, MadeShown, Cached
  <2>4. ListedShown /\ ActiveShown /\ ActiveListed /\ ListedLives /\ ActiveLives
    BY <1>11, <2>1 DEF ListedShown, ActiveShown, ActiveListed, ListedLives, ActiveLives
  <2>5. Children
    BY <1>12, <1>13 DEF Children
  <2>6. Starting
    BY <1>11 DEF Starting
  <2> QED BY <2>2, <2>3, <2>4, <2>5, <2>6 DEF Links
<1> QED BY <1>9, <1>15, <1>16, <1>17 DEF WindowInv

LEMMA WindowInvStays ==
  ASSUME WindowAssumption, WindowInv, [WindowNext]_windowVars
  PROVE  WindowInv'
<1>1. CASE UNCHANGED windowVars
  <2>1. UNCHANGED <<db, win, view, cache, recent, asked, ops, failures>>
    BY <1>1 DEF windowVars
  <2>2. WindowsOK /\ \A u \in Windows : WindowKept(u, {})
    BY <2>1, SameWindows DEF WindowInv
  <2>3. Shape' /\ Links' /\ Remembered
    BY <2>1, <2>2, ViewsStay DEF WindowInv, Shape
  <2> QED BY <2>1, <2>3, AsksStay DEF WindowInv, DbOK
<1>2. CASE User
  BY <1>2, SetActiveTabStep, CloseTabStep, CreateTabStep, CloseStep, SwitchWorkspaceStep, DeleteWorkspaceStep,
     ClearTabCacheStep DEF User
<1>3. ASSUME NEW w \in Windows, Window(w) PROVE WindowInv'
  BY <1>3, TurnStep, BackendCreatesTabStep, BackendSetsActiveTabStep, BackendClosesTabStep,
     BackendSwitchesWorkspaceStep, ReplyStep, ObtainStep, ConfigStep, InitializeStep, FinishStep DEF Window, Backend
<1>4. CASE Others
  BY <1>3, <1>4, BackendFailsStep, ConfigFailsStep, CloseAnsweredStep, BackendClosesWindowStep,
     HandleCloseWindowStep, ListWorkspacesStep, QueueSwitchStep, DeleteAnsweredStep, CreateWindowStep,
     PageAdvancesStep, PageDestroyedStep, RemoveTimerStep, SecondPassesStep DEF Others, Asked
<1> QED BY <1>1, <1>2, <1>4 DEF WindowNext

LEMMA WindowInvShows ==
  ASSUME WindowAssumption, WindowInv
  PROVE  ShownIsLive
<1>1. Shape /\ Links
  BY DEF WindowInv
<1>2. \A w \in Windows : win[w].active \in Views \cup {None} /\ win[w].loaded \in [Tabs -> Views \cup {None}]
  BY <1>1 DEF Shape, WinRec
<1>3. \A w \in Windows : Open(w) => ~Late(win[w])
  BY DEF Open, Late
<1>4. LoadedIsLive
  BY <1>1, <1>3 DEF LoadedIsLive, Links, ListedShown, ListedLives
<1>5. ActiveIsLive
  <2>1. SUFFICES ASSUME NEW w \in Windows, NEW v, v = win[w].active, Open(w), v # None,
                        NEW t \in Tabs, win[w].loaded[t] # None, view[v].shown = {w}
                 PROVE  /\ view[v].life = "live" /\ view[v].active
                        /\ win[w].loaded[view[v].tab] = v
                        /\ view[v].win = w /\ win[w].pc # "init" => view[v].child = w
    BY <1>2 DEF ActiveIsLive, Listed
  <2>2. v \in Views
    BY <1>2, <2>1
  <2>3. view[v].life = "live" /\ view[v].active /\ win[w].loaded[view[v].tab] = v
    BY <1>1, <2>1 DEF Links, ActiveLives, ActiveListed
  <2>4. view[v].win = w /\ win[w].pc # "init" => view[v].child = w
    BY <1>1, <2>1, <2>2 DEF Links, Children
  <2> QED BY <2>3, <2>4
<1> QED BY <1>4, <1>5 DEF ShownIsLive

\* What an open window lists and shows is alive (processActionQueue, removeTabView,
\* tryEvictEntry), whatever the user, the timers, the cache and the other windows do
\* between the awaits of the action in process.
THEOREM WindowsShowLive == WindowSpec => []ShownIsLive
<1>1. WindowInit => WindowInv
  BY WindowAssumption, WindowInvStarts
<1>2. WindowInv /\ [WindowNext]_windowVars => WindowInv'
  BY WindowAssumption, WindowInvStays
<1>3. WindowInv => ShownIsLive
  BY WindowAssumption, WindowInvShows
<1> QED BY <1>1, <1>2, <1>3, PTL DEF WindowSpec

-----------------------------------------------------------------------------
\* The active tab.

ActiveOK(w) ==
  Open(w) /\ db.win[w] # None =>
    /\ db.win[w] = Place(win[w])
    /\ db.win[w] \notin crossed /\ failures = 0 /\ db.tabs[db.win[w]] # <<>>
         /\ Target(win[w], ActiveTab(w)) # None =>
       Target(win[w], ActiveTab(w)) = db.active[db.win[w]]
ActiveInv == \A w \in Windows : ActiveOK(w)

LEMMA ActiveOthers ==
  ASSUME WindowInv, ActiveInv, NEW w \in Windows, ActiveOK(w)', crossed \subseteq crossed',
         failures' = 0 => failures = 0,
         \A u \in Windows : u # w =>
           /\ SteadyWindow(u) /\ db'.win[u] \in {db.win[u], None}
           /\ db.win[u] \notin crossed' /\ db.win[u] \in Workspaces /\ db'.tabs[db.win[u]] # <<>> =>
                db.tabs[db.win[u]] # <<>> /\ db'.active[db.win[u]] = db.active[db.win[u]]
  PROVE  ActiveInv'
<1>1. SUFFICES ASSUME NEW u \in Windows, u # w PROVE ActiveOK(u)'
  BY DEF ActiveInv
<1>2. db.win[u] \in Workspaces \cup {None}
  BY DEF WindowInv, DbOK, DbGood, DbRec
<1>3. ActiveOK(u)
  BY DEF ActiveInv
<1> QED BY <1>1, <1>2, <1>3 DEF ActiveOK, SteadyWindow, Open

LEMMA ActiveSteady ==
  ASSUME WindowInv, ActiveInv, crossed \subseteq crossed', failures' = 0 => failures = 0,
         \A u \in Windows : SteadyWindow(u), Lessened(db, db')
  PROVE  ActiveInv'
<1>1. SUFFICES ASSUME NEW u \in Windows PROVE ActiveOK(u)'
  BY DEF ActiveInv
<1>2. db.win[u] \in Workspaces \cup {None}
  BY DEF WindowInv, DbOK, DbGood, DbRec
<1>3. ActiveOK(u)
  BY DEF ActiveInv
<1> QED BY <1>1, <1>2, <1>3 DEF ActiveOK, SteadyWindow, Open, Lessened

\* Nothing but the lists of views changes, and windows that are closed.
LEMMA ActiveStill ==
  ASSUME WindowAssumption, WindowInv, ActiveInv, TabsStay, UNCHANGED <<crossed, failures>>, Lessened(db, db'),
         \A w \in Windows :
           /\ win'[w].st = "open" => win[w].st = "open"
           /\ win'[w].active = win[w].active /\ win'[w].pc = win[w].pc /\ win'[w].queue = win[w].queue
           /\ win'[w].tab = win[w].tab /\ win'[w].reply = win[w].reply /\ win'[w].ws = win[w].ws
  PROVE  ActiveInv'
BY SteadyRec, ActiveSteady

LEMMA SameDb ==
  ASSUME db' = db
  PROVE  Lessened(db, db')
BY DEF Lessened

LEMMA SameTabs ==
  ASSUME view' = view
  PROVE  TabsStay
BY DEF TabsStay

\* One window changes.
LEMMA OneActive ==
  ASSUME WindowAssumption, WindowInv, ActiveInv, TabsStay, NEW w \in Windows, NEW s, win' = [win EXCEPT ![w] = s],
         UNCHANGED <<db, crossed>>, failures' = 0 => failures = 0,
         s.st = "open" => win[w].st = "open",
         s.active = win[w].active, s.st = "open" => Place(s) = Place(win[w]),
         s.st = "open" => Target(s, ActiveTab(w)) = Target(win[w], ActiveTab(w))
  PROVE  ActiveInv'
<1>1. win'[w] = s /\ \A u \in Windows : u # w => win'[u] = win[u]
  BY DEF WindowInv, Shape
<1>2. ActiveTab(w)' = ActiveTab(w)
  BY <1>1, ActiveTabStays
<1>3. SteadyWindow(w)
  BY <1>1, <1>2 DEF SteadyWindow
<1>4. \A u \in Windows : u # w => SteadyWindow(u)
  BY <1>1, SteadyRec
<1> QED BY <1>3, <1>4, SameDb, ActiveSteady

-----------------------------------------------------------------------------
\* The active tab: the actions that put an action into a queue.

LEMMA QueuedActive ==
  ASSUME WindowAssumption, WindowInv, ActiveInv, NEW w \in Windows, NEW e \in WAction, e.backend, Enqueue(w, e),
         UNCHANGED <<db, view, crossed, failures>>
  PROVE  ActiveInv'
<1>1. PICK r : r = win[w]
  OBVIOUS
<1>2. WinOK(r) /\ r \in WinRec
  BY <1>1 DEF WindowInv, Shape, WinOK
<1>3. PICK q \in Seq(WAction) : q = r.queue
  BY <1>2 DEF WinRec
<1>4. Len(q) \in Nat /\ \A i \in 1 .. Len(q) : q[i] \in WAction
  BY LenProperties, ElementOfSeq
<1>5. TabsStay
  BY SameTabs
<1>6. CASE Len(q) >= 2
  <2>1. PICK p : p = [q EXCEPT ![2] = e]
    OBVIOUS
  <2>2. p \in Seq(WAction) /\ Len(p) = Len(q) /\ \A i \in 1 .. Len(q) : p[i] = IF i = 2 THEN e ELSE q[i]
    BY <1>4, <1>6, <2>1, ExceptSeq, LenProperties
  <2>3. p[1] = q[1] /\ p # <<>> /\ q # <<>>
    BY <1>4, <1>6, <2>2, EmptySeq
  <2>4. PICK s : s = [r EXCEPT !.queue = p]
    OBVIOUS
  <2>5. s.queue = p /\ s.pc = r.pc /\ s.st = r.st /\ s.ws = r.ws /\ s.tab = r.tab
        /\ s.reply = r.reply /\ s.active = r.active
    BY <1>2, <2>4 DEF WinRec
  <2>6. Place(s) = Place(r) /\ \A a : Target(s, a) = Target(r, a)
    BY <1>3, <2>3, <2>5 DEF Place, Target
  <2>7. win' = [win EXCEPT ![w] = s]
    BY <1>1, <1>3, <1>6, <2>1, <2>4 DEF Enqueue
  <2> QED BY <1>1, <1>5, <2>5, <2>6, <2>7, OneActive
<1>7. CASE ~(Len(q) >= 2)
  <2>1. PICK p : p = Append(q, e)
    OBVIOUS
  <2>2. p \in Seq(WAction) /\ Len(p) = Len(q) + 1
        /\ \A i \in 1 .. Len(p) : p[i] = IF i = Len(p) THEN e ELSE q[i]
    BY <1>4, <2>1, AppendProperties
  <2>3. p # <<>> /\ p[1] = IF q = <<>> THEN e ELSE q[1]
    BY <1>4, <2>2, EmptySeq
  <2>4. PICK pc : pc = IF q = <<>> THEN "turn" ELSE r.pc
    OBVIOUS
  <2>5. PICK s : s = [r EXCEPT !.queue = p, !.pc = pc]
    OBVIOUS
  <2>6. s.queue = p /\ s.pc = pc /\ s.st = r.st /\ s.ws = r.ws /\ s.tab = r.tab
        /\ s.reply = r.reply /\ s.active = r.active
    BY <1>2, <2>5 DEF WinRec
  <2>7. q = <<>> => r.pc \in {"idle", "turn"}
    BY <1>2, <1>3 DEF WinOK
  <2>8. Place(s) = Place(r)
    BY <1>3, <2>3, <2>4, <2>6, <2>7 DEF Place
  <2>9. \A a : Target(s, a) = Target(r, a)
    <3>1. CASE q = <<>>
      BY <1>3, <2>3, <2>4, <2>6, <2>7, <3>1 DEF Target
    <3>2. CASE q # <<>>
      BY <1>3, <2>3, <2>4, <2>6, <3>2 DEF Target
    <3> QED BY <3>1, <3>2
  <2>10. win' = [win EXCEPT ![w] = s]
    BY <1>1, <1>3, <1>7, <2>1, <2>4, <2>5 DEF Enqueue
  <2> QED BY <1>1, <1>5, <2>6, <2>8, <2>9, <2>10, OneActive
<1> QED BY <1>6, <1>7

LEMMA SetActiveTabActive ==
  ASSUME WindowAssumption, WindowInv, ActiveInv, NEW w \in Windows, NEW t \in Tabs, SetActiveTab(w, t)
  PROVE  ActiveInv'
<1> DEFINE e == Action("switchtab", t, None, TRUE)
<1>1. e \in WAction /\ e.backend
  BY DEF Action, WAction, Actions
<1>2. Enqueue(w, e) /\ UNCHANGED <<db, view, crossed, failures>>
  BY DEF SetActiveTab
<1> HIDE DEF e
<1> QED BY <1>1, <1>2, QueuedActive

LEMMA CreateTabActive ==
  ASSUME WindowAssumption, WindowInv, ActiveInv, NEW w \in Windows, CreateTab(w)
  PROVE  ActiveInv'
<1> DEFINE e == Action("createtab", None, None, TRUE)
<1>1. e \in WAction /\ e.backend
  BY DEF Action, WAction, Actions
<1>2. Enqueue(w, e) /\ UNCHANGED <<db, view, crossed, failures>>
  BY DEF CreateTab
<1> HIDE DEF e
<1> QED BY <1>1, <1>2, QueuedActive

LEMMA CloseTabActive ==
  ASSUME WindowAssumption, WindowInv, ActiveInv, NEW w \in Windows, NEW t \in Tabs, CloseTab(w, t)
  PROVE  ActiveInv'
<1> DEFINE e == Action("closetab", t, None, TRUE)
<1>1. e \in WAction /\ e.backend
  BY DEF Action, WAction, Actions
<1>2. Enqueue(w, e) /\ UNCHANGED <<db, view, crossed, failures>>
  BY DEF CloseTab
<1> HIDE DEF e
<1> QED BY <1>1, <1>2, QueuedActive

LEMMA QueueSwitchActive ==
  ASSUME WindowAssumption, WindowInv, ActiveInv, NEW c \in asked, QueueSwitch(c)
  PROVE  ActiveInv'
<1> DEFINE e == Action("switchworkspace", None, c.ws, TRUE)
<1>1. c \in AskRec /\ c.stage # "deleted"
  BY DEF WindowInv, Asks, QueueSwitch
<1>2. c.win \in Windows /\ c.ws \in Workspaces
  BY <1>1 DEF AskRec, WindowInv, Asks
<1>3. e \in WAction /\ e.backend
  BY <1>2 DEF Action, WAction, Actions
<1>4. Enqueue(c.win, e) /\ UNCHANGED <<db, view, crossed, failures>>
  BY DEF QueueSwitch
<1> HIDE DEF e
<1> QED BY <1>2, <1>3, <1>4, QueuedActive

-----------------------------------------------------------------------------
\* The active tab: the pages, the timers and the end of a window.

LEMMA ClosedActive ==
  ASSUME WindowAssumption, WindowInv, ActiveInv, NEW w \in Windows, NEW delete \in BOOLEAN, Closed(w, delete),
         UNCHANGED <<db, crossed, failures>>
  PROVE  ActiveInv'
<1>1. PICK r \in WinRec : r = win[w]
  BY DEF WindowInv, Shape
<1>2. PICK st : st = IF delete THEN "deleting" ELSE "closed"
  OBVIOUS
<1>3. PICK s : s = [r EXCEPT !.st = st, !.asks = "no"]
  OBVIOUS
<1>4. /\ s.st = st /\ s.active = r.active /\ s.pc = r.pc /\ s.queue = r.queue /\ s.tab = r.tab
      /\ s.reply = r.reply /\ s.ws = r.ws /\ s.st # "open"
  BY <1>2, <1>3 DEF WinRec
<1>5. win' = [win EXCEPT ![w] = s]
  BY <1>1, <1>2, <1>3 DEF Closed, WindowInv, Shape
<1>6. \A u \in Windows :
         /\ win'[u].st = "open" => win[u].st = "open"
         /\ win'[u].active = win[u].active /\ win'[u].pc = win[u].pc /\ win'[u].queue = win[u].queue
         /\ win'[u].tab = win[u].tab /\ win'[u].reply = win[u].reply /\ win'[u].ws = win[u].ws
  <2>1. win'[w] = s /\ \A u \in Windows : u # w => win'[u] = win[u]
    BY <1>5 DEF WindowInv, Shape
  <2> QED BY <1>1, <1>4, <2>1
<1>7. TabsStay
  BY DestroyedTabs DEF Closed
<1> QED BY <1>6, <1>7, SameDb, ActiveStill

\* The records of the windows are the same.
LEMMA SameActive ==
  ASSUME WindowAssumption, WindowInv, ActiveInv, TabsStay, win' = win, Lessened(db, db'),
         UNCHANGED <<crossed, failures>>
  PROVE  ActiveInv'
BY ActiveStill

LEMMA CloseActive ==
  ASSUME WindowAssumption, WindowInv, ActiveInv, NEW w \in Windows, Close(w)
  PROVE  ActiveInv'
<1>1. PICK r \in WinRec : r = win[w]
  BY DEF WindowInv, Shape
<1>2. PICK s : s = [r EXCEPT !.asks = Alone(w)]
  OBVIOUS
<1>3. /\ s.st = r.st /\ s.active = r.active /\ s.pc = r.pc /\ s.queue = r.queue /\ s.tab = r.tab
      /\ s.reply = r.reply /\ s.ws = r.ws
  BY <1>2 DEF WinRec
<1>4. win' = [win EXCEPT ![w] = s] /\ UNCHANGED <<db, view, crossed, failures>>
  BY <1>1, <1>2 DEF Close
<1>5. Place(s) = Place(r) /\ \A a : Target(s, a) = Target(r, a)
  BY <1>3 DEF Place, Target
<1> QED BY <1>1, <1>3, <1>4, <1>5, SameTabs, OneActive

LEMMA CloseAnsweredActive ==
  ASSUME WindowAssumption, WindowInv, ActiveInv, NEW w \in Windows, CloseAnswered(w)
  PROVE  ActiveInv'
<1>1. UNCHANGED <<db, crossed, failures>>
  BY DEF CloseAnswered
<1>2. CASE win' = [win EXCEPT ![w].asks = "no"] /\ UNCHANGED <<view, cache>>
  <2>1. PICK r \in WinRec : r = win[w]
    BY DEF WindowInv, Shape
  <2>2. PICK s : s = [r EXCEPT !.asks = "no"]
    OBVIOUS
  <2>3. /\ s.st = r.st /\ s.active = r.active /\ s.pc = r.pc /\ s.queue = r.queue /\ s.tab = r.tab
        /\ s.reply = r.reply /\ s.ws = r.ws
    BY <2>2 DEF WinRec
  <2>4. win' = [win EXCEPT ![w] = s]
    BY <1>2, <2>1, <2>2
  <2>5. Place(s) = Place(r) /\ \A a : Target(s, a) = Target(r, a)
    BY <2>3 DEF Place, Target
  <2> QED BY <1>1, <1>2, <2>1, <2>3, <2>4, <2>5, SameTabs, OneActive
<1>3. ASSUME NEW delete \in BOOLEAN, Closed(w, delete) PROVE ActiveInv'
  BY <1>1, <1>3, ClosedActive
<1> QED BY <1>2, <1>3 DEF CloseAnswered

LEMMA HandleCloseWindowActive ==
  ASSUME WindowAssumption, WindowInv, ActiveInv, NEW w \in Windows, HandleCloseWindow(w)
  PROVE  ActiveInv'
<1>1. UNCHANGED <<db, crossed, failures>> /\ (Closed(w, TRUE) \/ UNCHANGED <<win, view, cache>>)
  BY DEF HandleCloseWindow
<1>2. CASE Closed(w, TRUE)
  BY <1>1, <1>2, ClosedActive
<1>3. CASE UNCHANGED <<win, view, cache>>
  BY <1>1, <1>3, SameDb, SameTabs, SameActive
<1> QED BY <1>1, <1>2, <1>3

LEMMA DeleteAnsweredActive ==
  ASSUME WindowAssumption, WindowInv, ActiveInv, NEW c \in asked, DeleteAnswered(c)
  PROVE  ActiveInv'
<1>1. c.win \in Windows
  BY DEF WindowInv, Asks, AskRec
<1>2. UNCHANGED <<db, crossed, failures>> /\ (Closed(c.win, TRUE) \/ UNCHANGED <<win, view, cache>>)
  BY DEF DeleteAnswered
<1>3. CASE Closed(c.win, TRUE)
  BY <1>1, <1>2, <1>3, ClosedActive
<1>4. CASE UNCHANGED <<win, view, cache>>
  BY <1>2, <1>4, SameDb, SameTabs, SameActive
<1> QED BY <1>2, <1>3, <1>4

LEMMA BackendClosesWindowActive ==
  ASSUME WindowAssumption, WindowInv, ActiveInv, NEW w \in Windows, BackendClosesWindow(w)
  PROVE  ActiveInv'
<1>1. PICK r \in WinRec : r = win[w]
  BY DEF WindowInv, Shape
<1>2. PICK s : s = [r EXCEPT !.st = "closed"]
  OBVIOUS
<1>3. /\ s.st = "closed" /\ s.active = r.active /\ s.pc = r.pc /\ s.queue = r.queue /\ s.tab = r.tab
      /\ s.reply = r.reply /\ s.ws = r.ws
  BY <1>2 DEF WinRec
<1>4. win' = [win EXCEPT ![w] = s]
  BY <1>1, <1>2 DEF BackendClosesWindow
<1>5. \A u \in Windows :
         /\ win'[u].st = "open" => win[u].st = "open"
         /\ win'[u].active = win[u].active /\ win'[u].pc = win[u].pc /\ win'[u].queue = win[u].queue
         /\ win'[u].tab = win[u].tab /\ win'[u].reply = win[u].reply /\ win'[u].ws = win[u].ws
  <2>1. win'[w] = s /\ \A u \in Windows : u # w => win'[u] = win[u]
    BY <1>4 DEF WindowInv, Shape
  <2> QED BY <1>1, <1>3, <2>1
<1>6. Lessened(db, db')
  BY WithoutWindowGood DEF BackendClosesWindow, WindowInv, DbOK
<1>7. UNCHANGED <<view, crossed, failures>>
  BY DEF BackendClosesWindow
<1> QED BY <1>5, <1>6, <1>7, SameTabs, ActiveStill

LEMMA DeleteWorkspaceActive ==
  ASSUME WindowAssumption, WindowInv, ActiveInv, NEW w \in Windows, NEW s \in Workspaces, DeleteWorkspace(w, s)
  PROVE  ActiveInv'
<1>1. PICK d : d = WithoutWorkspace(db, s, TRUE)
  OBVIOUS
<1>2. DbGood(d) /\ Lessened(db, d)
  BY <1>1, WithoutWorkspaceGood DEF WindowInv, DbOK
<1>3. db' = d \/ \E o \in Windows : db' = WithoutWindow(d, o)
  BY <1>1 DEF DeleteWorkspace, Owners
<1>4. Lessened(d, db') \/ db' = d
  BY <1>2, <1>3, WithoutWindowGood
<1>5. Lessened(db, db')
  BY <1>2, <1>4 DEF Lessened
<1>6. UNCHANGED <<win, view, crossed, failures>>
  BY DEF DeleteWorkspace
<1> QED BY <1>5, <1>6, SameTabs, SameActive

LEMMA SwitchWorkspaceActive ==
  ASSUME WindowAssumption, WindowInv, ActiveInv, NEW w \in Windows, NEW s \in Workspaces, SwitchWorkspace(w, s)
  PROVE  ActiveInv'
BY SameDb, SameTabs, SameActive DEF SwitchWorkspace

LEMMA ListWorkspacesActive ==
  ASSUME WindowAssumption, WindowInv, ActiveInv, NEW c \in asked, ListWorkspaces(c)
  PROVE  ActiveInv'
BY SameDb, SameTabs, SameActive DEF ListWorkspaces

LEMMA SecondPassesActive ==
  ASSUME WindowAssumption, WindowInv, ActiveInv, SecondPasses
  PROVE  ActiveInv'
BY SameDb, SameTabs, SameActive DEF SecondPasses

LEMMA PageAdvancesActive ==
  ASSUME WindowAssumption, WindowInv, ActiveInv, NEW v \in Views, PageAdvances(v)
  PROVE  ActiveInv'
<1>1. UNCHANGED <<db, win, crossed, failures>>
  BY DEF PageAdvances
<1>2. PICK page : view' = [view EXCEPT ![v].page = page]
  BY DEF PageAdvances
<1>3. PICK r \in ViewRec : r = view[v]
  BY DEF WindowInv, Shape
<1>4. PICK s : s = [r EXCEPT !.page = page]
  OBVIOUS
<1>5. s.tab = r.tab
  BY <1>4 DEF ViewRec
<1>6. view'[v] = s /\ \A u \in Views : u # v => view'[u] = view[u]
  BY <1>2, <1>3, <1>4 DEF WindowInv, Shape
<1>7. TabsStay
  BY <1>3, <1>5, <1>6 DEF TabsStay
<1> QED BY <1>1, <1>7, SameDb, SameActive

LEMMA PageDestroyedActive ==
  ASSUME WindowAssumption, WindowInv, ActiveInv, NEW v \in Views, PageDestroyed(v)
  PROVE  ActiveInv'
<1>1. UNCHANGED <<db, win, crossed, failures>> /\ view' = [view EXCEPT ![v].life = "gone"]
  BY DEF PageDestroyed
<1>2. PICK r \in ViewRec : r = view[v]
  BY DEF WindowInv, Shape
<1>3. PICK s : s = [r EXCEPT !.life = "gone"]
  OBVIOUS
<1>4. s.tab = r.tab
  BY <1>3 DEF ViewRec
<1>5. view'[v] = s /\ \A u \in Views : u # v => view'[u] = view[u]
  BY <1>1, <1>2, <1>3 DEF WindowInv, Shape
<1>6. TabsStay
  BY <1>2, <1>4, <1>5 DEF TabsStay
<1> QED BY <1>1, <1>6, SameDb, SameActive

LEMMA RemoveTimerActive ==
  ASSUME WindowAssumption, WindowInv, ActiveInv, NEW w \in Windows, NEW t \in Tabs, RemoveTimer(w, t)
  PROVE  ActiveInv'
<1>1. UNCHANGED <<db, crossed, failures>>
  BY DEF RemoveTimer
<1>2. CASE UNCHANGED <<win, view, cache>>
  BY <1>1, <1>2, SameDb, SameTabs, SameActive
<1>3. CASE RemoveTabView(w, t)
  <2>1. PICK ts : ts = Removed(w, {t})
    OBVIOUS
  <2>2. PICK s : s = Unloaded(w, ts)
    OBVIOUS
  <2>3. win' = [win EXCEPT ![w] = s] /\ view' = Destroyed(ViewsOf(w, ts))
    BY <1>3, <2>1, <2>2 DEF RemoveTabView
  <2>4. /\ s.st = win[w].st /\ s.active = win[w].active /\ s.pc = win[w].pc /\ s.queue = win[w].queue
        /\ s.tab = win[w].tab /\ s.reply = win[w].reply /\ s.ws = win[w].ws
    BY <2>2, UnloadedFields
  <2>5. Place(s) = Place(win[w]) /\ \A a : Target(s, a) = Target(win[w], a)
    BY <2>4 DEF Place, Target
  <2>6. TabsStay
    BY <2>3, DestroyedTabs
  <2> QED BY <1>1, <2>3, <2>4, <2>5, <2>6, OneActive
<1> QED BY <1>2, <1>3 DEF RemoveTimer

LEMMA ClearTabCacheActive ==
  ASSUME WindowAssumption, WindowInv, ActiveInv, ClearTabCache
  PROVE  ActiveInv'
<1>1. /\ UNCHANGED <<db, crossed, failures>> /\ win' = AfterEviction(Listed(cache))
      /\ view' = Destroyed(Evicted(Listed(cache)))
  BY DEF ClearTabCache
<1>2. \A u \in Windows :
         /\ win'[u].st = win[u].st /\ win'[u].active = win[u].active /\ win'[u].pc = win[u].pc
         /\ win'[u].queue = win[u].queue /\ win'[u].tab = win[u].tab /\ win'[u].reply = win[u].reply
         /\ win'[u].ws = win[u].ws
  BY <1>1, UnloadedFields DEF AfterEviction
<1>3. TabsStay
  BY <1>1, DestroyedTabs
<1> QED BY <1>1, <1>2, <1>3, SameDb, ActiveStill

-----------------------------------------------------------------------------
\* The active tab: the loop of a window.

\* What the end of an action leaves for the next turn is told to the backend.
LEMMA NextTurnTarget ==
  ASSUME NEW r, WinOK(r), r.queue # <<>>
  PROVE  /\ NextTurn(r).st = r.st /\ NextTurn(r).active = r.active /\ Place(NextTurn(r)) = r.ws
         /\ Return(r).st = r.st /\ Return(r).active = r.active /\ Place(Return(r)) = r.ws
         /\ \A a : Target(NextTurn(r), a) = a /\ Target(Return(r), a) = a
<1>1. r \in WinRec
  BY DEF WinOK
<1>2. PICK q \in Seq(WAction) : q = Tail(r.queue) /\ \A i \in 1 .. Len(q) : q[i].backend
  BY QueueTail
<1>3. q # <<>> => q[1].backend
  <2>1. Len(q) \in Nat /\ (q # <<>> => Len(q) > 0)
    BY EmptySeq, LenProperties
  <2> QED BY <1>2, <2>1
<1>4. /\ NextTurn(r) = [r EXCEPT !.queue = q, !.pc = "turn", !.reply = None, !.tab = None]
      /\ Return(r) = [r EXCEPT !.queue = q, !.pc = "idle", !.reply = None, !.tab = None]
  BY <1>2 DEF NextTurn, Return
<1>5. ASSUME NEW s, NEW pc \in {"turn", "idle"},
             s = [r EXCEPT !.queue = q, !.pc = pc, !.reply = None, !.tab = None]
      PROVE  s.st = r.st /\ s.active = r.active /\ Place(s) = r.ws /\ \A a : Target(s, a) = a
  <2>1. s.pc = pc /\ s.queue = q /\ s.st = r.st /\ s.ws = r.ws /\ s.active = r.active
    BY <1>1, <1>2, <1>5 DEF WinRec
  <2> QED BY <1>3, <1>5, <2>1 DEF Place, Target
<1> QED BY <1>4, <1>5

\* The action in process ends: nothing was to be shown but what is.
LEMMA EndActive ==
  ASSUME WindowAssumption, WindowInv, ActiveInv, NEW w \in Windows, win[w].pc \notin {"idle", "turn"},
         Place(win[w]) = win[w].ws,
         Open(w) => failures' > 0 \/ \A a : Target(win[w], a) = a,
         win' = [win EXCEPT ![w] = NextTurn(@)], UNCHANGED <<db, view, crossed>>, failures' = 0 => failures = 0
  PROVE  ActiveInv'
<1>1. PICK s : s = NextTurn(win[w])
  OBVIOUS
<1>2. s.st = win[w].st /\ s.active = win[w].active /\ Place(s) = win[w].ws /\ \A a : Target(s, a) = a
  BY <1>1, Processing, NextTurnTarget
<1>3. win' = [win EXCEPT ![w] = s]
  BY <1>1
<1>4. CASE Open(w) => \A a : Target(win[w], a) = a
  <2>1. \A a : s.st = "open" => Target(s, a) = Target(win[w], a)
    BY <1>2, <1>4 DEF Open
  <2>2. Place(s) = Place(win[w])
    BY <1>2
  <2>3. TabsStay /\ UNCHANGED <<db, crossed>>
    BY SameTabs
  <2> QED BY <1>2, <1>3, <2>1, <2>2, <2>3, OneActive
<1>5. CASE failures' > 0
  <2>1. win'[w] = s /\ \A u \in Windows : u # w => win'[u] = win[u]
    BY <1>3 DEF WindowInv, Shape
  <2>2. failures' # 0
    BY <1>5
  <2>3. ActiveOK(w)'
    <3>1. Open(w) /\ db.win[w] # None => db.win[w] = Place(win[w])
      BY DEF ActiveInv, ActiveOK
    <3>2. s.st = "open" /\ db.win[w] # None => db.win[w] = Place(s)
      BY <1>2, <3>1 DEF Open
    <3> QED BY <2>1, <2>2, <3>2 DEF ActiveOK, Open
  <2>4. \A u \in Windows : u # w => SteadyWindow(u)
    BY <2>1, SameTabs, SteadyRec
  <2>5. crossed \subseteq crossed' /\ \A u \in Windows : db'.win[u] = db.win[u] /\ db' = db
    OBVIOUS
  <2> QED BY <1>5, <2>3, <2>4, <2>5, ActiveOthers
<1> QED BY <1>4, <1>5

LEMMA FinishActive ==
  ASSUME WindowAssumption, WindowInv, ActiveInv, NEW w \in Windows, Finish(w)
  PROVE  ActiveInv'
<1>1. /\ win[w].pc \in {"settle", "ready"} /\ win' = [win EXCEPT ![w] = NextTurn(@)]
      /\ UNCHANGED <<db, view, crossed, failures>>
  BY DEF Finish
<1>2. Place(win[w]) = win[w].ws /\ \A a : Target(win[w], a) = a
  BY <1>1 DEF Place, Target
<1> QED BY <1>1, <1>2, EndActive

LEMMA ConfigFailsActive ==
  ASSUME WindowAssumption, WindowInv, ActiveInv, NEW w \in Windows, ConfigFails(w)
  PROVE  ActiveInv'
<1>1. /\ win[w].pc = "config" /\ win' = [win EXCEPT ![w] = NextTurn(@)]
      /\ UNCHANGED <<db, view, crossed>> /\ failures' = failures + 1
  BY DEF ConfigFails
<1>2. failures' > 0
  BY <1>1 DEF WindowInv, Shape
<1>3. Place(win[w]) = win[w].ws /\ win[w].pc \notin {"idle", "turn"}
  BY <1>1 DEF Place
<1>4. failures' = 0 => failures = 0
  BY <1>2
<1> QED BY <1>1, <1>2, <1>3, <1>4, EndActive

LEMMA InitializeActive ==
  ASSUME WindowAssumption, WindowInv, ActiveInv, NEW w \in Windows, Initialize(w)
  PROVE  ActiveInv'
<1>1. UNCHANGED <<db, crossed, failures>> /\ win[w].pc = "init"
  BY DEF Initialize
<1>2. Place(win[w]) = win[w].ws /\ \A a : Target(win[w], a) = a
  BY <1>1 DEF Place, Target
<1>3. CASE ~Open(w)
  <2>1. win' = [win EXCEPT ![w] = NextTurn(@)] /\ view' = view
    BY <1>3 DEF Initialize
  <2> QED BY <1>1, <1>2, <2>1, EndActive
<1>4. CASE Open(w)
  <2>1. PICK r \in WinRec : r = win[w]
    BY DEF WindowInv, Shape
  <2>2. PICK s : s = [r EXCEPT !.pc = "ready"]
    OBVIOUS
  <2>3. /\ s.st = r.st /\ s.active = r.active /\ s.pc = "ready" /\ s.ws = r.ws
    BY <2>2 DEF WinRec
  <2>4. win' = [win EXCEPT ![w] = s] /\ view' = [view EXCEPT ![win[w].active].child = w]
    BY <1>4, <2>1, <2>2 DEF Initialize
  <2>5. Place(s) = Place(win[w]) /\ \A a : Target(s, a) = Target(win[w], a)
    BY <1>2, <2>1, <2>3 DEF Place, Target
  <2>6. TabsStay
    <3>1. ASSUME NEW v \in Views PROVE view'[v].tab = view[v].tab
      <4>1. PICK y \in ViewRec : y = view[v]
        BY DEF WindowInv, Shape
      <4>2. PICK z : z = [y EXCEPT !.child = w]
        OBVIOUS
      <4>3. z.tab = y.tab
        BY <4>2 DEF ViewRec
      <4>4. view'[v] \in {y, z}
        BY <2>4, <4>1, <4>2 DEF WindowInv, Shape
      <4> QED BY <4>1, <4>3, <4>4
    <3> QED BY <3>1 DEF TabsStay
  <2> QED BY <1>1, <2>1, <2>3, <2>4, <2>5, <2>6, OneActive
<1> QED BY <1>3, <1>4

LEMMA TurnActive ==
  ASSUME WindowAssumption, WindowInv, ActiveInv, NEW w \in Windows, Turn(w)
  PROVE  ActiveInv'
<1>1. PICK r : r = win[w]
  OBVIOUS
<1>2. WinOK(r) /\ r \in WinRec /\ r.pc = "turn"
  BY <1>1 DEF WindowInv, Shape, Turn
<1>3. PICK q \in Seq(WAction) : q = r.queue
  BY <1>2 DEF WinRec
<1>4. UNCHANGED <<db, view, crossed, failures>> /\ TabsStay
  BY SameTabs DEF Turn
<1>5. PICK a : a = ActiveTab(w)
  OBVIOUS
\* Every outcome.
<1>6. ASSUME NEW s, win' = [win EXCEPT ![w] = s], s.st = r.st, s.ws = r.ws, s.active = r.active,
             s.pc # "reply", r.st = "open" => Target(s, a) = Target(r, a)
      PROVE  ActiveInv'
  <2>1. Place(s) = Place(win[w])
    BY <1>1, <1>2, <1>6 DEF Place
  <2> QED BY <1>1, <1>4, <1>5, <1>6, <2>1, OneActive
<1>7. CASE q = <<>>
  <2>1. PICK s : s = [r EXCEPT !.pc = "idle"]
    OBVIOUS
  <2>2. s.st = r.st /\ s.ws = r.ws /\ s.active = r.active /\ s.queue = q /\ s.pc = "idle"
    BY <1>2, <1>3, <2>1 DEF WinRec
  <2>3. win' = [win EXCEPT ![w] = s]
    BY <1>1, <1>3, <1>7, <2>1 DEF Turn
  <2>4. Target(s, a) = Target(r, a)
    BY <1>2, <1>3, <1>7, <2>2 DEF Target
  <2> QED BY <1>6, <2>2, <2>3, <2>4
<1>8. CASE q # <<>>
  <2>1. q[1] \in WAction
    BY <1>2, <1>3, <1>8, QueueTail
  <2>2. PICK p : p = Tail(q)
    OBVIOUS
  <2>3. p # <<>> => p[1].backend
    <3>1. p \in Seq(WAction) /\ \A i \in 1 .. Len(p) : p[i].backend
      BY <1>2, <1>3, <1>8, <2>2, QueueTail
    <3>2. Len(p) \in Nat /\ (p # <<>> => Len(p) > 0)
      BY <3>1, EmptySeq, LenProperties
    <3> QED BY <3>1, <3>2
  <2>4. CASE ~Open(w)
    <3>1. PICK s : s = [r EXCEPT !.pc = "idle", !.queue = p]
      OBVIOUS
    <3>2. s.st = r.st /\ s.ws = r.ws /\ s.active = r.active /\ s.pc = "idle"
      BY <1>2, <3>1 DEF WinRec
    <3>3. win' = [win EXCEPT ![w] = s]
      BY <1>1, <1>3, <1>8, <2>2, <2>4, <3>1 DEF Turn
    <3> QED BY <1>1, <1>6, <2>4, <3>2, <3>3 DEF Open
  <2>5. CASE Open(w) /\ q[1].op = "switchtab" /\ ActiveTab(w) = q[1].tab
    <3>1. PICK s : s = [r EXCEPT !.queue = p]
      OBVIOUS
    <3>2. s.st = r.st /\ s.ws = r.ws /\ s.active = r.active /\ s.queue = p /\ s.pc = "turn"
      BY <1>2, <3>1 DEF WinRec
    <3>3. win' = [win EXCEPT ![w] = s]
      BY <1>1, <1>3, <1>8, <2>2, <2>5, <3>1 DEF Turn
    <3>4. Target(s, a) = a
      BY <2>3, <3>2 DEF Target
    <3>5. Target(r, a) = a
      BY <1>2, <1>3, <1>5, <1>8, <2>5 DEF Target
    <3> QED BY <1>6, <3>2, <3>3, <3>4, <3>5
  <2>6. CASE Open(w) /\ q[1].op = "switchtab" /\ ActiveTab(w) # q[1].tab /\ ~q[1].backend
    <3>1. PICK t : t = q[1].tab
      OBVIOUS
    <3>2. PICK s : s = [r EXCEPT !.pc = "obtain", !.tab = t]
      OBVIOUS
    <3>3. s.st = r.st /\ s.ws = r.ws /\ s.active = r.active /\ s.pc = "obtain" /\ s.tab = t
      BY <1>2, <3>2 DEF WinRec
    <3>4. win' = [win EXCEPT ![w] = s]
      BY <1>1, <1>3, <1>8, <2>6, <3>1, <3>2 DEF Turn
    <3>5. Target(s, a) = t /\ Target(r, a) = t
      BY <1>2, <1>3, <1>8, <2>6, <3>1, <3>3 DEF Target
    <3> QED BY <1>6, <3>3, <3>4, <3>5
  <2>7. CASE Open(w) /\ (q[1].op = "switchtab" => ActiveTab(w) # q[1].tab /\ q[1].backend)
    <3>1. PICK s : s = [r EXCEPT !.pc = "call"]
      OBVIOUS
    <3>2. s.st = r.st /\ s.ws = r.ws /\ s.active = r.active /\ s.pc = "call"
      BY <1>2, <3>1 DEF WinRec
    <3>3. win' = [win EXCEPT ![w] = s]
      BY <1>1, <1>3, <1>8, <2>7, <3>1 DEF Turn
    <3>4. q[1].backend
      BY <2>1, <2>7 DEF WAction
    <3>5. Target(s, a) = a /\ Target(r, a) = a
      BY <1>2, <1>3, <1>8, <3>2, <3>4 DEF Target
    <3> QED BY <1>6, <3>2, <3>3, <3>5
  <2> QED BY <2>4, <2>5, <2>6, <2>7
<1> QED BY <1>7, <1>8

LEMMA ReplyActive ==
  ASSUME WindowAssumption, WindowInv, ActiveInv, NEW w \in Windows, Reply(w)
  PROVE  ActiveInv'
<1>1. PICK r : r = win[w]
  OBVIOUS
<1>2. /\ WinOK(r) /\ r \in WinRec /\ r.pc = "reply" /\ r.queue # <<>>
      /\ \A x \in Replies : x \notin Tabs
  BY <1>1, Processing DEF Reply, WindowAssumption
<1>3. UNCHANGED <<db, crossed, failures>>
  BY DEF Reply
<1>4. CASE win[w].reply = "error" /\ win' = [win EXCEPT ![w] = NextTurn(@)] /\ UNCHANGED <<view, cache>>
  <2>1. Place(win[w]) = win[w].ws /\ \A a : Target(win[w], a) = a
    BY <1>1, <1>2, <1>4 DEF Place, Target, Replies
  <2> QED BY <1>1, <1>2, <1>3, <1>4, <2>1, EndActive
<1>5. CASE /\ win[w].reply \in {"null", "closewindow"}
           /\ win' = [win EXCEPT ![w] = Return([win[w] EXCEPT
                            !.asks = IF win[w].reply = "closewindow" /\ Open(w) /\ @ = "no" THEN Alone(w) ELSE @])]
           /\ UNCHANGED <<view, cache>>
  <2>1. PICK b \in {"no", "sole", "more"} :
          b = IF win[w].reply = "closewindow" /\ Open(w) /\ r.asks = "no" THEN Alone(w) ELSE r.asks
    BY <1>1, <1>2 DEF WinRec, Alone
  <2>2. PICK y : y = [r EXCEPT !.asks = b]
    OBVIOUS
  <2>3. /\ y \in WinRec /\ y.pc = r.pc /\ y.st = r.st /\ y.ws = r.ws /\ y.queue = r.queue
        /\ y.active = r.active /\ y.loaded = r.loaded /\ y.reply = r.reply /\ y.tab = r.tab
    BY <1>2, <2>2 DEF WinRec
  <2>4. WinOK(y)
    <3>1. r.st # "none"
      BY <1>2 DEF WinOK, NewWindow
    <3> QED BY <1>2, <2>3, <3>1 DEF WinOK
  <2>5. PICK s : s = Return(y)
    OBVIOUS
  <2>6. s.st = r.st /\ s.active = r.active /\ Place(s) = r.ws /\ \A a : Target(s, a) = a
    BY <1>2, <2>3, <2>4, <2>5, NextTurnTarget
  <2>7. win' = [win EXCEPT ![w] = s]
    <3> DEFINE e == [win[w] EXCEPT
                            !.asks = IF win[w].reply = "closewindow" /\ Open(w) /\ @ = "no" THEN Alone(w) ELSE @]
    <3>1. y = e
      BY <1>1, <2>1, <2>2
    <3>2. win' = [win EXCEPT ![w] = Return(e)]
      BY <1>5
    <3> HIDE DEF e
    <3> QED BY <2>5, <3>1, <3>2
  <2>8. Place(win[w]) = win[w].ws /\ \A a : Target(win[w], a) = a
    BY <1>1, <1>2, <1>5 DEF Place, Target, Replies
  <2>9. UNCHANGED <<view, cache>>
    BY <1>5
  <2> QED BY <1>1, <1>3, <2>6, <2>7, <2>8, <2>9, SameTabs, OneActive
<1>6. CASE /\ win[w].reply \in Tabs /\ InProcess(w).op # "switchworkspace"
           /\ win' = [win EXCEPT ![w].pc = "obtain", ![w].tab = win[w].reply]
           /\ UNCHANGED <<view, cache>>
  <2>1. PICK t \in Tabs : t = win[w].reply
    BY <1>6
  <2>2. PICK s : s = [r EXCEPT !.pc = "obtain", !.tab = t]
    OBVIOUS
  <2>3. s.pc = "obtain" /\ s.st = r.st /\ s.ws = r.ws /\ s.active = r.active /\ s.tab = t
    BY <1>2, <2>2 DEF WinRec
  <2>4. win' = [win EXCEPT ![w] = s]
    BY <1>1, <1>6, <2>1, <2>2 DEF WindowInv, Shape
  <2>5. Place(s) = r.ws /\ Place(r) = r.ws
    BY <1>1, <1>2, <1>6, <2>3 DEF Place, InProcess
  <2>6. \A a : Target(s, a) = t /\ Target(r, a) = t
    BY <1>1, <1>2, <2>1, <2>3 DEF Target
  <2>7. /\ Place(s) = Place(win[w]) /\ s.active = win[w].active /\ s.st = win[w].st
        /\ Target(s, ActiveTab(w)) = Target(win[w], ActiveTab(w))
    BY <1>1, <2>3, <2>5, <2>6
  <2>8. TabsStay
    BY <1>6, SameTabs
  <2> QED BY <1>3, <2>4, <2>7, <2>8, OneActive
<1>7. CASE /\ win[w].reply \in Tabs /\ InProcess(w).op = "switchworkspace"
           /\ win' = [win EXCEPT ![w].pc = "obtain", ![w].tab = win[w].reply, ![w].ws = InProcess(w).ws,
                       ![w].loaded = NoLoaded]
           /\ view' = Destroyed(Listed(win[w].loaded))
  <2>1. PICK t \in Tabs : t = win[w].reply
    BY <1>7
  <2>2. PICK to : to = InProcess(w).ws
    OBVIOUS
  <2>3. PICK s : s = [r EXCEPT !.pc = "obtain", !.tab = t, !.ws = to, !.loaded = NoLoaded]
    OBVIOUS
  <2>4. s.pc = "obtain" /\ s.st = r.st /\ s.ws = to /\ s.active = r.active /\ s.tab = t
    BY <1>2, <2>3 DEF WinRec
  <2>5. win' = [win EXCEPT ![w] = s]
    BY <1>1, <1>7, <2>1, <2>2, <2>3 DEF WindowInv, Shape
  <2>6. Place(s) = to /\ Place(r) = to
    BY <1>1, <1>2, <1>7, <2>2, <2>4 DEF Place, InProcess
  <2>7. \A a : Target(s, a) = t /\ Target(r, a) = t
    BY <1>1, <1>2, <2>1, <2>4 DEF Target
  <2>8. TabsStay
    BY <1>7, DestroyedTabs
  <2> QED BY <1>1, <1>3, <2>4, <2>5, <2>6, <2>7, <2>8, OneActive
<1> QED BY <1>4, <1>5, <1>6, <1>7 DEF Reply

LEMMA ObtainActive ==
  ASSUME WindowAssumption, WindowInv, ActiveInv, NEW w \in Windows, Obtain(w)
  PROVE  ActiveInv'
<1>1. PICK r : r = win[w]
  OBVIOUS
<1>2. /\ WinOK(r) /\ r \in WinRec /\ r.pc = "obtain" /\ r.queue # <<>> /\ r.tab \in Tabs
  BY <1>1, Processing DEF Obtain, WinOK
<1>3. PICK t \in Tabs : t = win[w].tab
  BY <1>1, <1>2
<1>4. PICK v \in Views \cup {None} : v = cache[t]
  BY DEF WindowInv, Shape
<1>5. UNCHANGED <<db, crossed, failures>>
  BY DEF Obtain
<1>6. v # None => v \in Views /\ view[v].life = "live" /\ view[v].tab = t
  BY <1>4 DEF WindowInv, Links, Cached
<1>7. Place(win[w]) = win[w].ws /\ \A a : Target(win[w], a) = t
  BY <1>1, <1>2, <1>3 DEF Place, Target
<1>8. CASE v = None
  <2>1. PICK s : s = [r EXCEPT !.pc = "config"]
    OBVIOUS
  <2>2. s.pc = "config" /\ s.st = r.st /\ s.ws = r.ws /\ s.active = r.active /\ s.tab = r.tab
    BY <1>2, <2>1 DEF WinRec
  <2>3. win' = [win EXCEPT ![w] = s] /\ view' = view
    BY <1>1, <1>3, <1>4, <1>8, <2>1 DEF Obtain
  <2>4. Place(s) = r.ws /\ \A a : Target(s, a) = t
    BY <1>1, <1>3, <2>2 DEF Place, Target
  <2> QED BY <1>1, <1>5, <1>7, <2>2, <2>3, <2>4, SameTabs, OneActive
<1>9. CASE v # None /\ win[w].active = v
  <2>1. PICK s : s = NextTurn(win[w])
    OBVIOUS
  <2>2. win' = [win EXCEPT ![w] = s] /\ view' = view
    BY <1>3, <1>4, <1>9, <2>1 DEF Obtain
  <2>3. s.st = r.st /\ s.active = r.active /\ Place(s) = r.ws /\ \A a : Target(s, a) = a
    BY <1>1, <1>2, <2>1, NextTurnTarget
  <2>4. ActiveTab(w) = t
    BY <1>6, <1>9 DEF ActiveTab
  <2> QED BY <1>1, <1>5, <1>7, <2>2, <2>3, <2>4, SameTabs, OneActive
<1>10. CASE v # None /\ win[w].active # v
  <2>1. win' = ShownIn(win, w, v, "settle") /\ view' = Activated(view, w, v)
    BY <1>3, <1>4, <1>10 DEF Obtain
  <2>2. v \in Views /\ view[v].tab = t
    BY <1>6, <1>10
  <2>3. win \in [Windows -> WinRec] /\ win[w].tab \in Tabs /\ view \in [Views -> ViewRec]
    BY <1>3 DEF WindowInv, Shape
  <2>4. PICK s \in WinRec :
          /\ win' = [win EXCEPT ![w] = s]
          /\ s.active = v /\ s.pc = "settle" /\ s.st = win[w].st /\ s.ws = win[w].ws
    <3>1. \E s \in WinRec :
           /\ ShownIn(win, w, v, "settle") = [win EXCEPT ![w] = s]
           /\ s.active = v /\ s.pc = "settle" /\ s.st = win[w].st /\ s.ws = win[w].ws /\ s.queue = win[w].queue
           /\ \A y \in Tabs : s.loaded[y] = IF y = win[w].tab THEN v ELSE win[w].loaded[y]
      BY <2>2, <2>3, ShownInFields
    <3> QED BY <2>1, <3>1
  <2>5. win'[w] = s /\ \A u \in Windows : u # w => win'[u] = win[u]
    BY <2>3, <2>4
  <2>6. \A u \in Views : view'[u].tab = view[u].tab
    BY <2>1, <2>2, <2>3, ActivatedFields
  <2>7. TabsStay
    BY <2>6 DEF TabsStay
  <2>8. SteadyWindow(w)
    <3>1. v # None
      BY <1>10
    <3>2. ActiveTab(w)' = t
      BY <2>2, <2>4, <2>5, <2>6, <3>1 DEF ActiveTab
    <3>3. Place(s) = win[w].ws /\ \A a : Target(s, a) = a
      BY <2>4 DEF Place, Target
    <3> QED BY <1>7, <2>4, <2>5, <3>2, <3>3 DEF SteadyWindow
  <2>9. \A u \in Windows : u # w => SteadyWindow(u)
    BY <2>5, <2>7, SteadyRec
  <2> QED BY <1>5, <2>8, <2>9, SameDb, ActiveSteady
<1> QED BY <1>8, <1>9, <1>10

LEMMA ConfigActive ==
  ASSUME WindowAssumption, WindowInv, ActiveInv, NEW w \in Windows, Config(w)
  PROVE  ActiveInv'
<1>1. UNCHANGED <<db, crossed, failures>>
  BY DEF Config
<1>2. \A u \in Windows : SteadyWindow(u)
  BY ConfigStep
<1> QED BY <1>1, <1>2, SameDb, ActiveSteady

LEMMA CreateWindowActive ==
  ASSUME WindowAssumption, WindowInv, ActiveInv, NEW c \in asked, NEW w \in Windows, CreateWindow(c, w)
  PROVE  ActiveInv'
<1>1. /\ UNCHANGED <<view, failures, crossed>> /\ win[w].st = "none" /\ Exists(c.ws) /\ c.stage = "free"
      /\ db' = [db EXCEPT !.win[w] = c.ws]
  BY DEF CreateWindow
<1>2. PICK to \in Workspaces : to = c.ws
  BY <1>1 DEF WindowInv, Asks
<1>3. PICK t \in Tabs : t = db.active[to]
  BY <1>1, <1>2 DEF WindowInv, DbOK, DbGood, Exists
<1>4. PICK e : e = Action("switchtab", t, None, FALSE)
  OBVIOUS
<1>5. e.tab = t /\ e.backend = FALSE
  BY <1>4 DEF Action
<1>6. PICK q : q = <<e>>
  OBVIOUS
<1>7. q # <<>> /\ q[1] = e
  BY <1>6
<1>8. PICK r \in WinRec : r = win[w]
  BY DEF WindowInv, Shape
<1>9. PICK s : s = [r EXCEPT !.st = "open", !.ws = to, !.pc = "turn", !.queue = q]
  OBVIOUS
<1>10. s.st = "open" /\ s.ws = to /\ s.pc = "turn" /\ s.queue = q
  BY <1>9 DEF WinRec
<1>11. win' = [win EXCEPT ![w] = s]
  BY <1>2, <1>3, <1>4, <1>6, <1>8, <1>9 DEF CreateWindow, WindowInv, Shape
<1>12. win'[w] = s /\ \A u \in Windows : u # w => win'[u] = win[u]
  BY <1>11 DEF WindowInv, Shape
<1>13. /\ db'.tabs = db.tabs /\ db'.active = db.active
       /\ \A u \in Windows : db'.win[u] = IF u = w THEN to ELSE db.win[u]
  <2>1. PICK b \in DbRec : b = db
    BY DEF WindowInv, DbOK, DbGood
  <2>2. PICK f : f = [b.win EXCEPT ![w] = to]
    OBVIOUS
  <2>3. \A u \in Windows : f[u] = IF u = w THEN to ELSE b.win[u]
    BY <2>2 DEF DbRec
  <2>4. PICK d : d = [b EXCEPT !.win = f]
    OBVIOUS
  <2>5. d.tabs = b.tabs /\ d.active = b.active /\ d.win = f
    BY <2>4 DEF DbRec
  <2>6. db' = d
    BY <1>1, <1>2, <2>1, <2>2, <2>4
  <2> QED BY <2>1, <2>3, <2>5, <2>6
<1>14. Place(s) = to /\ \A a : Target(s, a) = t
  BY <1>5, <1>7, <1>10 DEF Place, Target
<1>15. ActiveOK(w)'
  BY <1>3, <1>12, <1>13, <1>14 DEF ActiveOK
<1>16. \A u \in Windows : u # w => SteadyWindow(u)
  BY <1>1, <1>12, SameTabs, SteadyRec
<1> QED BY <1>1, <1>13, <1>15, <1>16, ActiveOthers

-----------------------------------------------------------------------------
\* The active tab: the steps of the backend.

\* What the backend may do with the database d for the window w.
Harmless(w, d) ==
  \A u \in Windows : u # w =>
    /\ d.win[u] \in {db.win[u], None}
    /\ db.win[u] \notin crossed' /\ db.win[u] \in Workspaces /\ d.tabs[db.win[u]] # <<>> =>
         db.tabs[db.win[u]] # <<>> /\ d.active[db.win[u]] = db.active[db.win[u]]

LEMMA RepliedActive ==
  ASSUME WindowAssumption, WindowInv, ActiveInv, NEW w \in Windows, win[w].pc = "call",
         NEW d, NEW a \in Tabs \cup Replies, NEW ev, Replied(w, d, a, ev), crossed \subseteq crossed',
         failures' = 0 => failures = 0, Harmless(w, d),
         Open(w) /\ d.win[w] # None =>
           /\ d.win[w] = IF InProcess(w).op = "switchworkspace" /\ a \in Tabs THEN InProcess(w).ws ELSE win[w].ws
           /\ d.win[w] \notin crossed' /\ failures' = 0 /\ d.tabs[d.win[w]] # <<>> =>
                IF a \in Tabs THEN a = d.active[d.win[w]]
                ELSE ActiveTab(w) # None => ActiveTab(w) = d.active[d.win[w]]
  PROVE  ActiveInv'
<1>1. PICK x \in WinRec : x = win[w]
  BY DEF WindowInv, Shape
<1>2. PICK s : s = [x EXCEPT !.pc = "reply", !.reply = a]
  OBVIOUS
<1>3. /\ s.pc = "reply" /\ s.reply = a /\ s.st = x.st /\ s.ws = x.ws /\ s.queue = x.queue /\ s.active = x.active
  BY <1>2 DEF WinRec
<1>4. win' = [win EXCEPT ![w] = s] /\ db' = d /\ view' = view
  <2>1. win' = [win EXCEPT ![w].pc = "reply", ![w].reply = a]
    BY DEF Replied
  <2>2. [win EXCEPT ![w].pc = "reply", ![w].reply = a] = [win EXCEPT ![w] = s]
    BY <1>1, <1>2 DEF WindowInv, Shape
  <2> QED BY <2>1, <2>2 DEF Replied
<1>5. win'[w] = s /\ \A u \in Windows : u # w => win'[u] = win[u]
  BY <1>4 DEF WindowInv, Shape
<1>6. ActiveTab(w)' = ActiveTab(w)
  BY <1>1, <1>3, <1>4, <1>5 DEF ActiveTab
<1>7. ActiveOK(w)'
  <2>1. SUFFICES ASSUME Open(w), d.win[w] # None
                 PROVE  /\ d.win[w] = Place(s)
                        /\ d.win[w] \notin crossed' /\ failures' = 0 /\ d.tabs[d.win[w]] # <<>>
                             /\ Target(s, ActiveTab(w)) # None =>
                           Target(s, ActiveTab(w)) = d.active[d.win[w]]
    BY <1>1, <1>3, <1>4, <1>5, <1>6 DEF ActiveOK, Open
  <2>2. Place(s) = IF InProcess(w).op = "switchworkspace" /\ a \in Tabs THEN InProcess(w).ws ELSE win[w].ws
    BY <1>1, <1>3 DEF Place, InProcess
  <2>3. Target(s, ActiveTab(w)) = IF a \in Tabs THEN a ELSE ActiveTab(w)
    BY <1>3 DEF Target
  <2> QED BY <2>1, <2>2, <2>3
<1>8. \A u \in Windows : u # w => SteadyWindow(u)
  BY <1>4, <1>5, SameTabs, SteadyRec
<1> QED BY <1>4, <1>7, <1>8, ActiveOthers DEF Harmless

\* While the backend works off a call the window shows what it showed.
LEMMA CallingActive ==
  ASSUME ActiveInv, NEW w \in Windows, win[w].pc = "call", Open(w), db.win[w] # None
  PROVE  /\ db.win[w] = win[w].ws
         /\ db.win[w] \notin crossed /\ failures = 0 /\ db.tabs[db.win[w]] # <<>> /\ ActiveTab(w) # None =>
              ActiveTab(w) = db.active[db.win[w]]
<1>1. Place(win[w]) = win[w].ws /\ Target(win[w], ActiveTab(w)) = ActiveTab(w)
  BY DEF Place, Target
<1> QED BY <1>1 DEF ActiveInv, ActiveOK

\* Nothing is done.
LEMMA RefusedActive ==
  ASSUME WindowAssumption, WindowInv, ActiveInv, NEW w \in Windows, win[w].pc = "call",
         NEW a \in Replies, Replied(w, db, a, {}), crossed \subseteq crossed', failures' = 0 => failures = 0
  PROVE  ActiveInv'
<1>1. a \notin Tabs
  BY DEF WindowAssumption
<1>2. Harmless(w, db)
  BY DEF Harmless
<1>3. Open(w) /\ db.win[w] # None =>
        /\ db.win[w] = IF InProcess(w).op = "switchworkspace" /\ a \in Tabs THEN InProcess(w).ws ELSE win[w].ws
        /\ db.win[w] \notin crossed' /\ failures' = 0 /\ db.tabs[db.win[w]] # <<>> =>
             IF a \in Tabs THEN a = db.active[db.win[w]]
             ELSE ActiveTab(w) # None => ActiveTab(w) = db.active[db.win[w]]
  <2>1. SUFFICES ASSUME Open(w), db.win[w] # None
                 PROVE  /\ db.win[w] = win[w].ws
                        /\ db.win[w] \notin crossed' /\ failures' = 0 /\ db.tabs[db.win[w]] # <<>>
                             /\ ActiveTab(w) # None => ActiveTab(w) = db.active[db.win[w]]
    BY <1>1
  <2>2. db.win[w] \notin crossed' => db.win[w] \notin crossed
    OBVIOUS
  <2> QED BY <2>1, <2>2, CallingActive
<1> QED BY <1>2, <1>3, RepliedActive

\* The workspace of the window changes, and its tabs: those who share it are crossed.
LEMMA CrossingHarmless ==
  ASSUME NEW w \in Windows, NEW s \in Workspaces, Crosses(w, s), NEW d, \A u \in Windows : d.win[u] \in {db.win[u], None},
         \A r \in Workspaces : r # s /\ d.tabs[r] # <<>> => d.tabs[r] = db.tabs[r] /\ d.active[r] = db.active[r]
  PROVE  Harmless(w, d) /\ crossed \subseteq crossed'
<1>1. ASSUME NEW u \in Windows, u # w, db.win[u] = s PROVE s \in crossed'
  BY <1>1 DEF Crosses, Owners
<1>2. crossed \subseteq crossed'
  BY DEF Crosses
<1>3. Harmless(w, d)
  BY <1>1 DEF Harmless
<1> QED BY <1>2, <1>3

\* The active tab of the workspace changes and the window is told.
LEMMA ToldActive ==
  ASSUME WindowAssumption, WindowInv, ActiveInv, NEW w \in Windows, win[w].pc = "call",
         InProcess(w).op # "switchworkspace", Crosses(w, win[w].ws), NEW d, NEW a \in Tabs, Replied(w, d, a, {}),
         failures' = 0 => failures = 0, d.win = db.win, d.active[win[w].ws] = a,
         \A r \in Workspaces : r # win[w].ws => d.tabs[r] = db.tabs[r] /\ d.active[r] = db.active[r]
  PROVE  ActiveInv'
<1>1. win[w].ws \in Workspaces
  BY Processing
<1>2. Harmless(w, d) /\ crossed \subseteq crossed'
  BY <1>1, CrossingHarmless
<1>3. Open(w) /\ d.win[w] # None => d.win[w] = win[w].ws
  BY CallingActive
<1>4. Open(w) /\ d.win[w] # None =>
        /\ d.win[w] = IF InProcess(w).op = "switchworkspace" /\ a \in Tabs THEN InProcess(w).ws ELSE win[w].ws
        /\ d.win[w] \notin crossed' /\ failures' = 0 /\ d.tabs[d.win[w]] # <<>> =>
             IF a \in Tabs THEN a = d.active[d.win[w]]
             ELSE ActiveTab(w) # None => ActiveTab(w) = d.active[d.win[w]]
  BY <1>3
<1> QED BY <1>2, <1>4, RepliedActive

LEMMA BackendFailsActive ==
  ASSUME WindowAssumption, WindowInv, ActiveInv, NEW w \in Windows, BackendFails(w)
  PROVE  ActiveInv'
<1>1. win[w].pc = "call" /\ Replied(w, db, "error", {}) /\ UNCHANGED crossed /\ failures' = failures + 1
  BY DEF BackendFails
<1>2. failures' # 0
  BY <1>1 DEF WindowInv, Shape
<1> QED BY <1>1, <1>2, RefusedActive DEF Replies

LEMMA BackendCreatesTabActive ==
  ASSUME WindowAssumption, WindowInv, ActiveInv, NEW w \in Windows, BackendCreatesTab(w)
  PROVE  ActiveInv'
<1>1. /\ win[w].pc = "call" /\ InProcess(w).op = "createtab" /\ UNCHANGED failures
      /\ Crosses(w, win[w].ws)
  BY DEF BackendCreatesTab
<1>2. PICK s \in Workspaces : s = win[w].ws
  BY <1>1, Processing
<1>3. CASE Replied(w, db, "error", {})
  BY <1>1, <1>3, RefusedActive DEF Replies, Crosses
<1>4. ASSUME NEW t \in Tabs,
             Replied(w, [db EXCEPT !.tabs[win[w].ws] = Append(@, t), !.active[win[w].ws] = t,
                                   !.used = @ \cup {t}], t, {})
      PROVE  ActiveInv'
  <2>1. PICK b \in DbRec : b = db
    BY DEF WindowInv, DbOK, DbGood
  <2>2. PICK f : f = [b.tabs EXCEPT ![s] = Append(b.tabs[s], t)]
    OBVIOUS
  <2>3. \A r \in Workspaces : r # s => f[r] = b.tabs[r]
    BY <2>2 DEF DbRec
  <2>4. PICK g : g = [b.active EXCEPT ![s] = t]
    OBVIOUS
  <2>5. \A r \in Workspaces : g[r] = IF r = s THEN t ELSE b.active[r]
    BY <2>4 DEF DbRec
  <2>6. PICK d : d = [b EXCEPT !.tabs = f, !.active = g, !.used = b.used \cup {t}]
    OBVIOUS
  <2>7. d.tabs = f /\ d.active = g /\ d.win = b.win
    BY <2>6 DEF DbRec
  <2>8. d = [db EXCEPT !.tabs[win[w].ws] = Append(@, t), !.active[win[w].ws] = t, !.used = @ \cup {t}]
    BY <1>2, <2>1, <2>2, <2>4, <2>6
  <2>9. Replied(w, d, t, {})
    BY <1>4, <2>8
  <2>10. /\ d.win = db.win /\ d.active[win[w].ws] = t
         /\ \A r \in Workspaces : r # win[w].ws => d.tabs[r] = db.tabs[r] /\ d.active[r] = db.active[r]
    BY <1>2, <2>1, <2>3, <2>5, <2>7
  <2> QED BY <1>1, <2>9, <2>10, ToldActive
<1> QED BY <1>3, <1>4 DEF BackendCreatesTab, Fresh

LEMMA BackendSetsActiveTabActive ==
  ASSUME WindowAssumption, WindowInv, ActiveInv, NEW w \in Windows, BackendSetsActiveTab(w)
  PROVE  ActiveInv'
<1>1. /\ win[w].pc = "call" /\ InProcess(w).op = "switchtab" /\ UNCHANGED failures
      /\ Crosses(w, win[w].ws)
  BY DEF BackendSetsActiveTab
<1>2. PICK s \in Workspaces : s = win[w].ws
  BY <1>1, Processing
<1>3. PICK t \in Tabs : t = InProcess(w).tab
  BY <1>1, Processing DEF WAction
<1>4. CASE Replied(w, db, "error", {})
  BY <1>1, <1>4, RefusedActive DEF Replies, Crosses
<1>5. CASE Replied(w, [db EXCEPT !.active[win[w].ws] = InProcess(w).tab], InProcess(w).tab, {})
  <2>1. PICK b \in DbRec : b = db
    BY DEF WindowInv, DbOK, DbGood
  <2>2. PICK g : g = [b.active EXCEPT ![s] = t]
    OBVIOUS
  <2>3. \A r \in Workspaces : g[r] = IF r = s THEN t ELSE b.active[r]
    BY <2>2 DEF DbRec
  <2>4. PICK d : d = [b EXCEPT !.active = g]
    OBVIOUS
  <2>5. d.tabs = b.tabs /\ d.active = g /\ d.win = b.win
    BY <2>4 DEF DbRec
  <2>6. d = [db EXCEPT !.active[win[w].ws] = InProcess(w).tab]
    BY <1>2, <1>3, <2>1, <2>2, <2>4
  <2>7. Replied(w, d, t, {})
    BY <1>3, <1>5, <2>6
  <2>8. /\ d.win = db.win /\ d.active[win[w].ws] = t
        /\ \A r \in Workspaces : r # win[w].ws => d.tabs[r] = db.tabs[r] /\ d.active[r] = db.active[r]
    BY <1>2, <2>1, <2>3, <2>5
  <2> QED BY <1>1, <2>7, <2>8, ToldActive
<1> QED BY <1>4, <1>5 DEF BackendSetsActiveTab

LEMMA BackendClosesTabActive ==
  ASSUME WindowAssumption, WindowInv, ActiveInv, NEW w \in Windows, BackendClosesTab(w)
  PROVE  ActiveInv'
<1>1. /\ win[w].pc = "call" /\ InProcess(w).op = "closetab" /\ UNCHANGED failures
      /\ Crosses(w, win[w].ws)
  BY DEF BackendClosesTab
<1>2. PICK s \in Workspaces : s = win[w].ws
  BY <1>1, Processing
<1>3. PICK d : d = WithoutTab(db, s, InProcess(w).tab)
  OBVIOUS
<1>4. CASE Replied(w, db, "error", {})
  BY <1>1, <1>4, RefusedActive DEF Replies, Crosses
<1>5. CASE InProcess(w).tab \in ToSet(db.tabs[s])
  <2>1. /\ DbGood(d) /\ d.win = db.win
        /\ \A r \in Workspaces : r # s => d.tabs[r] = db.tabs[r] /\ d.active[r] = db.active[r]
    BY <1>3, <1>5, WithoutTabGood DEF WindowInv, DbOK
  <2>2. CASE d.active[s] # None
    <3>1. PICK a \in Tabs : a = d.active[s]
      BY <2>1, <2>2 DEF DbGood, DbRec
    <3>2. Replied(w, d, a, {})
      BY <1>2, <1>3, <1>5, <2>2, <3>1 DEF BackendClosesTab
    <3> QED BY <1>1, <1>2, <2>1, <3>1, <3>2, ToldActive
  <2>3. CASE d.active[s] = None
    <3>1. d.tabs[s] = <<>>
      BY <2>1, <2>3 DEF DbGood, WindowAssumption
    <3>2. PICK e, ev : /\ Replied(w, e, "closewindow", ev)
                       /\ e = d \/ \E o \in Windows : e = WithoutWindow(d, o)
      <4>1. CASE Owners(d, s) = {}
        BY <1>2, <1>3, <1>5, <2>3, <4>1 DEF BackendClosesTab
      <4>2. CASE Owners(d, s) # {}
        <5>1. \E o \in Owners(d, s) : Replied(w, WithoutWindow(d, o), "closewindow", {o})
          BY <1>2, <1>3, <1>5, <2>3, <4>2 DEF BackendClosesTab
        <5> QED BY <5>1 DEF Owners
      <4> QED BY <4>1, <4>2
    <3>3. Lessened(d, e)
      <4>1. Lessened(d, d)
        BY DEF Lessened
      <4> QED BY <2>1, <3>2, <4>1, WithoutWindowGood
    <3>4. /\ \A u \in Windows : e.win[u] \in {db.win[u], None}
          /\ \A r \in Workspaces : e.tabs[r] # <<>> => r # s
          /\ \A r \in Workspaces : r # s /\ e.tabs[r] # <<>> => e.tabs[r] = db.tabs[r] /\ e.active[r] = db.active[r]
      BY <2>1, <3>1, <3>3 DEF Lessened
    <3>5. Harmless(w, e) /\ crossed \subseteq crossed'
      BY <1>1, <1>2, <3>4, CrossingHarmless
    <3>6. Open(w) /\ e.win[w] # None => e.win[w] = s /\ e.tabs[e.win[w]] = <<>>
      BY <1>1, <1>2, <3>4, CallingActive
    <3>7. "closewindow" \in Tabs \cup Replies /\ "closewindow" \notin Tabs
      BY DEF WindowAssumption, Replies
    <3>8. Open(w) /\ e.win[w] # None =>
            /\ e.win[w] = IF InProcess(w).op = "switchworkspace" /\ "closewindow" \in Tabs THEN InProcess(w).ws ELSE win[w].ws
            /\ e.win[w] \notin crossed' /\ failures' = 0 /\ e.tabs[e.win[w]] # <<>> =>
                 IF "closewindow" \in Tabs THEN "closewindow" = e.active[e.win[w]]
                 ELSE ActiveTab(w) # None => ActiveTab(w) = e.active[e.win[w]]
      BY <1>2, <3>6, <3>7
    <3> QED BY <1>1, <3>2, <3>5, <3>7, <3>8, RepliedActive
  <2> QED BY <2>2, <2>3
<1> QED BY <1>2, <1>4, <1>5 DEF BackendClosesTab

LEMMA BackendSwitchesWorkspaceActive ==
  ASSUME WindowAssumption, WindowInv, ActiveInv, NEW w \in Windows, BackendSwitchesWorkspace(w)
  PROVE  ActiveInv'
<1>1. /\ win[w].pc = "call" /\ InProcess(w).op = "switchworkspace" /\ UNCHANGED <<failures, crossed>>
  BY DEF BackendSwitchesWorkspace
<1>2. PICK s \in Workspaces : s = InProcess(w).ws
  BY <1>1, Processing DEF WAction
<1>3. CASE Replied(w, db, "error", {})
  BY <1>1, <1>3, RefusedActive DEF Replies
<1>4. CASE Replied(w, db, "null", {})
  BY <1>1, <1>4, RefusedActive DEF Replies
<1>5. CASE /\ Exists(s) /\ db.win[w] # None /\ Owners(db, s) = {}
           /\ Replied(w, WithoutWorkspace([db EXCEPT !.win[w] = s], db.win[w], FALSE), db.active[s], {})
  <2>1. PICK b \in DbRec : b = db /\ DbGood(b)
    BY DEF WindowInv, DbOK, DbGood
  <2>2. PICK old \in Workspaces : old = db.win[w]
    BY <1>5, <2>1 DEF DbRec
  <2>3. old # s
    BY <1>5, <2>2 DEF Owners
  <2>4. PICK a \in Tabs : a = db.active[s]
    BY <1>5, <2>1 DEF DbGood, Exists
  <2>5. PICK f : f = [b.win EXCEPT ![w] = s]
    OBVIOUS
  <2>6. f \in [Windows -> Workspaces \cup {None}] /\ \A u \in Windows : f[u] = IF u = w THEN s ELSE b.win[u]
    BY <2>5 DEF DbRec
  <2>7. PICK e : e = [b EXCEPT !.win = f]
    OBVIOUS
  <2>8. e \in DbRec /\ e.tabs = b.tabs /\ e.active = b.active /\ e.win = f
    BY <2>6, <2>7 DEF DbRec
  <2>9. DbGood(e)
    BY <2>1, <2>8 DEF DbGood
  <2>10. PICK d : d = WithoutWorkspace(e, old, FALSE)
    OBVIOUS
  <2>11. /\ d.win = e.win /\ Lessened(e, d) /\ d.tabs[s] = e.tabs[s] /\ d.active[s] = e.active[s]
    BY <2>3, <2>9, <2>10, WithoutWorkspaceGood
  <2>12. Replied(w, d, a, {})
    <3>1. e = [db EXCEPT !.win[w] = s]
      BY <2>1, <2>5, <2>7
    <3> QED BY <1>5, <2>2, <2>4, <2>10, <3>1
  <2>13. Harmless(w, d)
    BY <2>1, <2>6, <2>8, <2>11 DEF Harmless, Lessened
  <2>14. d.win[w] = s /\ d.active[s] = a
    BY <2>1, <2>4, <2>6, <2>8, <2>11
  <2>15. Open(w) /\ d.win[w] # None =>
           /\ d.win[w] = IF InProcess(w).op = "switchworkspace" /\ a \in Tabs THEN InProcess(w).ws ELSE win[w].ws
           /\ d.win[w] \notin crossed' /\ failures' = 0 /\ d.tabs[d.win[w]] # <<>> =>
                IF a \in Tabs THEN a = d.active[d.win[w]]
                ELSE ActiveTab(w) # None => ActiveTab(w) = d.active[d.win[w]]
    BY <1>1, <1>2, <2>14
  <2> QED BY <1>1, <2>12, <2>13, <2>15, RepliedActive
<1> QED BY <1>2, <1>3, <1>4, <1>5 DEF BackendSwitchesWorkspace

-----------------------------------------------------------------------------
\* The active tab: the theorem.

LEMMA ActiveInvStarts ==
  ASSUME WindowAssumption, WindowInit
  PROVE  ActiveInv
<1>1. SUFFICES ASSUME NEW w \in Windows, db.win[w] # None PROVE ActiveOK(w)
  BY DEF ActiveInv, ActiveOK
<1>2. PICK s, t, e, q : /\ s = db.win[w] /\ t = db.active[s]
                        /\ e = Action("switchtab", t, None, FALSE) /\ q = <<e>>
  OBVIOUS
<1>3. e.tab = t /\ e.backend = FALSE
  BY <1>2 DEF Action
<1>4. q # <<>> /\ q[1] = e
  BY <1>2
<1>5. PICK r : r = [NewWindow EXCEPT !.st = "open", !.ws = s, !.pc = "turn", !.queue = q]
  OBVIOUS
<1>6. r.ws = s /\ r.pc = "turn" /\ r.queue = q
  BY <1>5 DEF NewWindow
<1>7. win[w] = r
  BY <1>1, <1>2, <1>5 DEF WindowInit
<1>8. Place(r) = s /\ \A a : Target(r, a) = t
  BY <1>3, <1>4, <1>6 DEF Place, Target
<1> QED BY <1>2, <1>7, <1>8 DEF ActiveOK

LEMMA ActiveInvStays ==
  ASSUME WindowAssumption, WindowInv, ActiveInv, [WindowNext]_windowVars
  PROVE  ActiveInv'
<1>1. CASE UNCHANGED windowVars
  BY <1>1, SameDb, SameTabs, SameActive DEF windowVars
<1>2. CASE User
  BY <1>2, SetActiveTabActive, CloseTabActive, CreateTabActive, CloseActive, SwitchWorkspaceActive,
     DeleteWorkspaceActive, ClearTabCacheActive DEF User
<1>3. ASSUME NEW w \in Windows, Window(w) PROVE ActiveInv'
  BY <1>3, TurnActive, BackendCreatesTabActive, BackendSetsActiveTabActive, BackendClosesTabActive,
     BackendSwitchesWorkspaceActive, ReplyActive, ObtainActive, ConfigActive, InitializeActive, FinishActive
     DEF Window, Backend
<1>4. CASE Others
  BY <1>3, <1>4, BackendFailsActive, ConfigFailsActive, CloseAnsweredActive, BackendClosesWindowActive,
     HandleCloseWindowActive, ListWorkspacesActive, QueueSwitchActive, DeleteAnsweredActive, CreateWindowActive,
     PageAdvancesActive, PageDestroyedActive, RemoveTimerActive, SecondPassesActive DEF Others, Asked
<1> QED BY <1>1, <1>2, <1>4 DEF WindowNext

LEMMA ActiveInvShows ==
  ASSUME WindowAssumption, WindowInv, ActiveInv
  PROVE  ShowsActiveTab
<1>1. SUFFICES ASSUME NEW w \in Windows, Open(w), win[w].pc = "idle", win[w].active # None, db.win[w] # None
               PROVE  /\ win[w].ws = db.win[w]
                      /\ Exists(win[w].ws) /\ failures = 0 /\ win[w].ws \notin crossed =>
                           ActiveTab(w) = db.active[win[w].ws]
  BY DEF ShowsActiveTab
<1>2. Place(win[w]) = win[w].ws /\ Target(win[w], ActiveTab(w)) = ActiveTab(w)
  BY <1>1 DEF Place, Target
<1>3. ActiveTab(w) # None
  <2>1. PICK v \in Views : v = win[w].active
    BY <1>1 DEF WindowInv, Shape, WinRec
  <2>2. view[v].life # "none"
    BY <2>1 DEF WindowInv, Links, NewViews
  <2>3. view[v].tab \in Tabs
    BY <2>1, <2>2 DEF WindowInv, Links, OldViews
  <2> QED BY <1>1, <2>1, <2>3 DEF ActiveTab, WindowAssumption
<1> QED BY <1>1, <1>2, <1>3 DEF ActiveInv, ActiveOK, Exists

\* With nothing in process a window shows the workspace the backend has for it and
\* the active tab of that (processActionQueue), whatever the other windows, the pages
\* and the backend do between the awaits of an action; crossed tells of the windows
\* that work on a workspace which is not theirs.
THEOREM WindowsShowActive == WindowSpec => []ShowsActiveTab
<1>1. WindowInit => WindowInv /\ ActiveInv
  BY WindowAssumption, WindowInvStarts, ActiveInvStarts
<1>2. WindowInv /\ ActiveInv /\ [WindowNext]_windowVars => (WindowInv /\ ActiveInv)'
  BY WindowAssumption, WindowInvStays, ActiveInvStays
<1>3. WindowInv /\ ActiveInv => ShowsActiveTab
  BY WindowAssumption, ActiveInvShows
<1> QED BY <1>1, <1>2, <1>3, PTL DEF WindowSpec
=============================================================================
