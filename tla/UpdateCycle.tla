---------------------------- MODULE UpdateCycle ----------------------------
(***************************************************************************)
(* The update cycle that the two virtual-DOM views of the frontend share   *)
(* (frontend/app/view/vdom/vdom-model.tsx and, nearly line for line,       *)
(* tsunami/frontend/src/model/tsunami-model.tsx): updates are queued on a  *)
(* quick or a slow timer, one request at a time carries the events that    *)
(* were batched, and a quick timer that meets a request asks for another   *)
(* one after it. A view's part of it is a record; time is left out: a slow *)
(* timer may be due at once.                                               *)
(***************************************************************************)
EXTENDS Naturals, Sequences, SequencesExt

CONSTANTS Absent,       \* where there is no request, version, server or modal
          MaxInputs,    \* bound: inputs of the user
          MaxChanges,   \* bound: changes of the app by itself
          MaxEffects,   \* bound: effects of renders
          MaxFaults     \* bound: faults

Fresh == [queued |-> "none", quick |-> 0, slow |-> 0, pending |-> FALSE, immediate |-> FALSE,
          resync |-> TRUE, events |-> <<>>, work |-> FALSE]

Cycles == [queued : {"none", "quick", "slow"}, quick : Nat, slow : Nat, pending : BOOLEAN,
           immediate : BOOLEAN, resync : BOOLEAN, events : Seq(Nat), work : BOOLEAN]

\* queueUpdate. A quick update replaces a slow one unless that is due.
\* (needsUpdate is set here and never cleared, so it decides nothing.)
QueueUpdate(m, kind, due) ==
  IF m.queued = "quick" \/ (m.queued = "slow" /\ (due \/ kind = "slow")) THEN m
  ELSE IF kind = "quick"
       THEN [m EXCEPT !.queued = "quick", !.quick = @ + 1, !.slow = IF m.queued = "slow" THEN @ - 1 ELSE @]
       ELSE [m EXCEPT !.queued = "slow", !.slow = @ + 1]

Batch(m, event) == [m EXCEPT !.events = Append(@, event)]

\* A timer of the kind is set.
Armed(m, kind) == IF kind = "quick" THEN m.quick > 0 ELSE m.slow > 0

\* _sendRenderRequest up to the request: a timer fires, and a request is sent
\* unless one is pending.
Fired(m, kind) ==
  IF kind = "quick" THEN [m EXCEPT !.quick = @ - 1, !.queued = "none"]
  ELSE [m EXCEPT !.slow = @ - 1, !.queued = "none"]

\* mutation: a timer that meets a request is forgotten
RefusedQuietly(m, kind) == m

Refused(m, kind) == [m EXCEPT !.immediate = @ \/ kind = "quick"]

\* mutation: the batch is kept with the request
RequestSentKept(m) == [m EXCEPT !.pending = TRUE, !.immediate = FALSE, !.resync = FALSE]

RequestSent(m) == [m EXCEPT !.pending = TRUE, !.immediate = FALSE, !.resync = FALSE, !.events = <<>>]

\* The end of _sendRenderRequest; an error skips what follows the finally.
RequestEnded(m) == [m EXCEPT !.pending = FALSE]
SettleRequest(m, due) == IF m.immediate THEN QueueUpdate(RequestEnded(m), "quick", due) ELSE RequestEnded(m)

\* backendUpdate.haswork
NoteWork(m, hasWork) == [m EXCEPT !.work = @ \/ hasWork]

\* renderDone
RenderDone(m, due) == IF m.work THEN QueueUpdate([m EXCEPT !.work = FALSE], "quick", due) ELSE m

CycleIdle(m) == ~m.pending /\ m.quick = 0 /\ m.slow = 0

\* What a request carries is gone from the batch.
CarriedBy(req) == IF req = Absent THEN {} ELSE ToSet(req.events)

\* Events are numbered in the order they are made.
Rising(s) == \A i, j \in DOMAIN s : i < j => s[i] < s[j]
=============================================================================
