---------------------------- MODULE ConnReconcile ----------------------------
(***************************************************************************)
(* How the job controller follows its connections                           *)
(* (pkg/jobcontroller/jobcontroller.go): every change of a connection is an *)
(* event, handled in a goroutine of its own; a worker compares what each    *)
(* connection is with what was last done for it, and starts at most one     *)
(* goroutine per connection that reconnects its jobs.  They share           *)
(* connStates, under its lock, and a channel with one slot.                 *)
(*                                                                          *)
(* The events are external: any status of any connection, at any time.      *)
(***************************************************************************)
EXTENDS Naturals, FiniteSets

CONSTANTS
  Conns,        \* connection names
  MaxHandlers   \* bound: handlers between unlocking and sending to reconcileCh

ASSUME ReconcileAssumption == MaxHandlers \in Nat \ {0}

VARIABLES
  actual, processed, reconciling,   \* connStates.m; no entry is the same as all FALSE
  reconcileCh,    \* elements in the channel
  handlers,       \* how many handleConnChangeEvent have still to send to it
  worker,         \* connReconcileWorker: "receive" or "reconcile"
  reconcilers,    \* the goroutines of reconcileConn
  did             \* the status onConnectionUp or onConnectionDown last ended for

vars == <<actual, processed, reconciling, reconcileCh, handlers, worker, reconcilers, did>>

Reconciler(c, status, done) == [conn |-> c, target |-> status, done |-> done]

Init ==
  /\ actual = [c \in Conns |-> FALSE]
  /\ processed = [c \in Conns |-> FALSE]
  /\ reconciling = [c \in Conns |-> FALSE]
  /\ reconcileCh = 0 /\ handlers = 0 /\ worker = "receive"
  /\ reconcilers = {} /\ did = [c \in Conns |-> FALSE]

FilledOneMore(ch) == ch + 1                                        \* mutation
FilledNever(ch) == ch                                              \* mutation
\* A send that does not wait: into a full channel it is dropped.
Filled(ch) == 1

\* handleConnChangeEvent, under the lock and after it.
SetActual(c, status) ==
  /\ handlers < MaxHandlers
  /\ actual' = [actual EXCEPT ![c] = status]
  /\ handlers' = handlers + 1
  /\ UNCHANGED <<processed, reconciling, reconcileCh, worker, reconcilers, did>>

SignalChange ==
  /\ handlers > 0
  /\ handlers' = handlers - 1
  /\ reconcileCh' = Filled(reconcileCh)
  /\ UNCHANGED <<actual, processed, reconciling, worker, reconcilers, did>>

\* connReconcileWorker
WorkerReceives ==
  /\ worker = "receive" /\ reconcileCh > 0
  /\ reconcileCh' = reconcileCh - 1 /\ worker' = "reconcile"
  /\ UNCHANGED <<actual, processed, reconciling, handlers, reconcilers, did>>

ChangedAlways(c) == actual[c] # processed[c]                       \* mutation
Changed(c) == ~reconciling[c] /\ actual[c] # processed[c]

reconcileAllConns ==
  LET changed == {c \in Conns : Changed(c)} IN
  /\ worker = "reconcile" /\ worker' = "receive"
  /\ reconciling' = [c \in Conns |-> reconciling[c] \/ c \in changed]
  /\ reconcilers' = reconcilers \cup {Reconciler(c, actual[c], FALSE) : c \in changed}
  /\ UNCHANGED <<actual, processed, reconcileCh, handlers, did>>

\* reconcileConn: onConnectionUp or onConnectionDown ends ...
ConnectionHandled(r) ==
  /\ r \in reconcilers /\ ~r.done
  /\ did' = [did EXCEPT ![r.conn] = r.target]
  /\ reconcilers' = (reconcilers \ {r}) \cup {Reconciler(r.conn, r.target, TRUE)}
  /\ UNCHANGED <<actual, processed, reconciling, reconcileCh, handlers, worker>>

ProcessedLatest(r) == actual[r.conn]                               \* mutation
Processed(r) == r.target

\* ... and the result is recorded and the worker told to look again, under the lock.
ReconcileEnds(r) ==
  /\ r \in reconcilers /\ r.done
  /\ reconcilers' = reconcilers \ {r}
  /\ processed' = [processed EXCEPT ![r.conn] = Processed(r)]
  /\ reconciling' = [reconciling EXCEPT ![r.conn] = FALSE]
  /\ reconcileCh' = Filled(reconcileCh)
  /\ UNCHANGED <<actual, handlers, worker, did>>

reconcileConn(c) ==
  \E r \in {x \in reconcilers : x.conn = c} : ConnectionHandled(r) \/ ReconcileEnds(r)

Next ==
  \/ \E c \in Conns, status \in BOOLEAN : SetActual(c, status)
  \/ SignalChange \/ WorkerReceives \/ reconcileAllConns
  \/ \E c \in Conns : reconcileConn(c)

\* Every goroutine that can run does; nothing makes connections change.
Fairness ==
  /\ WF_vars(SignalChange) /\ WF_vars(WorkerReceives) /\ WF_vars(reconcileAllConns)
  /\ \A c \in Conns : WF_vars(reconcileConn(c))

Spec == Init /\ [][Next]_vars
FairSpec == Spec /\ Fairness

-----------------------------------------------------------------------------
(* Properties                                                              *)

\* Type correctness; in particular the channel never holds more than its slot.
TypeOK ==
  /\ actual \in [Conns -> BOOLEAN] /\ processed \in [Conns -> BOOLEAN]
  /\ reconciling \in [Conns -> BOOLEAN] /\ did \in [Conns -> BOOLEAN]
  /\ reconcileCh \in {0, 1} /\ handlers \in 0 .. MaxHandlers
  /\ worker \in {"receive", "reconcile"}
  /\ reconcilers \subseteq [conn : Conns, target : BOOLEAN, done : BOOLEAN]

\* Two goroutines never reconnect the jobs of one connection at the same time,
\* however fast it goes up and down.
OneReconcilePerConn ==
  \A r, s \in reconcilers : r.conn = s.conn => r = s

\* No change is forgotten: a connection that is not what was processed is being
\* reconciled, or the worker is about to look, or has been or will be told to.
NoLostChange ==
  \A c \in Conns : actual[c] # processed[c] =>
    reconciling[c] \/ worker = "reconcile" \/ reconcileCh > 0 \/ handlers > 0

\* What is recorded as processed is what was done last, also when the connection
\* changed while it was being done.
ProcessedWasDone == \A c \in Conns : ~reconciling[c] => did[c] = processed[c]

\* A status that lasts is acted on in the end.
StatusActedOn ==
  \A c \in Conns, status \in BOOLEAN :
    actual[c] = status ~> (did[c] = status \/ actual[c] # status)

\* What makes these inductive: reconciling says that there is a goroutine, and one
\* that has done its work has left its mark.
ReconcilingIsReconciler ==
  \A c \in Conns : reconciling[c] <=> \E r \in reconcilers : r.conn = c
DoneIsDone == \A r \in reconcilers : r.done => did[r.conn] = r.target

Inv ==
  /\ TypeOK /\ OneReconcilePerConn /\ NoLostChange /\ ProcessedWasDone
  /\ ReconcilingIsReconciler /\ DoneIsDone
=============================================================================
