---------------------------- MODULE AtRestProofs ----------------------------
(***************************************************************************)
(* Six parts of the system keep a copy of something that others change,     *)
(* and promise that when nothing is under way the copy agrees: the workers  *)
(* that follow the connections, the editor of files and secrets, the page's *)
(* store of objects, the badges of every page, the view of a Wave app and   *)
(* the page of a Tsunami app. For each an inductive invariant says who is   *)
(* still to bring the copy what it lacks.                                   *)
(*                                                                         *)
(* Inv of ConnReconcile is inductive: connStates' reconciling flag and the  *)
(* goroutines of reconcileConn say the same thing. EditorInv adds to        *)
(* EditorAgrees what each call on its way will do to the page, StoreInv     *)
(* adds to ObjectsCurrent, object by object, that the page has what the     *)
(* database has or that something under way carries it, and BadgesInv says  *)
(* that a page that has handled its inbox and the backend can end with the  *)
(* same badges, whatever order the events that are under way take. VDomInv  *)
(* and AppInv say of the views of apps that a view will ask again, hears of *)
(* its app again, or has what the app renders.                              *)
(***************************************************************************)
EXTENDS ConnReconcile, ConfigEditor, WaveObjectStore, Badges, VDomModel, TsunamiModel,
        SequenceTheorems, FiniteSetTheorems, TLAPS

-----------------------------------------------------------------------------
(* The reconciliation of connections. *)

\* Nothing has happened yet and nothing is running.
LEMMA InitInv == Init => Inv
  BY ReconcileAssumption
  DEF Init, Inv, TypeOK, OneReconcilePerConn, NoLostChange, ProcessedWasDone,
      ReconcilingIsReconciler, DoneIsDone

\* An event leaves a handler that will still signal it; signalling it, and the
\* worker's receiving the signal, pass the duty on.
LEMMA EventInv ==
  ASSUME Inv, \/ \E c \in Conns, status \in BOOLEAN : SetActual(c, status)
              \/ SignalChange \/ WorkerReceives
  PROVE  Inv'
<1> USE ReconcileAssumption DEF Inv, TypeOK
<1>1. ASSUME NEW c \in Conns, NEW status \in BOOLEAN, SetActual(c, status)
      PROVE  Inv'
  BY <1>1 DEF SetActual, OneReconcilePerConn, NoLostChange, ProcessedWasDone,
              ReconcilingIsReconciler, DoneIsDone
<1>2. CASE SignalChange
  BY <1>2 DEF SignalChange, Filled, OneReconcilePerConn, NoLostChange, ProcessedWasDone,
              ReconcilingIsReconciler, DoneIsDone
<1>3. CASE WorkerReceives
  BY <1>3 DEF WorkerReceives, OneReconcilePerConn, NoLostChange, ProcessedWasDone,
              ReconcilingIsReconciler, DoneIsDone
<1> QED
  BY <1>1, <1>2, <1>3

\* The worker starts a goroutine for every connection that needs one and has none.
LEMMA ReconcileAllInv == Inv /\ reconcileAllConns => Inv'
<1> SUFFICES ASSUME Inv, reconcileAllConns PROVE Inv'
  OBVIOUS
<1> DEFINE changed == {c \in Conns : Changed(c)}
<1> USE DEF Inv
<1>1. /\ reconciling' = [c \in Conns |-> reconciling[c] \/ c \in changed]
      /\ reconcilers' = reconcilers \cup {Reconciler(c, actual[c], FALSE) : c \in changed}
      /\ UNCHANGED <<actual, processed, reconcileCh, handlers, did>> /\ worker' = "receive"
  BY DEF reconcileAllConns
<1>2. \A c \in changed : c \in Conns /\ ~reconciling[c] /\ actual[c] # processed[c]
  BY DEF Changed
<1>3. \A r \in reconcilers' \ reconcilers : r.conn \in changed /\ ~r.done
  BY <1>1 DEF Reconciler
<1>4. TypeOK'
  <2>1. reconciling' \in [Conns -> BOOLEAN]
    BY <1>1 DEF TypeOK
  <2>2. \A c \in changed :
          Reconciler(c, actual[c], FALSE) \in [conn : Conns, target : BOOLEAN, done : BOOLEAN]
    BY <1>2 DEF TypeOK, Reconciler
  <2>3. reconcilers' \subseteq [conn : Conns, target : BOOLEAN, done : BOOLEAN]
    <3> DEFINE R == [conn : Conns, target : BOOLEAN, done : BOOLEAN]
    <3>1. {Reconciler(c, actual[c], FALSE) : c \in changed} \subseteq R
      BY <2>2, Zenon
    <3>2. reconcilers \subseteq R
      BY DEF TypeOK
    <3> HIDE DEF R
    <3>3. reconcilers' \subseteq R
      BY <1>1, <3>1, <3>2
    <3> QED
      BY <3>3 DEF R
  <2> QED
    BY <1>1, <2>1, <2>3 DEF TypeOK
<1>5. OneReconcilePerConn'
  <2> SUFFICES ASSUME NEW r \in reconcilers', NEW s \in reconcilers', r.conn = s.conn
               PROVE  r = s
    BY DEF OneReconcilePerConn
  <2>1. \A x \in reconcilers : x.conn \notin changed
    BY <1>2 DEF ReconcilingIsReconciler, TypeOK
  <2>2. CASE r \in reconcilers /\ s \in reconcilers
    BY <2>2 DEF OneReconcilePerConn
  <2>3. CASE r \notin reconcilers /\ s \notin reconcilers
    <3>1. PICK c \in changed : r = Reconciler(c, actual[c], FALSE)
      BY <2>3, <1>1
    <3>2. PICK d \in changed : s = Reconciler(d, actual[d], FALSE)
      BY <2>3, <1>1
    <3>3. r.conn = c /\ s.conn = d
      BY <3>1, <3>2 DEF Reconciler
    <3> QED
      BY <3>1, <3>2, <3>3
  <2> QED
    BY <2>1, <2>2, <2>3, <1>3
<1>6. ReconcilingIsReconciler'
  <2> SUFFICES ASSUME NEW c \in Conns
               PROVE  reconciling'[c] <=> \E r \in reconcilers' : r.conn = c
    BY DEF ReconcilingIsReconciler
  <2>1. reconciling'[c] <=> reconciling[c] \/ c \in changed
    BY <1>1 
  <2>2. c \in changed => \E r \in reconcilers' : r.conn = c
    <3> HAVE c \in changed
    <3>1. Reconciler(c, actual[c], FALSE) \in reconcilers'
      BY <1>1
    <3> QED
      BY <3>1 DEF Reconciler
  <2>3. reconciling[c] <=> \E r \in reconcilers : r.conn = c
    BY DEF ReconcilingIsReconciler
  <2> QED
    BY <2>1, <2>2, <2>3, <1>1, <1>3
<1>7. NoLostChange'
  BY <1>1 DEF NoLostChange, Changed
<1>8. ProcessedWasDone' /\ DoneIsDone'
  BY <1>1, <1>3 DEF ProcessedWasDone, DoneIsDone
<1> QED
  BY <1>4, <1>5, <1>6, <1>7, <1>8

\* A goroutine does its work, then records it and tells the worker to look again.
LEMMA ReconcileConnInv ==
  ASSUME Inv, NEW r \in reconcilers, ConnectionHandled(r) \/ ReconcileEnds(r)
  PROVE  Inv'
<1> USE DEF Inv
<1>0. /\ r.conn \in Conns /\ r.target \in BOOLEAN /\ r.done \in BOOLEAN
      /\ \A s \in reconcilers : s.conn = r.conn => s = r
      /\ reconciling[r.conn]
  BY DEF TypeOK, OneReconcilePerConn, ReconcilingIsReconciler
<1>1. CASE ConnectionHandled(r)
  <2> DEFINE handled == Reconciler(r.conn, r.target, TRUE)
  <2>1. /\ did' = [did EXCEPT ![r.conn] = r.target]
        /\ reconcilers' = (reconcilers \ {r}) \cup {handled}
        /\ handled.conn = r.conn /\ handled.target = r.target
        /\ handled \in [conn : Conns, target : BOOLEAN, done : BOOLEAN]
        /\ UNCHANGED <<actual, processed, reconciling, reconcileCh, handlers, worker>>
    BY <1>0, <1>1 DEF ConnectionHandled, Reconciler
  <2>2. TypeOK'
    BY <1>0, <2>1 DEF TypeOK
  <2>3. OneReconcilePerConn'
    BY <1>0, <2>1, Zenon DEF OneReconcilePerConn
  <2>6. ReconcilingIsReconciler'
    <3> SUFFICES ASSUME NEW c \in Conns
                 PROVE  reconciling[c] <=> \E x \in reconcilers' : x.conn = c
      BY <2>1 DEF ReconcilingIsReconciler
    <3>1. CASE c = r.conn
      BY <3>1, <1>0, <2>1, Zenon
    <3>2. CASE c # r.conn
      BY <3>2, <2>1, Zenon DEF ReconcilingIsReconciler
    <3> QED
      BY <3>1, <3>2
  <2>4. DoneIsDone' /\ ProcessedWasDone'
    BY <1>0, <2>1 DEF DoneIsDone, ProcessedWasDone, TypeOK
  <2>5. NoLostChange'
    BY <2>1 DEF NoLostChange
  <2> QED
    BY <2>2, <2>3, <2>4, <2>5, <2>6
<1>2. CASE ReconcileEnds(r)
  <2>1. /\ r.done /\ did[r.conn] = r.target
        /\ reconcilers' = reconcilers \ {r}
        /\ processed' = [processed EXCEPT ![r.conn] = r.target]
        /\ reconciling' = [reconciling EXCEPT ![r.conn] = FALSE]
        /\ reconcileCh' = 1 /\ UNCHANGED <<actual, handlers, worker, did>>
    BY <1>2 DEF ReconcileEnds, Processed, Filled, DoneIsDone
  <2>2. TypeOK'
    BY <1>0, <2>1 DEF TypeOK
  <2>3. OneReconcilePerConn' /\ ReconcilingIsReconciler'
    BY <1>0, <2>1 DEF OneReconcilePerConn, ReconcilingIsReconciler, TypeOK
  <2>4. DoneIsDone' /\ ProcessedWasDone'
    BY <1>0, <2>1 DEF DoneIsDone, ProcessedWasDone, TypeOK
  <2>5. NoLostChange'
    BY <2>1 DEF NoLostChange
  <2> QED
    BY <2>2, <2>3, <2>4, <2>5
<1> QED
  BY <1>1, <1>2

\* Every step of the handlers, the worker and the goroutines keeps Inv.
THEOREM NextInv == Inv /\ [Next]_vars => Inv'
<1> SUFFICES ASSUME Inv, [Next]_vars PROVE Inv'
  OBVIOUS
<1>1. CASE \/ \E c \in Conns, status \in BOOLEAN : SetActual(c, status)
           \/ SignalChange \/ WorkerReceives
  BY <1>1, EventInv
<1>2. CASE reconcileAllConns
  BY <1>2, ReconcileAllInv
<1>3. CASE \E c \in Conns : reconcileConn(c)
  BY <1>3, ReconcileConnInv DEF reconcileConn
<1>4. CASE UNCHANGED vars
  BY <1>4 DEF vars, Inv, TypeOK, OneReconcilePerConn, NoLostChange, ProcessedWasDone,
              ReconcilingIsReconciler, DoneIsDone
<1> QED
  BY <1>1, <1>2, <1>3, <1>4 DEF Next

\* Inv holds in every reachable state.
THEOREM InvHolds == Spec => []Inv
  BY InitInv, NextInv, PTL DEF Spec

\* The fields of connStates and the places of the goroutines keep their types.
THEOREM TypeCorrect == Spec => []TypeOK
  BY InvHolds, PTL DEF Inv

\* The jobs of a connection are never reconnected by two goroutines at a time.
THEOREM OneAtATime == Spec => []OneReconcilePerConn
  BY InvHolds, PTL DEF Inv

\* No change of a connection is forgotten, whatever signals the full channel drops.
THEOREM ChangesRemembered == Spec => []NoLostChange
  BY InvHolds, PTL DEF Inv

\* What connStates has as processed is what was done last.
THEOREM RecordIsTrue == Spec => []ProcessedWasDone
  BY InvHolds, PTL DEF Inv

Quiet == reconcileCh = 0 /\ handlers = 0 /\ worker = "receive" /\ reconcilers = {}

\* When no goroutine has anything left to do, every connection was last handled in
\* the status of its last event.
THEOREM QuietIsSettled == Spec => [](Quiet => \A c \in Conns : did[c] = actual[c])
<1>1. Inv => (Quiet => \A c \in Conns : did[c] = actual[c])
  BY DEF Inv, Quiet, NoLostChange, ProcessedWasDone, ReconcilingIsReconciler
<1> QED
  BY <1>1, InvHolds, PTL

-----------------------------------------------------------------------------
(* The editor of files and secrets. *)

IsText(t) == t = [of |-> t.of, n |-> t.n]
IsCall(c) == c = [id |-> c.id, kind |-> c.kind, of |-> c.of, val |-> c.val, done |-> c.done]
Real(v) == {s \in Names : v[s] # Nothing}

\* A call about a file: what is on its way to the file d, or was read of it.
FileCall(c, d, o) ==
  /\ c.kind \in {"read", "reread", "write", "settings"} => c.of \in Files
  /\ c.kind = "settings" => c.of = Settings /\ IsText(c.val)
  /\ c.kind = "write" => IsText(c.val) /\ (c.of \in o \/ c.val.of = c.of)
  /\ c.kind = "write" /\ c.done => c.of \in o \/ d[c.of] = c.val
  /\ c.kind \in {"read", "reread"} /\ c.done => IsText(c.val) /\ (c.of \in o \/ d[c.of] = c.val)

\* A call about the secrets v, of which the page lists names.
SecretCall(c, v, names, o) ==
  /\ c.kind \in {"set", "add", "delete", "show"} => c.of \in Names
  /\ c.kind = "names" => c.of = Vault /\ (c.done => Vault \in o \/ c.val = Real(v))
  /\ c.kind = "show" /\ c.done => c.of \in o \/ c.val \in {c.of, Nothing}
  /\ c.kind = "delete" => c.val = Nothing
  /\ c.kind \in {"add", "set"} => c.val # Nothing /\ (c.of \in o \/ c.val = c.of)
  /\ c.kind = "set" => Vault \in o \/ c.of \in names

CallPlace(c, d, v, names, o) ==
  /\ IsCall(c)
  /\ c.kind \in {"read", "reread", "write", "settings", "set", "add", "delete", "names", "show"}
  /\ FileCall(c, d, o) /\ SecretCall(c, v, names, o)

\* Calls that meet leave a mark.
Meet(c, d, o) ==
  /\ c.kind \in {"read", "reread"} /\ d.kind \in {"write", "settings"} /\ c.of = d.of => c.of \in o
  /\ c # d /\ c.kind \in {"write", "settings"} /\ d.kind \in {"write", "settings"} /\ c.of = d.of
       => c.of \in o
  /\ c.kind = "names" /\ d.kind \in {"set", "add", "delete"} => Vault \in o

EditorTypes ==
  /\ DOMAIN disk = Files /\ (\A f \in Files : IsText(disk[f])) /\ IsText(text)
  /\ DOMAIN secrets = Names
  /\ detail = [selected |-> detail.selected, value |-> detail.value, shown |-> detail.shown]
  /\ detail.selected \in Names \union {Nothing}
  /\ detail.shown => detail.value # Nothing
  /\ isLoading \in BOOLEAN /\ isSaving \in BOOLEAN

CallsPlace == \A c \in editorCalls : CallPlace(c, disk, secrets, secretNames, editorOdd)
Meetings == \A c, d \in editorCalls : Meet(c, d, editorOdd)

\* Who says that something loads or is saved has a call for it.
Flags ==
  /\ isLoading => \E c \in editorCalls : c.kind \notin {"write", "settings"}
  /\ isSaving => \E c \in editorCalls : c.kind \in {"write", "settings", "reread"}

\* A text that is not the selected file's will be, when a call ends.
TextPlace ==
  /\ selected \in Files \ editorOdd => text.of = selected
  /\ selected \in Files \ editorOdd /\ ~hasEdited /\ text # disk[selected] =>
       \E c \in editorCalls : \/ c.kind \in {"read", "reread"}
                              \/ c.kind \in {"write", "settings"} /\ c.of = selected /\ c.done

ListPlace ==
  selected = Vault /\ Vault \notin editorOdd /\ secretNames # Real(secrets) =>
    \E c \in editorCalls : c.kind = "names" \/ (c.kind \in {"add", "delete"} /\ c.done)

DetailPlace == detail.shown /\ detail.selected \in Names \ editorOdd => detail.value = detail.selected

EditorInv ==
  /\ EditorTypes /\ CallsPlace /\ Meetings /\ Flags /\ TextPlace /\ ListPlace /\ DetailPlace
  /\ OwnContents

LEMMA EditorInvInit == EditorNames /\ EditorInit => EditorInv
<1> SUFFICES ASSUME EditorNames, EditorInit PROVE EditorInv
  OBVIOUS
<1> USE DEF EditorInit
<1>1. \A f \in Files : disk[f] = Text(f, 0) /\ IsText(disk[f]) /\ disk[f].of = f
  BY DEF Text, IsText
<1>2. IsText(text)
  BY DEF NoText, Text, IsText
<1>3. DOMAIN secrets = Names /\ \A s \in Names : secrets[s] \in {s, Nothing}
  OBVIOUS
<1>4. /\ detail = [selected |-> Nothing, value |-> Nothing, shown |-> FALSE]
      /\ detail.selected = Nothing /\ detail.shown = FALSE /\ detail.value = Nothing
  BY DEF NoDetail
<1>5. EditorTypes
  BY <1>1, <1>2, <1>3, <1>4 DEF EditorTypes
<1> QED BY <1>1, <1>3, <1>4, <1>5 DEF EditorInv, CallsPlace, Meetings, Flags, TextPlace,
       ListPlace, DetailPlace, OwnContents, EditorNames
\* A mark stays, so what it excuses stays excused.
LEMMA CallKept ==
  ASSUME NEW c, NEW d, NEW v, NEW names, NEW o, NEW o2, o \subseteq o2,
         CallPlace(c, d, v, names, o)
  PROVE  CallPlace(c, d, v, names, o2)
BY DEF CallPlace, FileCall, SecretCall

LEMMA MeetKept ==
  ASSUME NEW c, NEW d, NEW o, NEW o2, o \subseteq o2, Meet(c, d, o)
  PROVE  Meet(c, d, o2)
BY DEF Meet

\* Calls that go take nothing from those that stay.
LEMMA CallsGone ==
  ASSUME CallsPlace, Meetings, editorCalls' \subseteq editorCalls, editorOdd \subseteq editorOdd',
         UNCHANGED <<disk, secrets, secretNames>>
  PROVE  CallsPlace' /\ Meetings'
<1>1. ASSUME NEW c \in editorCalls' PROVE CallPlace(c, disk', secrets', secretNames', editorOdd')
  <2>1. CallPlace(c, disk, secrets, secretNames, editorOdd)
    BY DEF CallsPlace
  <2>2. CallPlace(c, disk, secrets, secretNames, editorOdd')
    BY <2>1, CallKept
  <2> QED BY <2>2
<1>2. ASSUME NEW c \in editorCalls', NEW d \in editorCalls' PROVE Meet(c, d, editorOdd')
  BY MeetKept DEF Meetings
<1> QED BY <1>1, <1>2 DEF CallsPlace, Meetings

\* A call that is made has its place, and a mark for those it meets.
LEMMA CallMade ==
  ASSUME CallsPlace, Meetings, NEW others, others \subseteq editorCalls, NEW n,
         editorCalls' = others \union {n}, editorOdd \subseteq editorOdd',
         UNCHANGED <<disk, secrets, secretNames>>,
         CallPlace(n, disk, secrets, secretNames, editorOdd'),
         \A c \in others : Meet(c, n, editorOdd') /\ Meet(n, c, editorOdd'), Meet(n, n, editorOdd')
  PROVE  CallsPlace' /\ Meetings'
<1>1. ASSUME NEW c \in editorCalls' PROVE CallPlace(c, disk', secrets', secretNames', editorOdd')
  <2>1. CASE c = n
    BY <2>1
  <2>2. CASE c \in editorCalls
    <3>1. CallPlace(c, disk, secrets, secretNames, editorOdd)
      BY <2>2 DEF CallsPlace
    <3>2. CallPlace(c, disk, secrets, secretNames, editorOdd')
      BY <3>1, CallKept
    <3> QED BY <3>2
  <2> QED BY <2>1, <2>2
<1>2. ASSUME NEW c \in editorCalls', NEW d \in editorCalls' PROVE Meet(c, d, editorOdd')
  <2>1. CASE c \in others /\ d \in others
    BY <2>1, MeetKept DEF Meetings
  <2> QED BY <2>1
<1> QED BY <1>1, <1>2 DEF CallsPlace, Meetings

\* What is in the files and the list stays right where only marks are added.
LEMMA ContentsKept ==
  ASSUME OwnContents, editorOdd \subseteq editorOdd', UNCHANGED <<disk, secrets>>
  PROVE  OwnContents'
BY DEF OwnContents

LEMMA DetailKept ==
  ASSUME DetailPlace, editorOdd \subseteq editorOdd', UNCHANGED detail
  PROVE  DetailPlace'
BY DEF DetailPlace

\* A load shows nothing of its file before it ends.
LEMMA EditorLoads ==
  ASSUME EditorNames, EditorInv, NEW f \in Files, loadFile(f)
  PROVE  EditorInv'
<1>1. PICK n : n = EditorCall("read", f, Nothing)
  OBVIOUS
<1>2. /\ n = [id |-> editorMade + 1, kind |-> "read", of |-> f, val |-> Nothing, done |-> FALSE]
      /\ n.kind = "read" /\ n.of = f /\ n.done = FALSE /\ IsCall(n)
  BY <1>1 DEF EditorCall, IsCall
<1>3. /\ editorCalls' = editorCalls \union {n}
      /\ isLoading' = TRUE /\ hasEdited' = FALSE
      /\ editorOdd' = editorOdd \union {g \in {f} : \E c \in editorCalls : c.kind \in {"write", "settings"} /\ c.of = g}
      /\ UNCHANGED <<disk, selected, text, isSaving, secrets, secretNames, detail>>
  BY <1>1 DEF loadFile, startLoad, Made, MadeAfter, Writes,
              vault
<1>4. CallsPlace' /\ Meetings'
  <2>1. CallPlace(n, disk, secrets, secretNames, editorOdd')
    BY <1>2 DEF CallPlace, FileCall, SecretCall
  <2>2. \A c \in editorCalls : Meet(c, n, editorOdd') /\ Meet(n, c, editorOdd')
    BY <1>2, <1>3 DEF Meet
  <2>3. Meet(n, n, editorOdd')
    BY <1>2 DEF Meet
  <2> QED BY <2>1, <2>2, <2>3, <1>3, CallMade DEF EditorInv
<1>5. EditorTypes' /\ Flags' /\ DetailPlace' /\ OwnContents'
  BY <1>2, <1>3, ContentsKept, DetailKept DEF EditorInv, EditorTypes, Flags
<1>6. TextPlace' /\ ListPlace'
  BY <1>2, <1>3 DEF EditorInv, TextPlace, ListPlace
<1> QED BY <1>4, <1>5, <1>6 DEF EditorInv

LEMMA EditorTyped ==
  ASSUME EditorInv, Edit
  PROVE  EditorInv'
<1>1. /\ hasEdited' = TRUE /\ text' = Text(text.of, edits + 1)
      /\ UNCHANGED <<disk, selected, isLoading, isSaving, secrets, secretNames, detail, editorCalls, editorOdd>>
  BY DEF Edit, vault
<1>2. IsText(text') /\ text'.of = text.of
  BY <1>1 DEF Text, IsText
<1> QED BY <1>1, <1>2 DEF EditorInv, EditorTypes, CallsPlace, Meetings, Flags, TextPlace, ListPlace,
                          DetailPlace, OwnContents

\* What is written is a text of the file, unless the file is marked.
LEMMA EditorSaves ==
  ASSUME EditorNames, EditorInv, NEW kind, NEW f \in Files, NEW val, IsText(val),
         kind = "write" \/ (kind = "settings" /\ f = Settings), val.of = f \/ f \in editorOdd,
         Write(kind, f, val)
  PROVE  EditorInv'
<1>1. PICK n : n = EditorCall(kind, f, val)
  OBVIOUS
<1>2. /\ n = [id |-> editorMade + 1, kind |-> kind, of |-> f, val |-> val, done |-> FALSE]
      /\ n.kind = kind /\ n.of = f /\ n.val = val /\ n.done = FALSE /\ IsCall(n)
  BY <1>1 DEF EditorCall, IsCall
<1>3. /\ editorCalls' = editorCalls \union {n} /\ isSaving' = TRUE
      /\ editorOdd' = editorOdd \union {g \in {f} : \E c \in editorCalls :
                  c.kind \in {"write", "settings", "read", "reread"} /\ c.of = g}
      /\ UNCHANGED <<disk, selected, text, hasEdited, isLoading, secrets, secretNames, detail>>
  BY <1>1 DEF Write, Made, MadeAfter, CallUnderWay, Reads, Writes,
              vault
<1>4. CallsPlace' /\ Meetings'
  <2>1. CallPlace(n, disk, secrets, secretNames, editorOdd')
    BY <1>2, <1>3 DEF CallPlace, FileCall, SecretCall
  <2>2. \A c \in editorCalls : Meet(c, n, editorOdd') /\ Meet(n, c, editorOdd')
    BY <1>2, <1>3 DEF Meet
  <2>3. Meet(n, n, editorOdd')
    BY <1>2 DEF Meet
  <2> QED BY <2>1, <2>2, <2>3, <1>3, CallMade DEF EditorInv
<1>5. EditorTypes' /\ Flags' /\ DetailPlace' /\ OwnContents'
  BY <1>2, <1>3, ContentsKept, DetailKept DEF EditorInv, EditorTypes, Flags
<1>6. TextPlace' /\ ListPlace'
  BY <1>2, <1>3 DEF EditorInv, TextPlace, ListPlace
<1> QED BY <1>4, <1>5, <1>6 DEF EditorInv

LEMMA EditorWrites ==
  ASSUME EditorNames, EditorInv, saveFile \/ saveJsonObject \/ setConfigValues
  PROVE  EditorInv'
<1>1. IsText(text) /\ (selected \in Files => text.of = selected \/ selected \in editorOdd)
  BY DEF EditorInv, EditorTypes, TextPlace
<1>2. \A of, n : IsText(Text(of, n)) /\ Text(of, n).of = of
  BY DEF Text, IsText
<1>3. CASE saveFile
  BY <1>1, <1>3, EditorSaves DEF saveFile
<1>4. CASE saveJsonObject
  BY <1>1, <1>2, <1>4, EditorSaves DEF saveJsonObject
<1>5. CASE setConfigValues
  BY <1>2, <1>5, EditorSaves DEF setConfigValues, EditorNames
<1> QED BY <1>3, <1>4, <1>5

\* The end of a load selects the file of which it has the text.
LEMMA EditorRead ==
  ASSUME EditorNames, EditorInv, NEW c \in editorCalls, FileRead(c)
  PROVE  EditorInv'
<1>1. /\ c.done /\ c.kind \in {"read", "reread"} /\ editorCalls' = editorCalls \ {c}
      /\ text' = c.val /\ selected' = c.of /\ isLoading' = FALSE
      /\ isSaving' = (isSaving /\ c.kind = "read")
      /\ UNCHANGED <<disk, hasEdited, secrets, secretNames, detail, editorOdd>>
  BY DEF FileRead, Answered, Reads, vault
<1>2. /\ c.of \in Files /\ IsText(c.val)
      /\ c.of \in editorOdd \/ (disk[c.of] = c.val /\ c.val.of = c.of)
  BY <1>1 DEF EditorInv, CallsPlace, CallPlace, FileCall, OwnContents
<1>3. CallsPlace' /\ Meetings'
  BY <1>1, CallsGone DEF EditorInv
<1>4. isSaving' \in BOOLEAN /\ (isSaving' => isSaving /\ c.kind = "read")
  BY <1>1, Zenon
<1>5. EditorTypes' /\ Flags' /\ DetailPlace' /\ OwnContents'
  BY <1>1, <1>2, <1>4, ContentsKept, DetailKept DEF EditorInv, EditorTypes, Flags
<1>6. TextPlace' /\ ListPlace'
  BY <1>1, <1>2 DEF EditorInv, TextPlace, ListPlace, EditorNames
<1> QED BY <1>3, <1>5, <1>6 DEF EditorInv

\* The end of a save has the file's text, or meets another selection, which it marks.
LEMMA EditorWritten ==
  ASSUME EditorNames, EditorInv, NEW c \in editorCalls, FileWritten(c)
  PROVE  EditorInv'
<1>1. /\ c.done /\ c.kind = "write" /\ editorCalls' = editorCalls \ {c}
      /\ text' = c.val /\ hasEdited' = FALSE /\ isSaving' = FALSE
      /\ editorOdd' = editorOdd \union ({selected} \ {c.of})
      /\ UNCHANGED <<disk, selected, isLoading, secrets, secretNames, detail>>
  BY DEF FileWritten, Answered, vault
<1>2. /\ c.of \in Files /\ IsText(c.val)
      /\ c.of \in editorOdd \/ (disk[c.of] = c.val /\ c.val.of = c.of)
  BY <1>1 DEF EditorInv, CallsPlace, CallPlace, FileCall
<1>3. CallsPlace' /\ Meetings'
  BY <1>1, CallsGone DEF EditorInv
<1>5. EditorTypes' /\ Flags' /\ DetailPlace' /\ OwnContents'
  BY <1>1, <1>2, ContentsKept, DetailKept DEF EditorInv, EditorTypes, Flags
<1>6. TextPlace' /\ ListPlace'
  BY <1>1, <1>2 DEF EditorInv, TextPlace, ListPlace, EditorNames
<1> QED BY <1>3, <1>5, <1>6 DEF EditorInv

\* The settings are loaded again if they are selected.
LEMMA EditorSettingsSet ==
  ASSUME EditorNames, EditorInv, NEW c \in editorCalls, SettingsSet(c)
  PROVE  EditorInv'
<1>1. c.kind = "settings" /\ c.done /\ c.of = Settings
  BY DEF SettingsSet, Answered, EditorInv, CallsPlace, CallPlace, FileCall
<1>2. CASE selected = Settings
  <2>1. PICK n : n = EditorCall("reread", Settings, Nothing)
    OBVIOUS
  <2>2. /\ n = [id |-> editorMade + 1, kind |-> "reread", of |-> Settings, val |-> Nothing, done |-> FALSE]
        /\ n.kind = "reread" /\ n.of = Settings /\ n.done = FALSE /\ IsCall(n)
    BY <2>1 DEF EditorCall, IsCall
  <2>3. /\ editorCalls' = (editorCalls \ {c}) \union {n}
        /\ isLoading' = TRUE /\ hasEdited' = FALSE
        /\ editorOdd' = editorOdd \union {g \in {Settings} :
                    \E d \in editorCalls \ {c} : d.kind \in {"write", "settings"} /\ d.of = g}
        /\ UNCHANGED <<disk, selected, text, isSaving, secrets, secretNames, detail>>
    BY <1>2, <2>1 DEF SettingsSet, startLoad, MadeAfter, Writes,
                vault
  <2>4. CallsPlace' /\ Meetings'
    <3>1. CallPlace(n, disk, secrets, secretNames, editorOdd')
      BY <2>2 DEF CallPlace, FileCall, SecretCall, EditorNames
    <3>2. \A d \in editorCalls \ {c} : Meet(d, n, editorOdd') /\ Meet(n, d, editorOdd')
      BY <2>2, <2>3 DEF Meet
    <3>3. Meet(n, n, editorOdd')
      BY <2>2 DEF Meet
    <3>4. editorCalls \ {c} \subseteq editorCalls /\ editorOdd \subseteq editorOdd'
      BY <2>3
    <3> QED BY <3>1, <3>2, <3>3, <3>4, <2>3, CallMade DEF EditorInv
  <2>5. EditorTypes' /\ Flags' /\ DetailPlace' /\ OwnContents'
    BY <2>2, <2>3, <1>1, ContentsKept, DetailKept DEF EditorInv, EditorTypes, Flags
  <2>6. TextPlace' /\ ListPlace'
    BY <2>2, <2>3, <1>2 DEF EditorInv, TextPlace, ListPlace, EditorNames
  <2> QED BY <2>4, <2>5, <2>6 DEF EditorInv
<1>3. CASE selected # Settings
  <2>1. /\ editorCalls' = editorCalls \ {c} /\ isSaving' = FALSE
        /\ UNCHANGED <<disk, selected, text, hasEdited, isLoading, secrets, secretNames, detail, editorOdd>>
    BY <1>3 DEF SettingsSet, vault
  <2>2. CallsPlace' /\ Meetings'
    BY <2>1, CallsGone DEF EditorInv
  <2>3. EditorTypes' /\ Flags' /\ DetailPlace' /\ OwnContents'
    BY <1>1, <2>1, ContentsKept, DetailKept DEF EditorInv, EditorTypes, Flags
  <2>4. TextPlace' /\ ListPlace'
    BY <1>1, <1>3, <2>1 DEF EditorInv, TextPlace, ListPlace
  <2> QED BY <2>2, <2>3, <2>4 DEF EditorInv
<1> QED BY <1>2, <1>3

\* The list of the secrets is loaded.
LEMMA EditorListsSecrets ==
  ASSUME EditorNames, EditorInv, loadSecrets
  PROVE  EditorInv'
<1>1. PICK n : n = EditorCall("names", Vault, Nothing)
  OBVIOUS
<1>2. /\ n = [id |-> editorMade + 1, kind |-> "names", of |-> Vault, val |-> Nothing, done |-> FALSE]
      /\ n.kind = "names" /\ n.of = Vault /\ n.done = FALSE /\ IsCall(n)
  BY <1>1 DEF EditorCall, IsCall
<1>3. /\ editorCalls' = editorCalls \union {n} /\ selected' = Vault
      /\ isLoading' = TRUE /\ hasEdited' = FALSE
      /\ editorOdd' = editorOdd \union {v \in {Vault} : \E d \in editorCalls : d.kind \in {"set", "add", "delete"}}
      /\ UNCHANGED <<disk, text, isSaving, secrets, secretNames, detail>>
  BY <1>1 DEF loadSecrets, MeetsChange, Made, MadeAfter, Changes,
              vault
<1>4. CallsPlace' /\ Meetings'
  <2>1. CallPlace(n, disk, secrets, secretNames, editorOdd')
    BY <1>2 DEF CallPlace, FileCall, SecretCall
  <2>2. \A c \in editorCalls : Meet(c, n, editorOdd') /\ Meet(n, c, editorOdd')
    BY <1>2, <1>3 DEF Meet
  <2>3. Meet(n, n, editorOdd')
    BY <1>2 DEF Meet
  <2> QED BY <2>1, <2>2, <2>3, <1>3, CallMade DEF EditorInv
<1>5. EditorTypes' /\ Flags' /\ DetailPlace' /\ OwnContents'
  BY <1>2, <1>3, ContentsKept, DetailKept DEF EditorInv, EditorTypes, Flags
<1>6. TextPlace' /\ ListPlace'
  BY <1>2, <1>3 DEF EditorInv, TextPlace, ListPlace, EditorNames
<1> QED BY <1>4, <1>5, <1>6 DEF EditorInv

LEMMA EditorViews ==
  ASSUME EditorInv, closeSecretView \/ \E s \in Names : viewSecret(s)
  PROVE  EditorInv'
<1>1. PICK x \in Names \union {Nothing} :
        detail' = [selected |-> x, value |-> Nothing, shown |-> FALSE]
  BY DEF viewSecret, closeSecretView, NoDetail
<1>2. UNCHANGED <<disk, selected, text, hasEdited, isLoading, isSaving, secrets, secretNames,
                  editorCalls, editorOdd>>
  BY DEF viewSecret, closeSecretView
<1>3. EditorTypes' /\ DetailPlace'
  BY <1>1, <1>2 DEF EditorInv, EditorTypes, DetailPlace
<1> QED BY <1>2, <1>3 DEF EditorInv, CallsPlace, Meetings, Flags, TextPlace, ListPlace, OwnContents

\* What is asked of the backend about a secret: a value that was typed under its
\* name or shown as its own, unless the name is marked.
LEMMA EditorAsks ==
  ASSUME EditorNames, EditorInv, NEW kind \in {"show", "set", "delete", "add"}, NEW s \in Names,
         NEW val, kind = "delete" => val = Nothing,
         kind \in {"add", "set"} => val # Nothing /\ (s \in editorOdd \/ val = s),
         SecretRequest(kind, s, val)
  PROVE  EditorInv'
<1>1. PICK n : n = EditorCall(kind, s, val)
  OBVIOUS
<1>2. /\ n = [id |-> editorMade + 1, kind |-> kind, of |-> s, val |-> val, done |-> FALSE]
      /\ n.kind = kind /\ n.of = s /\ n.val = val /\ n.done = FALSE /\ IsCall(n)
  BY <1>1 DEF EditorCall, IsCall
<1>3. /\ editorCalls' = editorCalls \union {n} /\ isLoading' = TRUE
      /\ editorOdd \subseteq editorOdd'
      /\ kind # "show" /\ (\E c \in editorCalls : c.kind = "names" /\ c.of = Vault) => Vault \in editorOdd'
      /\ kind = "set" /\ s \notin secretNames => Vault \in editorOdd'
      /\ UNCHANGED <<disk, selected, text, hasEdited, isSaving, secrets, secretNames, detail>>
  BY <1>1 DEF SecretRequest, Made, MadeAfter, CallUnderWay, Changes,
              vault
<1>4. CallsPlace' /\ Meetings'
  <2>1. CallPlace(n, disk, secrets, secretNames, editorOdd')
    BY <1>2, <1>3 DEF CallPlace, FileCall, SecretCall
  <2>2. ASSUME NEW c \in editorCalls PROVE Meet(c, n, editorOdd') /\ Meet(n, c, editorOdd')
    <3>1. c.kind = "names" => c.of = Vault
      BY DEF EditorInv, CallsPlace, CallPlace, SecretCall
    <3> QED BY <1>2, <1>3, <3>1 DEF Meet
  <2>3. Meet(n, n, editorOdd')
    BY <1>2 DEF Meet
  <2> QED BY <2>1, <2>2, <2>3, <1>3, CallMade DEF EditorInv
<1>5. EditorTypes' /\ Flags' /\ DetailPlace' /\ OwnContents'
  BY <1>2, <1>3, ContentsKept, DetailKept DEF EditorInv, EditorTypes, Flags
<1>6. TextPlace' /\ ListPlace'
  BY <1>2, <1>3 DEF EditorInv, TextPlace, ListPlace
<1> QED BY <1>4, <1>5, <1>6 DEF EditorInv

LEMMA EditorRequests ==
  ASSUME EditorNames, EditorInv,
         \/ showSecret \/ saveSecret \/ deleteSecret
         \/ \E s \in Names : addNewSecret(s)
  PROVE  EditorInv'
<1>1. /\ detail.selected \in Names \union {Nothing} /\ (detail.shown => detail.value # Nothing)
      /\ detail.shown /\ detail.selected \in Names =>
           detail.value = detail.selected \/ detail.selected \in editorOdd
  BY DEF EditorInv, EditorTypes, DetailPlace
<1>2. CASE showSecret
  BY <1>1, <1>2, EditorAsks DEF showSecret
<1>3. CASE saveSecret
  <2>1. PICK val : val = IF detail.shown THEN detail.value ELSE detail.selected
    OBVIOUS
  <2>2. detail.selected \in Names /\ SecretRequest("set", detail.selected, val)
    BY <1>1, <1>3, <2>1 DEF saveSecret
  <2>3. val # Nothing /\ (detail.selected \in editorOdd \/ val = detail.selected)
    BY <1>1, <2>1, <2>2 DEF EditorNames
  <2> QED BY <2>2, <2>3, EditorAsks
<1>4. CASE deleteSecret
  BY <1>1, <1>4, EditorAsks DEF deleteSecret
<1>5. CASE \E s \in Names : addNewSecret(s)
  BY <1>5, EditorAsks DEF addNewSecret, EditorNames
<1> QED BY <1>2, <1>3, <1>4, <1>5

\* The end of a call about secrets changes what is listed or shown, not what exists.
LEMMA EditorSecretEnds ==
  ASSUME EditorNames, EditorInv, NEW c \in editorCalls,
         NamesFound(c) \/ SecretFound(c) \/ SecretSet(c)
  PROVE  EditorInv'
<1>1. /\ c.done /\ c.kind \in {"names", "show", "set"} /\ editorCalls' = editorCalls \ {c}
      /\ isLoading' = FALSE /\ editorOdd \subseteq editorOdd'
      /\ UNCHANGED <<disk, selected, text, hasEdited, isSaving, secrets>>
  BY DEF NamesFound, SecretFound, SecretSet, Answered, NoDetail
<1>2. CallPlace(c, disk, secrets, secretNames, editorOdd)
  BY DEF EditorInv, CallsPlace
<1>3. Flags' /\ TextPlace' /\ OwnContents'
  BY <1>1, ContentsKept DEF EditorInv, Flags, TextPlace
<1>4. CASE NamesFound(c)
  <2>1. c.kind = "names" /\ secretNames' = c.val /\ UNCHANGED <<detail, editorOdd>>
    BY <1>4 DEF NamesFound, Answered
  <2>2. Vault \in editorOdd \/ secretNames' = Real(secrets)
    BY <1>1, <1>2, <2>1 DEF CallPlace, SecretCall
  <2>3. CallsPlace'
    <3>1. ASSUME NEW d \in editorCalls' PROVE CallPlace(d, disk', secrets', secretNames', editorOdd')
      <4>1. CallPlace(d, disk, secrets, secretNames, editorOdd) /\ Meet(c, d, editorOdd)
        BY <1>1 DEF EditorInv, CallsPlace, Meetings
      <4> QED BY <1>1, <2>1, <4>1 DEF CallPlace, FileCall, SecretCall, Meet
    <3> QED BY <3>1 DEF CallsPlace
  <2>4. Meetings'
    BY <1>1, <2>1 DEF EditorInv, Meetings
  <2>5. EditorTypes' /\ DetailPlace' /\ ListPlace'
    BY <1>1, <2>1, <2>2 DEF EditorInv, EditorTypes, DetailPlace, ListPlace
  <2> QED BY <1>3, <2>3, <2>4, <2>5 DEF EditorInv
<1>5. CASE SecretFound(c) \/ SecretSet(c)
  <2>1. secretNames' = secretNames /\ c.kind # "names"
    BY <1>5 DEF SecretFound, SecretSet, Answered
  <2>2. CallsPlace' /\ Meetings'
    BY <1>1, <2>1, CallsGone DEF EditorInv
  <2>3. ListPlace'
    BY <1>1, <2>1, <1>5 DEF EditorInv, ListPlace, SecretFound, SecretSet, Answered
  <2>4. CASE SecretSet(c)
    <3>1. detail' = [selected |-> Nothing, value |-> Nothing, shown |-> FALSE]
      BY <2>4 DEF SecretSet, NoDetail
    <3>2. EditorTypes' /\ DetailPlace'
      BY <1>1, <3>1 DEF EditorInv, EditorTypes, DetailPlace
    <3> QED BY <1>3, <2>2, <2>3, <3>2 DEF EditorInv
  <2>5. CASE SecretFound(c)
    <3>1. /\ c.kind = "show" /\ editorOdd' = editorOdd \union ({detail.selected} \ {c.of})
          /\ detail' = IF c.val = Nothing THEN detail
                       ELSE [detail EXCEPT !.value = c.val, !.shown = TRUE]
      BY <2>5 DEF SecretFound, Answered
    <3>2. c.of \in editorOdd \/ c.val \in {c.of, Nothing}
      BY <1>1, <1>2, <3>1 DEF CallPlace, SecretCall
    <3>3. CASE c.val = Nothing
      BY <1>1, <1>3, <2>2, <2>3, <3>1, <3>3, DetailKept DEF EditorInv, EditorTypes
    <3>4. CASE c.val # Nothing
      <4>1. detail' = [selected |-> detail.selected, value |-> c.val, shown |-> TRUE]
        BY <3>1, <3>4 DEF EditorInv, EditorTypes
      <4>2. EditorTypes' /\ DetailPlace'
        BY <1>1, <3>1, <3>2, <3>4, <4>1 DEF EditorInv, EditorTypes, DetailPlace
      <4> QED BY <1>3, <2>2, <2>3, <4>2 DEF EditorInv
    <3> QED BY <3>3, <3>4
  <2> QED BY <1>5, <2>4, <2>5
<1> QED BY <1>4, <1>5

\* The list is loaded again after a secret was added or deleted.
LEMMA EditorNamesChanged ==
  ASSUME EditorNames, EditorInv, NEW c \in editorCalls, NamesChanged(c)
  PROVE  EditorInv'
<1>1. PICK n : n = EditorCall("names", Vault, Nothing)
  OBVIOUS
<1>2. /\ n = [id |-> editorMade + 1, kind |-> "names", of |-> Vault, val |-> Nothing, done |-> FALSE]
      /\ n.kind = "names" /\ n.of = Vault /\ n.done = FALSE /\ IsCall(n)
  BY <1>1 DEF EditorCall, IsCall
<1>3. /\ c.kind \in {"add", "delete"} /\ editorCalls' = (editorCalls \ {c}) \union {n}
      /\ isLoading' = TRUE
      /\ editorOdd' = editorOdd \union {v \in {Vault} : \E d \in editorCalls \ {c} : d.kind \in {"set", "add", "delete"}}
      /\ UNCHANGED <<disk, selected, text, hasEdited, isSaving, secrets, secretNames>>
  BY <1>1 DEF NamesChanged, Answered, MadeAfter, Changes
<1>4. detail' = detail \/ detail' = [selected |-> Nothing, value |-> Nothing, shown |-> FALSE]
  BY DEF NamesChanged, NoDetail
<1>5. CallsPlace' /\ Meetings'
  <2>1. CallPlace(n, disk, secrets, secretNames, editorOdd')
    BY <1>2 DEF CallPlace, FileCall, SecretCall
  <2>2. \A d \in editorCalls \ {c} : Meet(d, n, editorOdd') /\ Meet(n, d, editorOdd')
    BY <1>2, <1>3 DEF Meet
  <2>3. Meet(n, n, editorOdd')
    BY <1>2 DEF Meet
  <2>4. editorCalls \ {c} \subseteq editorCalls /\ editorOdd \subseteq editorOdd'
    BY <1>3
  <2> QED BY <2>1, <2>2, <2>3, <2>4, <1>3, CallMade DEF EditorInv
<1>6. EditorTypes' /\ DetailPlace'
  BY <1>3, <1>4 DEF EditorInv, EditorTypes, DetailPlace
<1>7. Flags' /\ OwnContents'
  BY <1>2, <1>3, ContentsKept DEF EditorInv, Flags
<1>8. TextPlace' /\ ListPlace'
  BY <1>2, <1>3 DEF EditorInv, TextPlace, ListPlace
<1> QED BY <1>5, <1>6, <1>7, <1>8 DEF EditorInv

\* A call that fails marks what it may leave behind.
LEMMA EditorFails ==
  ASSUME EditorNames, EditorInv, NEW c \in editorCalls, EditorCallFails(c)
  PROVE  EditorInv'
<1>1. /\ editorCalls' = editorCalls \ {c}
      /\ editorOdd \subseteq editorOdd'
      /\ c.kind \in {"read", "reread"} => text' = NoText /\ selected \in editorOdd'
      /\ c.kind \notin {"read", "reread"} => text' = text
      /\ c.kind \in {"write", "settings"} /\ c.done => c.of \in editorOdd'
      /\ (c.kind \in {"set", "add", "delete"} /\ c.done) \/ c.kind = "names" => Vault \in editorOdd'
      /\ UNCHANGED <<disk, selected, hasEdited, secrets, secretNames, detail>>
  BY DEF EditorCallFails, Reads, Writes, Changes, vault
<1>2. /\ isLoading' \in BOOLEAN /\ (isLoading' => isLoading /\ c.kind \in {"write", "settings"})
      /\ isSaving' \in BOOLEAN /\ (isSaving' => isSaving /\ c.kind \notin {"write", "settings", "reread"})
  BY Zenon DEF EditorCallFails, Writes
<1>3. IsText(text')
  BY <1>1 DEF EditorInv, EditorTypes, NoText, Text, IsText
<1>4. CallsPlace' /\ Meetings'
  BY <1>1, CallsGone DEF EditorInv
<1>5. EditorTypes' /\ Flags' /\ DetailPlace' /\ OwnContents'
  BY <1>1, <1>2, <1>3, ContentsKept, DetailKept DEF EditorInv, EditorTypes, Flags
<1>6. TextPlace' /\ ListPlace'
  BY <1>1 DEF EditorInv, TextPlace, ListPlace
<1> QED BY <1>4, <1>5, <1>6 DEF EditorInv

\* The backend takes a call: its answer is what is there, what it writes is there.
LEMMA EditorServed ==
  ASSUME EditorNames, EditorInv, NEW c \in editorCalls, Serve(c)
  PROVE  EditorInv'
<1>1. PICK found : found = Found(c)
  OBVIOUS
<1>2. PICK n : n = [c EXCEPT !.done = TRUE, !.val = found]
  OBVIOUS
<1>3. CallPlace(c, disk, secrets, secretNames, editorOdd) /\ ~c.done
  BY DEF EditorInv, CallsPlace, Serve
<1>4. /\ n = [id |-> c.id, kind |-> c.kind, of |-> c.of, val |-> found, done |-> TRUE]
      /\ n.kind = c.kind /\ n.of = c.of /\ n.val = found /\ n.done = TRUE /\ IsCall(n)
  BY <1>2, <1>3 DEF CallPlace, IsCall
<1>5. /\ editorCalls' = (editorCalls \ {c}) \union {n}
      /\ UNCHANGED <<selected, text, hasEdited, isLoading, isSaving, secretNames, detail, editorOdd>>
  BY <1>1, <1>2 DEF Serve
<1>6. /\ c.kind = "write" => disk' = [disk EXCEPT ![c.of] = c.val]
      /\ c.kind = "settings" => disk' = [disk EXCEPT ![c.of].n = c.val.n]
      /\ c.kind \notin {"write", "settings"} => disk' = disk
  BY DEF Serve
<1>7. /\ c.kind \in {"set", "add", "delete"} => secrets' = [secrets EXCEPT ![c.of] = c.val]
      /\ c.kind \notin {"set", "add", "delete"} => secrets' = secrets
  BY DEF Serve, Changes
<1>8. /\ c.kind \in {"read", "reread"} => found = disk[c.of]
      /\ c.kind = "names" => found = Real(secrets)
      /\ c.kind = "show" => found = secrets[c.of]
      /\ c.kind \in {"write", "settings", "set", "add", "delete"} => found = c.val
  BY <1>1 DEF Found, Reads, Real
<1>9. /\ \A f \in Files : f # c.of \/ c.kind \notin {"write", "settings"} => disk'[f] = disk[f]
      /\ \A f \in Files : IsText(disk'[f]) /\ (f \notin editorOdd => disk'[f].of = f)
      /\ c.kind = "write" => disk'[c.of] = c.val
      /\ DOMAIN disk' = Files
  <2>1. DOMAIN disk = Files /\ (\A f \in Files : IsText(disk[f])) /\ \A f \in Files \ editorOdd : disk[f].of = f
    BY DEF EditorInv, EditorTypes, OwnContents
  <2>2. CASE c.kind = "write"
    <3>1. c.of \in Files /\ IsText(c.val) /\ (c.of \in editorOdd \/ c.val.of = c.of)
      BY <1>3, <2>2 DEF CallPlace, FileCall
    <3> QED BY <1>6, <2>1, <2>2, <3>1
  <2>3. CASE c.kind = "settings"
    <3>1. c.of \in Files
      BY <1>3, <2>3 DEF CallPlace, FileCall
    <3>2. disk' = [disk EXCEPT ![c.of].n = c.val.n]
      BY <1>6, <2>3
    <3>3. disk'[c.of] = [of |-> disk[c.of].of, n |-> c.val.n]
      BY <2>1, <3>1, <3>2 DEF IsText
    <3>4. DOMAIN disk' = Files /\ \A f \in Files : f # c.of => disk'[f] = disk[f]
      BY <2>1, <3>1, <3>2
    <3> QED BY <2>1, <2>3, <3>1, <3>3, <3>4 DEF IsText
  <2>4. CASE c.kind \notin {"write", "settings"}
    BY <1>6, <2>1, <2>4
  <2> QED BY <2>2, <2>3, <2>4
<1>10. /\ DOMAIN secrets' = Names /\ \A s \in Names \ editorOdd : secrets'[s] \in {s, Nothing}
       /\ \A s \in Names : s # c.of \/ c.kind \notin {"set", "add", "delete"} => secrets'[s] = secrets[s]
       /\ c.kind \in {"set", "add", "delete"} => c.of \in Names /\ secrets'[c.of] = c.val
  BY <1>3, <1>7 DEF EditorInv, EditorTypes, OwnContents, CallPlace, SecretCall
<1>11. EditorTypes' /\ OwnContents' /\ DetailPlace'
  BY <1>5, <1>9, <1>10 DEF EditorInv, EditorTypes, OwnContents, DetailPlace
<1>12. Meetings'
  <2> SUFFICES ASSUME NEW x \in editorCalls', NEW y \in editorCalls' PROVE Meet(x, y, editorOdd)
    BY <1>5 DEF Meetings
  <2>1. PICK x0 \in editorCalls : x0.kind = x.kind /\ x0.of = x.of /\ (x = n => x0 = c) /\ (x # n => x0 = x)
    BY <1>4, <1>5
  <2>2. PICK y0 \in editorCalls : y0.kind = y.kind /\ y0.of = y.of /\ (y = n => y0 = c) /\ (y # n => y0 = y)
    BY <1>4, <1>5
  <2>3. x # y => x0 # y0 \/ x0 = c
    BY <2>1, <2>2
  <2>4. Meet(x0, y0, editorOdd)
    BY DEF EditorInv, Meetings
  <2>5. x # y => x0 # y0
    BY <1>5, <2>1, <2>2
  <2> QED BY <2>1, <2>2, <2>4, <2>5 DEF Meet
<1>13. CallsPlace'
  <2>1. CallPlace(n, disk', secrets', secretNames', editorOdd')
    <3>1. IsCall(n) /\ n.kind \in {"read", "reread", "write", "settings", "set", "add", "delete", "names", "show"}
      BY <1>3, <1>4 DEF CallPlace
    <3>2. FileCall(n, disk', editorOdd)
      BY <1>3, <1>4, <1>8, <1>9 DEF CallPlace, FileCall
    <3>3. SecretCall(n, secrets', secretNames, editorOdd)
      BY <1>3, <1>4, <1>7, <1>8, <1>10 DEF CallPlace, SecretCall, EditorInv, OwnContents
    <3> QED BY <1>5, <3>1, <3>2, <3>3 DEF CallPlace
  <2>2. ASSUME NEW d \in editorCalls, d # c PROVE CallPlace(d, disk', secrets', secretNames', editorOdd')
    <3>1. CallPlace(d, disk, secrets, secretNames, editorOdd) /\ Meet(d, c, editorOdd) /\ Meet(c, d, editorOdd)
      BY DEF EditorInv, CallsPlace, Meetings
    <3>2. FileCall(d, disk', editorOdd)
      BY <1>9, <2>2, <3>1 DEF CallPlace, FileCall, Meet
    <3>3. SecretCall(d, secrets', secretNames, editorOdd)
      BY <1>7, <3>1 DEF CallPlace, SecretCall, Meet
    <3> QED BY <1>5, <3>1, <3>2, <3>3 DEF CallPlace
  <2> QED BY <1>5, <2>1, <2>2 DEF CallsPlace
<1>14. Flags'
  BY <1>4, <1>5 DEF EditorInv, Flags
<1>15. TextPlace'
  <2> SUFFICES ASSUME selected \in Files \ editorOdd, ~hasEdited, text # disk'[selected]
               PROVE  \E d \in editorCalls' : \/ d.kind \in {"read", "reread"}
                                              \/ d.kind \in {"write", "settings"} /\ d.of = selected /\ d.done
    BY <1>5 DEF EditorInv, TextPlace
  <2>1. CASE disk'[selected] = disk[selected]
    BY <1>3, <1>4, <1>5, <2>1 DEF EditorInv, TextPlace
  <2>2. CASE disk'[selected] # disk[selected]
    BY <1>4, <1>5, <1>9, <2>2
  <2> QED BY <2>1, <2>2
<1>16. ListPlace'
  <2> SUFFICES ASSUME selected = Vault, Vault \notin editorOdd, secretNames # Real(secrets')
               PROVE  \E d \in editorCalls' : d.kind = "names" \/ (d.kind \in {"add", "delete"} /\ d.done)
    BY <1>5 DEF ListPlace
  <2>1. CASE secretNames # Real(secrets)
    BY <1>3, <1>4, <1>5, <2>1 DEF EditorInv, ListPlace
  <2>2. CASE secretNames = Real(secrets)
    <3>1. secrets' # secrets
      BY <2>2
    <3>2. c.kind \in {"set", "add", "delete"}
      BY <1>7, <3>1
    <3>3. c.kind # "set"
      <4> SUFFICES ASSUME c.kind = "set" PROVE Real(secrets') = Real(secrets)
        BY <2>2
      <4>1. c.of \in Real(secrets) /\ c.of \in Names /\ c.val # Nothing
        BY <1>3, <2>2 DEF CallPlace, SecretCall
      <4> QED BY <1>10, <4>1 DEF Real
    <3> QED BY <1>4, <1>5, <3>2, <3>3
  <2> QED BY <2>1, <2>2
<1> QED BY <1>11, <1>12, <1>13, <1>14, <1>15, <1>16 DEF EditorInv

LEMMA EditorInvNext == EditorNames /\ EditorInv /\ [EditorNext]_editorVars => EditorInv'
<1> SUFFICES ASSUME EditorNames, EditorInv, [EditorNext]_editorVars PROVE EditorInv'
  OBVIOUS
<1>1. CASE Edit \/ saveFile \/ saveJsonObject \/ setConfigValues
  BY <1>1, EditorTyped, EditorWrites
<1>2. CASE \E f \in Files : loadFile(f)
  BY <1>2, EditorLoads
<1>3. CASE loadSecrets
  BY <1>3, EditorListsSecrets
<1>4. CASE closeSecretView \/ \E s \in Names : viewSecret(s)
  BY <1>4, EditorViews
<1>5. CASE \/ showSecret \/ saveSecret \/ deleteSecret
           \/ \E s \in Names : addNewSecret(s)
  BY <1>5, EditorRequests
<1>6. ASSUME NEW c \in editorCalls,
             \/ FileRead(c) \/ FileWritten(c) \/ SettingsSet(c)
             \/ NamesFound(c) \/ SecretFound(c) \/ SecretSet(c)
             \/ NamesChanged(c) \/ Serve(c) \/ EditorCallFails(c)
      PROVE  EditorInv'
  BY <1>6, EditorRead, EditorWritten, EditorSettingsSet, EditorSecretEnds, EditorNamesChanged,
     EditorServed, EditorFails
<1>7. CASE UNCHANGED editorVars
  BY <1>7 DEF editorVars, EditorInv, EditorTypes, CallsPlace, Meetings, Flags, TextPlace, ListPlace,
              DetailPlace, OwnContents
<1> QED BY <1>1, <1>2, <1>3, <1>4, <1>5, <1>6, <1>7 DEF EditorNext

-----------------------------------------------------------------------------
(* Theorems. *)

\* No file gets a text that was made from another one and no secret another one's
\* value, unless it is marked; when all calls have ended nothing says that it loads
\* or saves and an unedited text is the file's, the list the secrets' (loadFile,
\* saveFile, setConfigValues, refreshSecrets and the others of waveconfig-model.ts).
THEOREM EditorAgreesAlways ==
  EditorSpec => []EditorAgrees
<1>1. EditorInv => AtRestAgrees
  BY DEF EditorInv, Flags, TextPlace, ListPlace, Real, AtRestAgrees
<1>2. EditorInv => OwnContents
  BY DEF EditorInv
<1>3. EditorInit => EditorInv
  BY EditorAssumption, EditorInvInit
<1>4. EditorInv /\ [EditorNext]_editorVars => EditorInv'
  BY EditorAssumption, EditorInvNext
<1> QED BY <1>1, <1>2, <1>3, <1>4, PTL DEF EditorSpec, EditorAgrees

-----------------------------------------------------------------------------
(* The page's copies of objects. *)

Val == [version : Nat, content : Nat]
StoreEntry == [value : Val, loading : BOOLEAN, pending : Nat]
StoreUpdate == [type : {"update", "delete", "read"}, o : Objects, val : Val]
StoreCall == [id : Nat, kind : {"fetch", "reload", "change", "push"}, o : Objects, base : Nat, val : Val,
              ans : {Unanswered} \union [type : {"value", "update"}, val : Val]]

StoreTypes ==
  /\ db \in [Objects -> Val] /\ cache \in [Objects -> StoreEntry \union {None}]
  /\ publishing \subseteq StoreUpdate /\ events \in Seq(StoreUpdate)
  /\ storeCalls \subseteq StoreCall
  /\ writes \in Nat /\ storeMade \in Nat

\* What is about one object o, so that the invariant can be stated and kept object
\* by object: d is its value in the database, e its entry in the cache, pub and ev
\* what is published and on its way of it, cs the calls.
PubOf(o) == {u \in publishing : u.o = o}
InSeq(s, o) == {s[i] : i \in {j \in 1 .. Len(s) : s[j].o = o}}
EvOf(o) == InSeq(events, o)
CallsOf(o) == {c \in storeCalls : c.o = o}

Typed(d, e, pub, ev, cs, w, m) ==
  /\ d \in Val /\ e \in StoreEntry \union {None} /\ pub \subseteq StoreUpdate /\ ev \subseteq StoreUpdate
  /\ cs \subseteq StoreCall /\ w \in Nat /\ m \in Nat
  /\ \A u \in ev : u.type # "read"
  /\ \A u \in pub \union ev : u.type = "delete" => u.val = [version |-> 0, content |-> 0]

Gone(d) == d = [version |-> 0, content |-> 0]

\* The values on their way.
Underway(v, pub, ev, cs) ==
  \/ \E u \in pub \union ev : u.type = "update" /\ u.val = v
  \/ \E c \in cs : c.ans.type # "none" /\ c.ans.val = v

Pushes(cs) == {c \in cs : c.kind = "push"}

\* Contents are numbered, versions grow: what is on its way of an object that
\* exists is not newer than the object.
Named(e, cs, m) ==
  /\ \A c, x \in cs : c.id = x.id => c = x
  /\ \A c \in cs : c.id <= m
  /\ e # None => e.pending <= m

Answers(cs) ==
  \A c \in cs : /\ c.ans.type = "value" => c.kind \in {"fetch", "reload"}
                /\ c.ans.type = "update" => c.kind = "change"

StoreWrites(d, e, cs, w) ==
  /\ d.content <= w
  /\ e # None => e.value.content <= w
  /\ e = None => \A c \in cs : c.kind = "change"
  /\ \A p \in Pushes(cs) : p.base < p.val.content /\ p.val.content <= w

Numbered(d, e, cs, w, m) ==
  /\ Named(e, cs, m) /\ Answers(cs) /\ StoreWrites(d, e, cs, w)
  /\ d.version = 0 => d.content = 0

Written(pub, ev, cs, w) == \A v \in Val : Underway(v, pub, ev, cs) => v.content <= w

NotNewer(d, e, pub, ev, cs) ==
  ~Gone(d) =>
    /\ \A v \in Val : Underway(v, pub, ev, cs) =>
         ~Gone(v) /\ v.version <= d.version /\ (v.version = d.version => v = d)
    /\ e # None => e.value.version <= d.version
    /\ \A u \in pub \union ev : u.type # "delete"

\* Something on its way brings the page what the database has.
Carried(d, e, pub, ev, cs) ==
  \/ \E u \in pub \union ev : u.type = "update" /\ u.val = d
  \/ \E u \in pub : u.type = "read"
  \/ \E c \in cs : c.kind = "fetch" /\ c.id = e.pending /\ (c.ans.type = "none" \/ c.ans.val = d)
  \/ \E c \in cs : c.ans.type = "update" /\ c.ans.val = d

\* The page has it, and nothing that is on its way takes it from the page.
Settled(d, e, pub, ev, cs) ==
  /\ ~e.loading /\ e.value.content = d.content
  /\ \A v \in Val : Underway(v, pub, ev, cs) => v.version <= e.value.version \/ v = d

\* Local writes on their way follow each other from the database's content to the
\* page's; if one does not, it will mark the object.
Doomed(d, cs) == \E p \in Pushes(cs) : p.base < d.content
Chained(d, e, cs) ==
  /\ \A p, q \in Pushes(cs) : p.base = q.base => p = q
  /\ \A p \in Pushes(cs) : p.val.content <= e.value.content
  /\ d.content = e.value.content \/ \E q \in Pushes(cs) : q.base = d.content
  /\ \A p \in Pushes(cs) : p.val.content = e.value.content \/ \E q \in Pushes(cs) : q.base = p.val.content

LivePlace(d, e, pub, ev, cs) ==
  /\ e.loading <=> Gone(e.value)
  /\ Pushes(cs) = {} => /\ Settled(d, e, pub, ev, cs) \/ Carried(d, e, pub, ev, cs)
                        /\ e.value.version = d.version => e.value.content = d.content
  /\ Pushes(cs) # {} => \/ Doomed(d, cs)
                        \/ /\ Chained(d, e, cs) /\ pub = {} /\ ev = {}
                           /\ \A c \in cs : c.ans.type # "update" /\ c.kind # "fetch"

\* A deleted object is gone from the page or will be.
GonePlace(e, pub, ev, cs) ==
  \/ Gone(e.value) /\ ~e.loading
  \/ \E u \in pub \union ev : u.type = "delete"
  \/ \E c \in cs : c.kind = "fetch" /\ c.id = e.pending /\ (c.ans.type = "none" \/ Gone(c.ans.val))

CopyPlace(d, e, pub, ev, cs) ==
  IF Gone(d) THEN GonePlace(e, pub, ev, cs) ELSE LivePlace(d, e, pub, ev, cs)

Kept(d, e, pub, ev, cs, w, m) ==
  /\ Typed(d, e, pub, ev, cs, w, m) /\ Numbered(d, e, cs, w, m)
  /\ NotNewer(d, e, pub, ev, cs) /\ Written(pub, ev, cs, w)

StoreInv ==
  /\ StoreTypes
  /\ \A o \in Objects :
       /\ Kept(db[o], cache[o], PubOf(o), EvOf(o), CallsOf(o), writes, storeMade)
       /\ o \notin storeOdd /\ cache[o] # None => CopyPlace(db[o], cache[o], PubOf(o), EvOf(o), CallsOf(o))

LEMMA StoreInvInit == StoreInit => StoreInv
<1> SUFFICES ASSUME StoreInit PROVE StoreInv
  OBVIOUS
<1> USE DEF StoreInit
<1>1. StoreTypes
  BY DEF StoreTypes, Val
<1>2. ASSUME NEW o \in Objects
      PROVE  /\ Kept(db[o], cache[o], PubOf(o), EvOf(o), CallsOf(o), writes, storeMade) /\ cache[o] = None
  <2>1. PubOf(o) = {} /\ EvOf(o) = {} /\ CallsOf(o) = {}
    BY DEF PubOf, EvOf, InSeq, CallsOf
  <2>2. db[o] = [version |-> 1, content |-> 0] /\ cache[o] = None
    OBVIOUS
  <2> QED BY <2>1, <2>2 DEF Kept, Typed, Numbered, Named, Answers, StoreWrites, NotNewer, Written,
                          Val, Gone, Pushes, Underway
<1> QED BY <1>1, <1>2 DEF StoreInv

LEMMA InAppended ==
  ASSUME NEW s \in Seq(StoreUpdate), NEW u \in StoreUpdate, NEW o
  PROVE  InSeq(Append(s, u), o) = InSeq(s, o) \union {x \in {u} : x.o = o}
<1>1. PICK t : t = Append(s, u)
  OBVIOUS
<1>2. /\ Len(t) = Len(s) + 1 /\ t[Len(s) + 1] = u /\ Len(s) \in Nat
      /\ \A i \in 1 .. Len(s) : t[i] = s[i]
  BY <1>1, AppendProperties, LenProperties
<1>3. \A i \in 1 .. Len(t) : i \in 1 .. Len(s) \/ i = Len(s) + 1
  BY <1>2
<1>4. 1 .. Len(s) \subseteq 1 .. Len(t) /\ Len(s) + 1 \in 1 .. Len(t)
  BY <1>2
<1>5. InSeq(t, o) \subseteq InSeq(s, o) \union {x \in {u} : x.o = o}
  BY <1>2, <1>3 DEF InSeq
<1>6. InSeq(s, o) \union {x \in {u} : x.o = o} \subseteq InSeq(t, o)
  BY <1>2, <1>4 DEF InSeq
<1> QED BY <1>1, <1>5, <1>6

LEMMA InTail ==
  ASSUME NEW s \in Seq(StoreUpdate), s # <<>>, NEW o
  PROVE  InSeq(s, o) = InSeq(Tail(s), o) \union {x \in {Head(s)} : x.o = o}
<1>1. PICK t : t = Tail(s)
  OBVIOUS
<1>2. /\ Len(s) \in Nat /\ Len(s) > 0 /\ Len(t) = Len(s) - 1 /\ Head(s) = s[1]
      /\ \A i \in 1 .. Len(t) : t[i] = s[i + 1]
  BY <1>1, HeadTailProperties, LenProperties, EmptySeq
<1>3. \A i \in 1 .. Len(s) : i = 1 \/ (i - 1 \in 1 .. Len(t) /\ t[i - 1] = s[i])
  BY <1>2
<1>4. \A i \in 1 .. Len(t) : i + 1 \in 1 .. Len(s)
  BY <1>2
<1>5. InSeq(s, o) \subseteq InSeq(t, o) \union {x \in {Head(s)} : x.o = o}
  BY <1>2, <1>3 DEF InSeq
<1>6. InSeq(t, o) \union {x \in {Head(s)} : x.o = o} \subseteq InSeq(s, o)
  BY <1>2, <1>4 DEF InSeq
<1> QED BY <1>1, <1>5, <1>6

\* Numbers only grow, which keeps what is said of the other objects.
LEMMA KeptLater ==
  ASSUME NEW d, NEW e, NEW pub, NEW ev, NEW cs, NEW w, NEW m, NEW w2 \in Nat, NEW m2 \in Nat,
         w <= w2, m <= m2, Kept(d, e, pub, ev, cs, w, m)
  PROVE  Kept(d, e, pub, ev, cs, w2, m2)
<1>1. \A c \in cs : c.id \in Nat /\ c.val.content \in Nat
  BY DEF Kept, Typed, StoreCall, Val
<1>2. d.content \in Nat /\ (e # None => e.value.content \in Nat /\ e.pending \in Nat)
  BY DEF Kept, Typed, StoreEntry, Val
<1>3. w \in Nat /\ m \in Nat
  BY DEF Kept, Typed
<1>4. Typed(d, e, pub, ev, cs, w2, m2) /\ NotNewer(d, e, pub, ev, cs)
  BY DEF Kept, Typed
<1>5. Numbered(d, e, cs, w2, m2)
  BY <1>1, <1>2, <1>3 DEF Kept, Numbered, Named, StoreWrites, Pushes
<1>6. Written(pub, ev, cs, w2)
  BY <1>3 DEF Kept, Written, Val
<1> QED BY <1>4, <1>5, <1>6 DEF Kept

\* A step concerns one object, or none.
LEMMA StoreStep ==
  ASSUME StoreInv, NEW o \in Objects, StoreTypes', writes <= writes', storeMade <= storeMade', storeOdd \subseteq storeOdd',
         \A q \in Objects : q # o => /\ db'[q] = db[q] /\ cache'[q] = cache[q]
                                     /\ PubOf(q)' = PubOf(q) /\ EvOf(q)' = EvOf(q)
                                     /\ CallsOf(q)' = CallsOf(q),
         Kept(db'[o], cache'[o], PubOf(o)', EvOf(o)', CallsOf(o)', writes', storeMade'),
         o \notin storeOdd' /\ cache'[o] # None =>
           CopyPlace(db'[o], cache'[o], PubOf(o)', EvOf(o)', CallsOf(o)')
  PROVE  StoreInv'
<1>1. writes' \in Nat /\ storeMade' \in Nat
  BY DEF StoreTypes
<1>2. ASSUME NEW q \in Objects, q # o
      PROVE  /\ Kept(db'[q], cache'[q], PubOf(q)', EvOf(q)', CallsOf(q)', writes', storeMade')
             /\ q \notin storeOdd' /\ cache'[q] # None =>
                  CopyPlace(db'[q], cache'[q], PubOf(q)', EvOf(q)', CallsOf(q)')
  <2>1. Kept(db[q], cache[q], PubOf(q), EvOf(q), CallsOf(q), writes, storeMade)
    BY DEF StoreInv
  <2>2. Kept(db[q], cache[q], PubOf(q), EvOf(q), CallsOf(q), writes', storeMade')
    BY <1>1, <2>1, KeptLater
  <2> QED BY <1>2, <2>2 DEF StoreInv
<1> QED BY <1>2 DEF StoreInv

LEMMA ElementTypes ==
  /\ \A u \in StoreUpdate : u.type \in {"update", "delete", "read"} /\ u.val \in Val
  /\ \A v \in Val : v.version \in Nat /\ v.content \in Nat /\ v = [version |-> v.version, content |-> v.content]
  /\ \A c \in StoreCall : /\ c.id \in Nat /\ c.kind \in {"fetch", "reload", "change", "push"}
                          /\ c.base \in Nat /\ c.val \in Val
                          /\ c.ans.type \in {"none", "value", "update"}
                          /\ c.ans.type # "none" => c.ans.val \in Val
                          /\ c.ans = Unanswered <=> c.ans.type = "none"
  /\ \A e \in StoreEntry : e.value \in Val /\ e.loading \in BOOLEAN /\ e.pending \in Nat
BY DEF StoreUpdate, Val, StoreCall, StoreEntry, Unanswered

LEMMA NewId ==
  ASSUME NEW d, NEW e, NEW pub, NEW ev, NEW cs, NEW w, NEW m, Kept(d, e, pub, ev, cs, w, m),
         NEW c \in StoreCall, c.id = m + 1, c.ans.type = "none"
  PROVE  Named(e, cs \union {c}, m + 1) /\ Answers(cs \union {c}) /\ c \notin cs /\ m \in Nat
<1>1. m \in Nat /\ (\A x \in cs : x.id \in Nat /\ x.id <= m) /\ \A x, y \in cs : x.id = y.id => x = y
  BY ElementTypes DEF Kept, Typed, Numbered, Named
<1>2. e # None => e.pending \in Nat /\ e.pending <= m
  BY ElementTypes DEF Kept, Typed, Numbered, Named
<1>3. Answers(cs \union {c})
  BY DEF Answers, Kept, Numbered
<1> QED BY <1>1, <1>2, <1>3 DEF Named

\* A call that is made takes nothing from what is on its way.
LEMMA CallPlaced ==
  ASSUME NEW d, NEW e, NEW pub, NEW ev, NEW cs, NEW w, NEW m, Kept(d, e, pub, ev, cs, w, m),
         NEW c \in StoreCall, c.id = m + 1, c.ans.type = "none", c.kind \in {"reload", "change"},
         e # None \/ c.kind = "change"
  PROVE  /\ Kept(d, e, pub, ev, cs \union {c}, w, m + 1)
         /\ CopyPlace(d, e, pub, ev, cs) => CopyPlace(d, e, pub, ev, cs \union {c})
<1>1. Pushes(cs \union {c}) = Pushes(cs)
  BY DEF Pushes
<1>2. \A v : Underway(v, pub, ev, cs \union {c}) <=> Underway(v, pub, ev, cs)
  BY DEF Underway
<1>3. Kept(d, e, pub, ev, cs \union {c}, w, m + 1)
  <2>1. Typed(d, e, pub, ev, cs \union {c}, w, m + 1)
    BY DEF Kept, Typed
  <2>2. Numbered(d, e, cs \union {c}, w, m + 1)
    <3>1. Named(e, cs \union {c}, m + 1) /\ Answers(cs \union {c})
      BY NewId
    <3> QED BY <1>1, <3>1 DEF Kept, Numbered, StoreWrites
  <2>3. NotNewer(d, e, pub, ev, cs \union {c})
    BY <1>2 DEF Kept, NotNewer
  <2>4. Written(pub, ev, cs \union {c}, w)
    BY <1>2 DEF Kept, Written
  <2> QED BY <2>1, <2>2, <2>3, <2>4 DEF Kept
<1>4. ASSUME CopyPlace(d, e, pub, ev, cs) PROVE CopyPlace(d, e, pub, ev, cs \union {c})
  <2>1. CASE Gone(d)
    BY <1>4, <2>1 DEF CopyPlace, GonePlace
  <2>2. CASE ~Gone(d)
    <3>1. LivePlace(d, e, pub, ev, cs)
      BY <1>4, <2>2 DEF CopyPlace
    <3>2. Settled(d, e, pub, ev, cs) => Settled(d, e, pub, ev, cs \union {c})
      BY <1>2 DEF Settled
    <3>3. Carried(d, e, pub, ev, cs) => Carried(d, e, pub, ev, cs \union {c})
      BY DEF Carried
    <3>4. LivePlace(d, e, pub, ev, cs \union {c})
      BY <1>1, <3>1, <3>2, <3>3 DEF LivePlace, Doomed, Chained
    <3> QED BY <2>2, <3>4 DEF CopyPlace
  <2> QED BY <2>1, <2>2
<1> QED BY <1>3, <1>4

\* The first fetch of an object carries what the database has.
LEMMA Wanted ==
  ASSUME NEW d, NEW pub, NEW ev, NEW cs, NEW w, NEW m, Kept(d, None, pub, ev, cs, w, m),
         NEW c \in StoreCall, c.id = m + 1, c.ans.type = "none", c.kind = "fetch",
         NEW e, e = [value |-> [version |-> 0, content |-> 0], loading |-> TRUE, pending |-> m + 1],
         e # None
  PROVE  /\ Kept(d, e, pub, ev, cs \union {c}, w, m + 1)
         /\ CopyPlace(d, e, pub, ev, cs \union {c})
         /\ Pushes(cs \union {c}) = {}
<1>1. Pushes(cs \union {c}) = {} /\ Pushes(cs) = {}
  BY DEF Pushes, Kept, Numbered, StoreWrites
<1>2. \A v : Underway(v, pub, ev, cs \union {c}) <=> Underway(v, pub, ev, cs)
  BY DEF Underway
<1>3. e \in StoreEntry /\ Gone(e.value) /\ e.value.version = 0 /\ e.value.content = 0
  BY DEF StoreEntry, Val, Gone, Kept, Typed
<1>4. Kept(d, e, pub, ev, cs \union {c}, w, m + 1)
  <2>1. Typed(d, e, pub, ev, cs \union {c}, w, m + 1)
    BY <1>3 DEF Kept, Typed
  <2>2. Numbered(d, e, cs \union {c}, w, m + 1)
    <3>1. w \in Nat /\ m \in Nat /\ e.pending = m + 1
      BY DEF Kept, Typed
    <3>2. Named(None, cs \union {c}, m + 1) /\ Answers(cs \union {c})
      BY NewId
    <3>3. Named(e, cs \union {c}, m + 1)
      BY <3>1, <3>2 DEF Named
    <3>4. d.content <= w /\ e.value.content <= w
      BY <1>3, <3>1 DEF Kept, Numbered, StoreWrites
    <3>6. StoreWrites(d, e, cs \union {c}, w)
      BY <1>1, <3>4 DEF StoreWrites
    <3> QED BY <3>2, <3>3, <3>6 DEF Kept, Numbered
  <2>3. NotNewer(d, e, pub, ev, cs \union {c})
    <3>1. d.version \in Nat
      BY ElementTypes DEF Kept, Typed
    <3>2. e.value.version <= d.version
      BY <1>3, <3>1
    <3> QED BY <1>2, <3>2 DEF Kept, NotNewer
  <2>4. Written(pub, ev, cs \union {c}, w)
    BY <1>2 DEF Kept, Written
  <2> QED BY <2>1, <2>2, <2>3, <2>4 DEF Kept
<1>5. d.version \in Nat /\ (d.version = 0 => Gone(d))
  BY ElementTypes DEF Kept, Typed, Numbered, Gone, Val
<1>6. CopyPlace(d, e, pub, ev, cs \union {c})
  BY <1>1, <1>3, <1>5 DEF CopyPlace, GonePlace, LivePlace, Carried
<1> QED BY <1>1, <1>4, <1>6

\* A call that ends or fails without effect.
LEMMA CallDropped ==
  ASSUME NEW d, NEW e, NEW pub, NEW ev, NEW cs, NEW w, NEW m, Kept(d, e, pub, ev, cs, w, m), NEW c \in cs
  PROVE  /\ Kept(d, e, pub, ev, cs \ {c}, w, m)
         /\ CopyPlace(d, e, pub, ev, cs) /\ c.kind # "push" /\ c.ans.type # "update"
            /\ (c.kind = "fetch" => e.pending # c.id)
              => CopyPlace(d, e, pub, ev, cs \ {c})
<1>1. Pushes(cs \ {c}) \subseteq Pushes(cs) /\ (c.kind # "push" => Pushes(cs \ {c}) = Pushes(cs))
  BY DEF Pushes
<1>2. \A v : Underway(v, pub, ev, cs \ {c}) => Underway(v, pub, ev, cs)
  BY DEF Underway
<1>3. Kept(d, e, pub, ev, cs \ {c}, w, m)
  <2>1. Typed(d, e, pub, ev, cs \ {c}, w, m)
    BY DEF Kept, Typed
  <2>2. Numbered(d, e, cs \ {c}, w, m)
    BY <1>1 DEF Kept, Numbered, Named, Answers, StoreWrites
  <2>3. NotNewer(d, e, pub, ev, cs \ {c})
    BY <1>2 DEF Kept, NotNewer
  <2>4. Written(pub, ev, cs \ {c}, w)
    BY <1>2 DEF Kept, Written
  <2> QED BY <2>1, <2>2, <2>3, <2>4 DEF Kept
<1>4. ASSUME CopyPlace(d, e, pub, ev, cs), c.kind # "push", c.ans.type # "update",
             c.kind = "fetch" => e.pending # c.id
      PROVE  CopyPlace(d, e, pub, ev, cs \ {c})
  <2>1. CASE Gone(d)
    BY <1>4, <2>1 DEF CopyPlace, GonePlace
  <2>2. CASE ~Gone(d)
    <3>1. LivePlace(d, e, pub, ev, cs)
      BY <1>4, <2>2 DEF CopyPlace
    <3>2. Settled(d, e, pub, ev, cs) => Settled(d, e, pub, ev, cs \ {c})
      BY <1>2 DEF Settled
    <3>3. Carried(d, e, pub, ev, cs) => Carried(d, e, pub, ev, cs \ {c})
      BY <1>4 DEF Carried
    <3>4. LivePlace(d, e, pub, ev, cs \ {c})
      BY <1>1, <1>4, <3>1, <3>2, <3>3 DEF LivePlace, Doomed, Chained
    <3> QED BY <2>2, <3>4 DEF CopyPlace
  <2> QED BY <2>1, <2>2
<1> QED BY <1>3, <1>4

\* A local write follows the one before, or writes over what the database has.
LEMMA LocallyWritten ==
  ASSUME NEW d, NEW e \in StoreEntry, NEW cs, NEW w, NEW m, NEW pub, NEW ev,
         Kept(d, e, pub, ev, cs, w, m), ~Gone(e.value),
         NEW v, v = [version |-> e.value.version, content |-> w + 1],
         NEW c \in StoreCall, c.id = m + 1, c.ans.type = "none", c.kind = "push",
         c.base = e.value.content, c.val = v,
         NEW e2 \in StoreEntry, e2.value = v, e2.loading = FALSE, e2.pending = e.pending,
         e # None, e2 # None
  PROVE  /\ Kept(d, e2, pub, ev, cs \union {c}, w + 1, m + 1)
         /\ CopyPlace(d, e, pub, ev, cs) /\ pub = {} /\ ev = {} /\ Pushes(cs) = cs
              => CopyPlace(d, e2, pub, ev, cs \union {c})
<1>1. /\ Pushes(cs \union {c}) = Pushes(cs) \union {c} /\ c \notin cs
      /\ \A p \in Pushes(cs) : p \in cs
  BY ElementTypes DEF Pushes, Kept, Numbered, Named, Typed
<1>2. \A x : Underway(x, pub, ev, cs \union {c}) <=> Underway(x, pub, ev, cs)
  BY DEF Underway
<1>3. /\ v.version = e.value.version /\ v.content = w + 1 /\ w \in Nat /\ m \in Nat /\ v \in Val
      /\ e.value.content \in Nat /\ e.value.version \in Nat /\ e.value.content <= w
      /\ d.content \in Nat /\ d.version \in Nat /\ d \in Val /\ ~Gone(v)
  BY ElementTypes DEF Kept, Typed, Numbered, StoreWrites, Val, Gone
<1>4. Kept(d, e2, pub, ev, cs \union {c}, w + 1, m + 1)
  <2>1. Typed(d, e2, pub, ev, cs \union {c}, w + 1, m + 1)
    BY <1>3 DEF Kept, Typed
  <2>2. Numbered(d, e2, cs \union {c}, w + 1, m + 1)
    <3>1. Named(e, cs \union {c}, m + 1) /\ Answers(cs \union {c})
      BY NewId
    <3>2. Named(e2, cs \union {c}, m + 1)
      BY <3>1 DEF Named
    <3>3. \A x \in Pushes(cs) : x.val.content \in Nat /\ x.val.content <= w /\ x.base < x.val.content
      BY <1>1, ElementTypes DEF Kept, Typed, Numbered, StoreWrites
    <3>4. \A p \in Pushes(cs \union {c}) : p.base < p.val.content /\ p.val.content <= w + 1
      BY <1>1, <1>3, <3>3
    <3>5. d.content <= w
      BY DEF Kept, Numbered, StoreWrites
    <3>6. d.content <= w + 1 /\ e2.value.content <= w + 1
      BY <1>3, <3>5
    <3>7. StoreWrites(d, e2, cs \union {c}, w + 1)
      BY <3>4, <3>6 DEF StoreWrites
    <3> QED BY <3>1, <3>2, <3>7 DEF Kept, Numbered
  <2>3. NotNewer(d, e2, pub, ev, cs \union {c})
    BY <1>2, <1>3 DEF Kept, NotNewer
  <2>4. Written(pub, ev, cs \union {c}, w + 1)
    <3>1. \A x \in Val : x.content <= w => x.content <= w + 1
      BY <1>3 DEF Val
    <3> QED BY <1>2, <3>1 DEF Kept, Written
  <2> QED BY <2>1, <2>2, <2>3, <2>4 DEF Kept
<1>5. ASSUME CopyPlace(d, e, pub, ev, cs), pub = {}, ev = {}, Pushes(cs) = cs
      PROVE  CopyPlace(d, e2, pub, ev, cs \union {c})
  <2>1. \A x \in cs : x.kind = "push" /\ x.ans.type = "none"
    BY <1>5, ElementTypes DEF Pushes, Kept, Typed, Numbered, Answers
  <2>2. ~Gone(d) /\ LivePlace(d, e, pub, ev, cs)
    BY <1>5, <2>1 DEF CopyPlace, GonePlace
  <2>3. Doomed(d, cs) => Doomed(d, cs \union {c})
    BY <1>1 DEF Doomed
  <2>4. Doomed(d, cs) \/ Chained(d, e2, cs \union {c})
    <3>1. CASE Pushes(cs) = {}
      <4>1. ~Carried(d, e, pub, ev, cs)
        BY <1>5, <2>1 DEF Carried
      <4>2. d.content = e.value.content
        BY <2>2, <3>1, <4>1 DEF LivePlace, Settled
      <4>3. Pushes(cs \union {c}) = {c} /\ c.val.content = e2.value.content /\ c.base = d.content
            /\ e2.value.content = w + 1
        BY <1>1, <1>3, <3>1, <4>2
      <4>4. /\ \A p \in {c} : p.val.content <= e2.value.content /\ p.val.content = e2.value.content
            /\ \E q \in {c} : q.base = d.content
            /\ \A p, q \in {c} : p.base = q.base => p = q
        BY <1>3, <4>3
      <4> QED BY <4>3, <4>4, Zenon DEF Chained
    <3>2. CASE Pushes(cs) # {} /\ ~Doomed(d, cs)
      <4>1. Chained(d, e, cs)
        BY <2>2, <3>2 DEF LivePlace
      <4>2. \A p \in Pushes(cs) : /\ p.base \in Nat /\ p.val.content \in Nat /\ p.base < p.val.content
                                  /\ p.val.content <= e.value.content
        BY <4>1, ElementTypes DEF Kept, Typed, Numbered, StoreWrites, Pushes, Chained
      <4>3. \A p \in Pushes(cs) : p.base # c.base /\ p.val.content <= e2.value.content
        BY <1>3, <4>2
      <4>4. PICK ps : ps = Pushes(cs)
        OBVIOUS
      <4>5. Pushes(cs \union {c}) = ps \union {c} /\ c.val.content = e2.value.content
            /\ c.base = e.value.content
        BY <1>1, <4>4
      <4>6. /\ \A p, q \in ps : p.base = q.base => p = q
            /\ d.content = e.value.content \/ \E q \in ps : q.base = d.content
            /\ \A p \in ps : p.val.content = e.value.content \/ \E q \in ps : q.base = p.val.content
            /\ \A p \in ps : p.base # c.base /\ p.val.content <= e2.value.content
        BY <4>1, <4>3, <4>4 DEF Chained
      <4>7. \A p, q \in ps \union {c} : p.base = q.base => p = q
        BY <4>6
      <4>8. \A p \in ps \union {c} : p.val.content <= e2.value.content
        BY <1>3, <4>5, <4>6
      <4>9. d.content = e2.value.content \/ \E q \in ps \union {c} : q.base = d.content
        BY <4>5, <4>6
      <4>10. \A p \in ps \union {c} : \/ p.val.content = e2.value.content
                                     \/ \E q \in ps \union {c} : q.base = p.val.content
        BY <4>5, <4>6
      <4> QED BY <4>5, <4>7, <4>8, <4>9, <4>10 DEF Chained
    <3> QED BY <3>1, <3>2
  <2>5. LivePlace(d, e2, pub, ev, cs \union {c})
    BY <1>1, <1>3, <1>5, <2>1, <2>3, <2>4 DEF LivePlace
  <2> QED BY <2>2, <2>5 DEF CopyPlace
<1> QED BY <1>4, <1>5

\* A call whose answer is there.
LEMMA CallReplaced ==
  ASSUME NEW d, NEW e, NEW pub, NEW ev, NEW cs, NEW w, NEW m, Kept(d, e, pub, ev, cs, w, m),
         NEW c \in cs, c.kind # "push", NEW c2 \in StoreCall, c2.id = c.id, c2.kind = c.kind,
         c2.ans.type = "value" => c.kind \in {"fetch", "reload"},
         c2.ans.type = "update" => c.kind = "change",
         NEW cs2, cs2 = (cs \ {c}) \union {c2}
  PROVE  /\ cs2 \subseteq StoreCall /\ Pushes(cs2) = Pushes(cs) /\ Named(e, cs2, m) /\ Answers(cs2)
         /\ e = None => \A x \in cs2 : x.kind = "change"
<1>1. cs \subseteq StoreCall
  BY DEF Kept, Typed
<1>2. Pushes(cs2) = Pushes(cs)
  BY DEF Pushes
<1>3. Named(e, cs2, m)
  BY DEF Kept, Numbered, Named
<1>4. Answers(cs2)
  BY DEF Kept, Numbered, Answers
<1>5. e = None => \A x \in cs2 : x.kind = "change"
  BY DEF Kept, Numbered, StoreWrites
<1> QED BY <1>1, <1>2, <1>3, <1>4, <1>5

\* A new content of an object is on its way to the page, or will be read.
LEMMA ContentChanged ==
  ASSUME NEW d, NEW e, NEW pub, NEW ev, NEW cs, NEW w, NEW m, Kept(d, e, pub, ev, cs, w, m), ~Gone(d),
         NEW d2, d2 = [version |-> d.version + 1, content |-> w + 1],
         NEW pub2 \in SUBSET StoreUpdate, NEW cs2 \in SUBSET StoreCall, pub \subseteq pub2,
         \A u \in pub2 \ pub : u.type = "read" \/ (u.type = "update" /\ u.val = d2),
         \A v : Underway(v, pub2, ev, cs2) => v = d2 \/ Underway(v, pub, ev, cs),
         Pushes(cs2) = Pushes(cs), Named(e, cs2, m), Answers(cs2),
         e = None => \A x \in cs2 : x.kind = "change",
         Carried(d2, e, pub2, ev, cs2)
  PROVE  /\ Kept(d2, e, pub2, ev, cs2, w + 1, m)
         /\ e # None /\ CopyPlace(d, e, pub, ev, cs) => CopyPlace(d2, e, pub2, ev, cs2)
<1>1. /\ d.version \in Nat /\ w \in Nat /\ d2.version = d.version + 1 /\ d2.content = w + 1
      /\ d2 \in Val /\ ~Gone(d2) /\ m \in Nat
  BY ElementTypes DEF Kept, Typed, Val, Gone
<1>2. e # None => /\ e.value.version \in Nat /\ e.value.version <= d.version
                  /\ e.value.content \in Nat /\ e.value.content <= w
  BY ElementTypes DEF Kept, Typed, NotNewer, Numbered, StoreWrites
<1>3. \A p \in Pushes(cs) : /\ p.base \in Nat /\ p.val.content \in Nat
                            /\ p.base < p.val.content /\ p.val.content <= w
  BY ElementTypes DEF Kept, Typed, Numbered, StoreWrites, Pushes
<1>4. Typed(d2, e, pub2, ev, cs2, w + 1, m)
  BY <1>1 DEF Kept, Typed
<1>5. Numbered(d2, e, cs2, w + 1, m)
  <2>1. \A p \in Pushes(cs) : p.base < p.val.content /\ p.val.content <= w + 1
    BY <1>1, <1>3
  <2>2. d2.content <= w + 1 /\ (e # None => e.value.content <= w + 1)
    BY <1>1, <1>2
  <2>3. StoreWrites(d2, e, cs2, w + 1)
    BY <2>1, <2>2 DEF StoreWrites
  <2>4. d2.version # 0
    BY <1>1
  <2> QED BY <2>3, <2>4 DEF Numbered
<1>6. NotNewer(d2, e, pub2, ev, cs2)
  <2>1. \A v \in Val : Underway(v, pub, ev, cs) => ~Gone(v) /\ v.version < d2.version
    BY <1>1, ElementTypes DEF Kept, NotNewer
  <2>2. \A v \in Val : Underway(v, pub2, ev, cs2) =>
           ~Gone(v) /\ v.version <= d2.version /\ (v.version = d2.version => v = d2)
    BY <1>1, <2>1, ElementTypes
  <2>3. e # None => e.value.version <= d2.version
    BY <1>1, <1>2
  <2>4. \A u \in pub2 \union ev : u.type # "delete"
    BY DEF Kept, NotNewer
  <2> QED BY <2>2, <2>3, <2>4 DEF NotNewer
<1>7. Written(pub2, ev, cs2, w + 1)
  <2>1. \A v \in Val : Underway(v, pub, ev, cs) => v.content <= w + 1
    BY <1>1, ElementTypes DEF Kept, Written
  <2> QED BY <1>1, <2>1 DEF Written
<1>8. ASSUME e # None, CopyPlace(d, e, pub, ev, cs) PROVE CopyPlace(d2, e, pub2, ev, cs2)
  <2>1. LivePlace(d, e, pub, ev, cs)
    BY <1>8 DEF CopyPlace
  <2>2. e.value.version # d2.version
    BY <1>1, <1>2, <1>8
  <2>3. \A p \in Pushes(cs) : p.base < d2.content
    BY <1>1, <1>3
  <2>4. LivePlace(d2, e, pub2, ev, cs2)
    BY <2>1, <2>2, <2>3 DEF LivePlace, Doomed
  <2> QED BY <1>1, <2>4 DEF CopyPlace
<1> QED BY <1>4, <1>5, <1>6, <1>7, <1>8 DEF Kept

\* What a fetch finds is what the database has.
LEMMA FoundInCache ==
  ASSUME NEW d, NEW e, NEW pub, NEW ev, NEW cs, NEW w, NEW m, Kept(d, e, pub, ev, cs, w, m),
         NEW c \in cs, c.kind \in {"fetch", "reload"}, c.ans.type = "none",
         NEW c2 \in StoreCall, c2.id = c.id, c2.kind = c.kind, c2.ans.type = "value", c2.ans.val = d,
         NEW cs2, cs2 = (cs \ {c}) \union {c2}
  PROVE  /\ Kept(d, e, pub, ev, cs2, w, m)
         /\ CopyPlace(d, e, pub, ev, cs) => CopyPlace(d, e, pub, ev, cs2)
<1>1. /\ cs2 \subseteq StoreCall /\ Pushes(cs2) = Pushes(cs) /\ Named(e, cs2, m) /\ Answers(cs2)
      /\ e = None => \A x \in cs2 : x.kind = "change"
  BY CallReplaced
<1>2. \A v : Underway(v, pub, ev, cs2) => v = d \/ Underway(v, pub, ev, cs)
  BY DEF Underway
<1>3. Kept(d, e, pub, ev, cs2, w, m)
  <2>1. Typed(d, e, pub, ev, cs2, w, m)
    BY <1>1 DEF Kept, Typed
  <2>2. StoreWrites(d, e, cs2, w)
    BY <1>1 DEF Kept, Numbered, StoreWrites
  <2>3. NotNewer(d, e, pub, ev, cs2)
    <3>1. d.version \in Nat /\ d.version <= d.version
      BY ElementTypes DEF Kept, Typed
    <3>2. ASSUME ~Gone(d), NEW v \in Val, Underway(v, pub, ev, cs2)
          PROVE  ~Gone(v) /\ v.version <= d.version /\ (v.version = d.version => v = d)
      <4>1. CASE v = d
        BY <3>1, <3>2, <4>1
      <4>2. CASE Underway(v, pub, ev, cs)
        BY <3>2, <4>2 DEF Kept, NotNewer
      <4> QED BY <1>2, <3>2, <4>1, <4>2
    <3> QED BY <3>2 DEF Kept, NotNewer
  <2>4. Written(pub, ev, cs2, w)
    BY <1>2 DEF Kept, Written, Numbered, StoreWrites
  <2> QED BY <1>1, <2>1, <2>2, <2>3, <2>4 DEF Kept, Numbered
<1>4. ASSUME CopyPlace(d, e, pub, ev, cs) PROVE CopyPlace(d, e, pub, ev, cs2)
  <2>1. CASE Gone(d)
    <3>1. GonePlace(e, pub, ev, cs)
      BY <1>4, <2>1 DEF CopyPlace
    <3>2. GonePlace(e, pub, ev, cs2)
      BY <2>1, <3>1 DEF GonePlace
    <3> QED BY <2>1, <3>2 DEF CopyPlace
  <2>2. CASE ~Gone(d)
    <3>1. LivePlace(d, e, pub, ev, cs)
      BY <1>4, <2>2 DEF CopyPlace
    <3>2. Settled(d, e, pub, ev, cs) => Settled(d, e, pub, ev, cs2)
      BY <1>2 DEF Settled
    <3>3. Carried(d, e, pub, ev, cs) => Carried(d, e, pub, ev, cs2)
      BY DEF Carried
    <3>4. LivePlace(d, e, pub, ev, cs2)
      BY <1>1, <3>1, <3>2, <3>3 DEF LivePlace, Doomed, Chained
    <3> QED BY <2>2, <3>4 DEF CopyPlace
  <2> QED BY <2>1, <2>2
<1> QED BY <1>3, <1>4

\* What is read again is what the database has then.
LEMMA ReadLater ==
  ASSUME NEW d, NEW e, NEW pub, NEW ev, NEW cs, NEW w, NEW m, Kept(d, e, pub, ev, cs, w, m),
         NEW u \in pub, u.type = "read", NEW u2 \in StoreUpdate, u2.type = "update", u2.val = d,
         NEW pub2, pub2 = (pub \ {u}) \union (IF Gone(d) THEN {} ELSE {u2})
  PROVE  /\ Kept(d, e, pub2, ev, cs, w, m)
         /\ CopyPlace(d, e, pub, ev, cs) => CopyPlace(d, e, pub2, ev, cs)
<1>1. \A v : Underway(v, pub2, ev, cs) => (v = d /\ ~Gone(d)) \/ Underway(v, pub, ev, cs)
  BY DEF Underway
<1>2. \A x \in pub2 \union ev : x \in pub \union ev \/ x = u2
  OBVIOUS
<1>3. Kept(d, e, pub2, ev, cs, w, m)
  <2>1. Typed(d, e, pub2, ev, cs, w, m)
    BY <1>2 DEF Kept, Typed
  <2>2. NotNewer(d, e, pub2, ev, cs)
    <3>1. d.version \in Nat
      BY ElementTypes DEF Kept, Typed
    <3> QED BY <1>1, <1>2, <3>1 DEF Kept, NotNewer
  <2>3. Written(pub2, ev, cs, w)
    BY <1>1 DEF Kept, Written, Numbered, StoreWrites
  <2> QED BY <2>1, <2>2, <2>3 DEF Kept
<1>4. ASSUME CopyPlace(d, e, pub, ev, cs) PROVE CopyPlace(d, e, pub2, ev, cs)
  <2>1. CASE Gone(d)
    <3>1. GonePlace(e, pub, ev, cs)
      BY <1>4, <2>1 DEF CopyPlace
    <3>2. GonePlace(e, pub2, ev, cs)
      BY <3>1 DEF GonePlace
    <3> QED BY <2>1, <3>2 DEF CopyPlace
  <2>2. CASE ~Gone(d)
    <3>1. LivePlace(d, e, pub, ev, cs)
      BY <1>4, <2>2 DEF CopyPlace
    <3>2. Settled(d, e, pub, ev, cs) => Settled(d, e, pub2, ev, cs)
      BY <1>1 DEF Settled
    <3>3. u2 \in pub2
      BY <2>2
    <3>4. Carried(d, e, pub2, ev, cs)
      BY <3>3 DEF Carried
    <3>5. LivePlace(d, e, pub2, ev, cs)
      BY <3>1, <3>4 DEF LivePlace
    <3> QED BY <2>2, <3>5 DEF CopyPlace
  <2> QED BY <2>1, <2>2
<1> QED BY <1>3, <1>4

LEMMA Vanished ==
  ASSUME NEW d, NEW e, NEW pub, NEW ev, NEW cs, NEW w, NEW m, Kept(d, e, pub, ev, cs, w, m),
         NEW d2, d2 = [version |-> 0, content |-> 0],
         NEW u \in StoreUpdate, u.type = "delete", u.val = d2
  PROVE  /\ Kept(d2, e, pub \union {u}, ev, cs, w, m)
         /\ CopyPlace(d2, e, pub \union {u}, ev, cs)
<1>1. d2 \in Val /\ Gone(d2) /\ w \in Nat
  BY DEF Val, Gone, Kept, Typed
<1>2. \A v : Underway(v, pub \union {u}, ev, cs) => Underway(v, pub, ev, cs)
  BY DEF Underway
<1>3. Typed(d2, e, pub \union {u}, ev, cs, w, m)
  BY <1>1 DEF Kept, Typed
<1>4. Numbered(d2, e, cs, w, m)
  BY <1>1 DEF Kept, Numbered, StoreWrites
<1>5. Written(pub \union {u}, ev, cs, w)
  BY <1>2 DEF Kept, Written
<1>6. NotNewer(d2, e, pub \union {u}, ev, cs) /\ CopyPlace(d2, e, pub \union {u}, ev, cs)
  BY <1>1 DEF NotNewer, CopyPlace, GonePlace
<1> QED BY <1>3, <1>4, <1>5, <1>6 DEF Kept

\* What is published goes to the page, or to nobody.
LEMMA Told ==
  ASSUME NEW d, NEW e, NEW pub, NEW ev, NEW cs, NEW w, NEW m, Kept(d, e, pub, ev, cs, w, m),
         NEW u \in pub, u.type # "read", NEW ev2, ev \subseteq ev2, ev2 \subseteq ev \union {u}
  PROVE  /\ Kept(d, e, pub \ {u}, ev2, cs, w, m)
         /\ CopyPlace(d, e, pub, ev, cs) /\ u \in ev2 => CopyPlace(d, e, pub \ {u}, ev2, cs)
<1>1. \A v : Underway(v, pub \ {u}, ev2, cs) => Underway(v, pub, ev, cs)
  BY DEF Underway
<1>2. Kept(d, e, pub \ {u}, ev2, cs, w, m)
  <2>1. Typed(d, e, pub \ {u}, ev2, cs, w, m)
    BY DEF Kept, Typed
  <2>2. NotNewer(d, e, pub \ {u}, ev2, cs)
    BY <1>1 DEF Kept, NotNewer
  <2>3. Written(pub \ {u}, ev2, cs, w)
    BY <1>1 DEF Kept, Written
  <2> QED BY <2>1, <2>2, <2>3 DEF Kept
<1>3. ASSUME CopyPlace(d, e, pub, ev, cs), u \in ev2 PROVE CopyPlace(d, e, pub \ {u}, ev2, cs)
  <2>0. pub \union ev = (pub \ {u}) \union ev2
    BY <1>3
  <2>1. CASE Gone(d)
    BY <1>3, <2>0, <2>1 DEF CopyPlace, GonePlace
  <2>2. CASE ~Gone(d)
    <3>1. LivePlace(d, e, pub, ev, cs)
      BY <1>3, <2>2 DEF CopyPlace
    <3>2. Settled(d, e, pub, ev, cs) => Settled(d, e, pub \ {u}, ev2, cs)
      BY <1>1 DEF Settled
    <3>3. Carried(d, e, pub, ev, cs) => Carried(d, e, pub \ {u}, ev2, cs)
      BY <2>0 DEF Carried
    <3>4. LivePlace(d, e, pub \ {u}, ev2, cs)
      BY <3>1, <3>2, <3>3 DEF LivePlace
    <3> QED BY <2>2, <3>4 DEF CopyPlace
  <2> QED BY <2>1, <2>2
<1> QED BY <1>2, <1>3

\* A page that has what the database has keeps it, whatever is on its way.
LEMMA HasIt ==
  ASSUME NEW d, NEW e, NEW pub, NEW ev, NEW cs, NotNewer(d, e, pub, ev, cs), ~Gone(d),
         ~e.loading, e.value.content = d.content, e.value.version = d.version
  PROVE  Settled(d, e, pub, ev, cs)
BY DEF Settled, NotNewer

\* A value stored that was on its way.
LEMMA StoredKept ==
  ASSUME NEW d, NEW e, NEW pub, NEW ev, NEW cs, NEW w, NEW m, Kept(d, e, pub, ev, cs, w, m),
         NEW v \in Val, Underway(v, pub, ev, cs) \/ v = e.value \/ (Gone(v) /\ Gone(d)), e # None,
         NEW e2 \in StoreEntry, e2 # None, e2.value = v, e2.pending \in {0, e.pending},
         NEW ev2 \in SUBSET ev, NEW cs2 \in SUBSET cs
  PROVE  Kept(d, e2, pub, ev2, cs2, w, m)
<1>1. \A x : Underway(x, pub, ev2, cs2) => Underway(x, pub, ev, cs)
  BY DEF Underway
<1>2. w \in Nat /\ m \in Nat /\ d.version \in Nat /\ e.pending \in Nat /\ e.pending <= m
      /\ e.value.version \in Nat
  BY ElementTypes DEF Kept, Typed, Numbered, Named
<1>3. v.content <= w
  BY <1>2 DEF Kept, Written, Numbered, StoreWrites, Gone
<1>4. ~Gone(d) => v.version <= d.version
  BY DEF Kept, NotNewer
<1>5. Typed(d, e2, pub, ev2, cs2, w, m)
  BY DEF Kept, Typed
<1>6. Numbered(d, e2, cs2, w, m)
  <2>1. e2.pending <= m
    BY <1>2
  <2>2. Named(e2, cs2, m)
    BY <2>1 DEF Kept, Numbered, Named
  <2>3. StoreWrites(d, e2, cs2, w)
    BY <1>3 DEF Kept, Numbered, StoreWrites, Pushes
  <2> QED BY <2>2, <2>3 DEF Kept, Numbered, Answers
<1>7. NotNewer(d, e2, pub, ev2, cs2)
  BY <1>1, <1>4 DEF Kept, NotNewer
<1>8. Written(pub, ev2, cs2, w)
  BY <1>1 DEF Kept, Written
<1> QED BY <1>5, <1>6, <1>7, <1>8 DEF Kept

\* An update that gets to the page, as an event or in an answer, is stored unless
\* what is stored is not older.
LEMMA UpdateStored ==
  ASSUME NEW d, NEW e \in StoreEntry, NEW pub, NEW ev, NEW cs, NEW w, NEW m,
         Kept(d, e, pub, ev, cs, w, m), e # None,
         NEW v \in Val, Underway(v, pub, ev, cs),
         NEW e2 \in StoreEntry, e2 # None, e2.pending = e.pending,
         \/ ~Gone(e.value) /\ e.value.version >= v.version /\ e2 = e
         \/ (Gone(e.value) \/ ~(e.value.version >= v.version)) /\ e2.value = v /\ ~e2.loading,
         NEW ev2 \in SUBSET ev, NEW cs2 \in SUBSET cs,
         \A u \in ev \ ev2 : u.type = "update" /\ u.val = v,
         \A c \in cs \ cs2 : c.ans.type = "update" /\ c.ans.val = v
  PROVE  /\ Kept(d, e2, pub, ev2, cs2, w, m)
         /\ CopyPlace(d, e, pub, ev, cs) /\ ~(Gone(e.value) /\ ~e.loading)
            /\ (Pushes(cs) = {} \/ cs2 # cs)
              => CopyPlace(d, e2, pub, ev2, cs2)
<1>1. Kept(d, e2, pub, ev2, cs2, w, m)
  <2>1. CASE e2 = e
    <3>1. e.value \in Val /\ e.value = e.value
      BY ElementTypes
    <3> QED BY <2>1, <3>1, StoredKept
  <2>2. CASE e2.value = v
    BY <2>2, StoredKept
  <2> QED BY <2>1, <2>2
<1>2. Pushes(cs2) = Pushes(cs)
  BY DEF Pushes, Kept, Numbered, Answers
<1>3. \A x : Underway(x, pub, ev2, cs2) => Underway(x, pub, ev, cs)
  BY DEF Underway
<1>4. ASSUME CopyPlace(d, e, pub, ev, cs), ~(Gone(e.value) /\ ~e.loading),
             Pushes(cs) = {} \/ cs2 # cs
      PROVE  CopyPlace(d, e2, pub, ev2, cs2)
  <2>1. CASE Gone(d)
    <3>1. GonePlace(e, pub, ev, cs)
      BY <1>4, <2>1 DEF CopyPlace
    <3>2. \A c \in cs : c.kind = "fetch" => c \in cs2
      BY DEF Kept, Numbered, Answers
    <3>3. GonePlace(e2, pub, ev2, cs2)
      BY <1>4, <3>1, <3>2 DEF GonePlace
    <3> QED BY <2>1, <3>3 DEF CopyPlace
  <2>2. CASE ~Gone(d)
    <3>1. LivePlace(d, e, pub, ev, cs)
      BY <1>4, <2>2 DEF CopyPlace
    <3>2. ~Gone(v) /\ v.version <= d.version /\ (v.version = d.version => v = d)
          /\ v.version \in Nat /\ d.version \in Nat /\ e.value.version \in Nat
          /\ e.value.version <= d.version
      BY <2>2, ElementTypes DEF Kept, Typed, NotNewer
    <3>3. e2.loading <=> Gone(e2.value)
      BY <3>1, <3>2 DEF LivePlace
    <3>4. ASSUME Pushes(cs) = {}
          PROVE  /\ Settled(d, e2, pub, ev2, cs2) \/ Carried(d, e2, pub, ev2, cs2)
                 /\ e2.value.version = d.version => e2.value.content = d.content
      <4>1. /\ Settled(d, e, pub, ev, cs) \/ Carried(d, e, pub, ev, cs)
            /\ e.value.version = d.version => e.value.content = d.content
        BY <3>1, <3>4 DEF LivePlace
      <4>2. e2.value.version = d.version => e2.value.content = d.content
        BY <3>2, <4>1
      <4>3. NotNewer(d, e2, pub, ev2, cs2)
        BY <1>1 DEF Kept
      <4>4. CASE v = d
        <5>1. ~e2.loading /\ e2.value.version = d.version
          BY <3>1, <3>2, <4>4 DEF LivePlace
        <5> QED BY <2>2, <4>2, <4>3, <5>1, HasIt
      <4>5. CASE v # d
        <5>1. Carried(d, e, pub, ev, cs) => Carried(d, e2, pub, ev2, cs2)
          <6>1. \A u \in ev : u.val = d => u \in ev2
            BY <4>5
          <6>2. \A c \in cs : c.kind = "fetch" \/ c.ans.val = d => c \in cs2
            BY <4>5 DEF Kept, Numbered, Answers
          <6> QED BY <6>1, <6>2 DEF Carried
        <5>2. Settled(d, e, pub, ev, cs) => Settled(d, e2, pub, ev2, cs2)
          <6>1. ASSUME Settled(d, e, pub, ev, cs)
                PROVE  Settled(d, e2, pub, ev2, cs2)
            <7>1. v.version <= e.value.version /\ ~e.loading
              BY <4>5, <6>1 DEF Settled
            <7>2. e2 = e
              BY <3>1, <3>2, <7>1 DEF LivePlace
            <7> QED BY <1>3, <6>1, <7>2 DEF Settled
          <6> QED BY <6>1
        <5> QED BY <4>1, <4>2, <5>1, <5>2
      <4> QED BY <4>2, <4>4, <4>5
    <3>5. ASSUME Pushes(cs) # {}
          PROVE  Doomed(d, cs2)
      <4>1. \E c \in cs : c.ans.type = "update"
        BY <1>4, <3>5
      <4> QED BY <1>2, <3>1, <3>5, <4>1 DEF LivePlace, Doomed
    <3>6. LivePlace(d, e2, pub, ev2, cs2)
      BY <1>2, <3>3, <3>4, <3>5 DEF LivePlace
    <3> QED BY <2>2, <3>6 DEF CopyPlace
  <2> QED BY <2>1, <2>2
<1> QED BY <1>1, <1>4

\* A deletion that gets to the page.
LEMMA DeletionStored ==
  ASSUME NEW d, NEW e \in StoreEntry, NEW pub, NEW ev, NEW cs, NEW w, NEW m,
         Kept(d, e, pub, ev, cs, w, m), e # None, NEW u \in ev, u.type = "delete",
         NEW e2 \in StoreEntry, e2 # None, e2.value = [version |-> 0, content |-> 0], ~e2.loading,
         e2.pending = e.pending, NEW ev2 \in SUBSET ev
  PROVE  Kept(d, e2, pub, ev2, cs, w, m) /\ CopyPlace(d, e2, pub, ev2, cs)
<1>1. Gone(d) /\ Gone(e2.value) /\ e2.value \in Val
  BY ElementTypes DEF Kept, NotNewer, Gone
<1>2. Kept(d, e2, pub, ev2, cs, w, m)
  BY <1>1, StoredKept
<1> QED BY <1>1, <1>2 DEF CopyPlace, GonePlace

\* The answer of a fetch is stored, if it is not overtaken.
LEMMA AnswerStored ==
  ASSUME NEW d, NEW e \in StoreEntry, NEW pub, NEW ev, NEW cs, NEW w, NEW m,
         Kept(d, e, pub, ev, cs, w, m), e # None, NEW c \in cs, c.ans.type = "value",
         c.kind = "reload" \/ e.pending = c.id,
         NEW e2 \in StoreEntry, e2 # None, e2.value = c.ans.val, ~e2.loading,
         e2.pending = IF c.kind = "fetch" THEN 0 ELSE e.pending
  PROVE  /\ Kept(d, e2, pub, ev, cs \ {c}, w, m)
         /\ CopyPlace(d, e, pub, ev, cs) /\ Pushes(cs) = {}
            /\ (~e.loading => /\ c.ans.val.version >= e.value.version
                              /\ c.ans.val.version = e.value.version => c.ans.val.content = e.value.content
                              /\ Gone(e.value) => Gone(c.ans.val))
              => CopyPlace(d, e2, pub, ev, cs \ {c})
<1>1. PICK v \in Val : v = c.ans.val
  BY ElementTypes DEF Kept, Typed
<1>2. Underway(v, pub, ev, cs) /\ c.kind \in {"fetch", "reload"}
  BY <1>1 DEF Underway, Kept, Numbered, Answers
<1>3. Kept(d, e2, pub, ev, cs \ {c}, w, m)
  BY <1>1, <1>2, StoredKept
<1>4. ASSUME CopyPlace(d, e, pub, ev, cs), Pushes(cs) = {},
             ~e.loading => /\ v.version >= e.value.version
                           /\ v.version = e.value.version => v.content = e.value.content
                           /\ Gone(e.value) => Gone(v)
      PROVE  CopyPlace(d, e2, pub, ev, cs \ {c})
  <2>0. /\ Pushes(cs \ {c}) = {}
        /\ \A x : Underway(x, pub, ev, cs \ {c}) => Underway(x, pub, ev, cs)
    BY <1>4 DEF Pushes, Underway
  <2>1. \A x \in cs : x.kind = "fetch" /\ x.id = e.pending => x = c \/ e2.pending = e.pending
    BY <1>2 DEF Kept, Numbered, Named
  <2>2. CASE Gone(d)
    <3>1. GonePlace(e, pub, ev, cs)
      BY <1>4, <2>2 DEF CopyPlace
    <3>2. GonePlace(e2, pub, ev, cs \ {c})
      BY <1>1, <1>2, <1>4, <2>1, <3>1 DEF GonePlace
    <3> QED BY <2>2, <3>2 DEF CopyPlace
  <2>3. CASE ~Gone(d)
    <3>1. LivePlace(d, e, pub, ev, cs)
      BY <1>4, <2>3 DEF CopyPlace
    <3>2. ~Gone(v) /\ v.version <= d.version /\ (v.version = d.version => v = d)
          /\ v.version \in Nat /\ d.version \in Nat /\ e.value.version \in Nat
          /\ e.value.version <= d.version
      BY <1>2, <2>3, ElementTypes DEF Kept, Typed, NotNewer
    <3>3. NotNewer(d, e2, pub, ev, cs \ {c}) /\ e2.value = v /\ ~e2.loading
      BY <1>1, <1>3 DEF Kept
    <3>4. v = d => Settled(d, e2, pub, ev, cs \ {c})
      BY <2>3, <3>3, HasIt
    <3>5. Settled(d, e, pub, ev, cs) => Settled(d, e2, pub, ev, cs \ {c})
      <4>1. ASSUME Settled(d, e, pub, ev, cs), v # d
            PROVE  Settled(d, e2, pub, ev, cs \ {c})
        <5>1. v.version <= e.value.version /\ v.version >= e.value.version
              /\ e.value.content = d.content
              /\ (v.version = e.value.version => v.content = e.value.content)
          BY <1>2, <1>4, <4>1 DEF Settled
        <5>2. v.version = e.value.version /\ v.content = d.content
          BY <3>2, <5>1
        <5> QED BY <2>0, <3>3, <4>1, <5>2 DEF Settled
      <4> QED BY <3>4, <4>1
    <3>6. Carried(d, e, pub, ev, cs) => v = d \/ Carried(d, e2, pub, ev, cs \ {c})
      BY <1>1, <2>1 DEF Carried
    <3>7. Settled(d, e2, pub, ev, cs \ {c}) \/ Carried(d, e2, pub, ev, cs \ {c})
      BY <1>4, <3>1, <3>4, <3>5, <3>6 DEF LivePlace
    <3>8. LivePlace(d, e2, pub, ev, cs \ {c})
      BY <2>0, <3>2, <3>3, <3>7 DEF LivePlace
    <3> QED BY <2>3, <3>8 DEF CopyPlace
  <2> QED BY <2>2, <2>3
<1> QED BY <1>1, <1>3, <1>4

\* A local write that the database takes.
LEMMA PushTaken ==
  ASSUME NEW d, NEW e, NEW pub, NEW ev, NEW cs, NEW w, NEW m, Kept(d, e, pub, ev, cs, w, m),
         NEW c \in cs, c.kind = "push",
         NEW d2, d2 = IF Gone(d) THEN d ELSE [version |-> d.version + 1, content |-> c.val.content]
  PROVE  /\ Kept(d2, e, pub, ev, cs \ {c}, w, m)
         /\ e # None /\ CopyPlace(d, e, pub, ev, cs)
            /\ d.content = c.base /\ (\A x \in cs : x.ans.type # "value")
              => CopyPlace(d2, e, pub, ev, cs \ {c})
<1>1. CASE Gone(d)
  <2>1. Kept(d, e, pub, ev, cs \ {c}, w, m) /\ d2 = d
    BY <1>1, CallDropped
  <2>2. GonePlace(e, pub, ev, cs) => GonePlace(e, pub, ev, cs \ {c})
    BY DEF GonePlace
  <2> QED BY <1>1, <2>1, <2>2 DEF CopyPlace
<1>2. CASE ~Gone(d)
  <2>1. /\ d.version \in Nat /\ d2.version = d.version + 1 /\ d2.content = c.val.content /\ w \in Nat
        /\ d2 \in Val /\ ~Gone(d2) /\ d.content \in Nat
    BY <1>2, ElementTypes DEF Kept, Typed, Val, Gone
  <2>2. /\ c.base \in Nat /\ c.val.content \in Nat /\ c.base < c.val.content /\ c.val.content <= w
        /\ c \in Pushes(cs) /\ Pushes(cs \ {c}) = Pushes(cs) \ {c} /\ c.ans.type = "none"
    BY ElementTypes DEF Kept, Typed, Numbered, StoreWrites, Pushes, Answers
  <2>3. \A v : Underway(v, pub, ev, cs \ {c}) => Underway(v, pub, ev, cs)
    BY DEF Underway
  <2>4. Kept(d2, e, pub, ev, cs \ {c}, w, m)
    <3>0. Kept(d, e, pub, ev, cs \ {c}, w, m)
      BY CallDropped
    <3>1. Typed(d2, e, pub, ev, cs \ {c}, w, m)
      BY <2>1, <3>0 DEF Kept, Typed
    <3>2. Numbered(d2, e, cs \ {c}, w, m)
      <4>1. d2.content <= w /\ d2.version # 0
        BY <2>1, <2>2
      <4>2. StoreWrites(d2, e, cs \ {c}, w)
        BY <3>0, <4>1 DEF Kept, Numbered, StoreWrites
      <4> QED BY <3>0, <4>1, <4>2 DEF Kept, Numbered
    <3>3. NotNewer(d2, e, pub, ev, cs \ {c})
      <4>1. \A v \in Val : Underway(v, pub, ev, cs) => ~Gone(v) /\ v.version < d2.version
        BY <1>2, <2>1, ElementTypes DEF Kept, NotNewer
      <4>2. \A v \in Val : Underway(v, pub, ev, cs \ {c}) =>
               ~Gone(v) /\ v.version <= d2.version /\ (v.version = d2.version => v = d2)
        BY <2>1, <2>3, <4>1, ElementTypes
      <4>3. e # None => e.value.version <= d2.version
        BY <1>2, <2>1, ElementTypes DEF Kept, Typed, NotNewer
      <4>4. \A u \in pub \union ev : u.type # "delete"
        BY <1>2 DEF Kept, NotNewer
      <4> QED BY <4>2, <4>3, <4>4 DEF NotNewer
    <3> QED BY <3>0, <3>1, <3>2, <3>3 DEF Kept
  <2>5. ASSUME e # None, CopyPlace(d, e, pub, ev, cs), d.content = c.base, \A x \in cs : x.ans.type # "value"
        PROVE  CopyPlace(d2, e, pub, ev, cs \ {c})
    <3>1. LivePlace(d, e, pub, ev, cs)
      BY <1>2, <2>5 DEF CopyPlace
    <3>2. \A p \in Pushes(cs) : /\ p.base \in Nat /\ p.val.content \in Nat
                                /\ p.base < p.val.content /\ p.val.content <= w
      BY ElementTypes DEF Kept, Typed, Numbered, StoreWrites, Pushes
    <3>3. CASE Doomed(d, cs)
      <4>1. PICK p \in Pushes(cs) : p.base < d.content
        BY <3>3 DEF Doomed
      <4>2. p \in Pushes(cs \ {c}) /\ p.base < d2.content
        <5>1. p # c
          BY <2>1, <2>5, <4>1
        <5>2. p.base < d2.content
          BY <2>1, <2>2, <2>5, <3>2, <4>1
        <5> QED BY <2>2, <5>1, <5>2
      <4>3. Doomed(d2, cs \ {c}) /\ Pushes(cs \ {c}) # {}
        BY <4>2 DEF Doomed
      <4>4. LivePlace(d2, e, pub, ev, cs \ {c})
        BY <3>1, <4>3 DEF LivePlace
      <4> QED BY <2>1, <4>4 DEF CopyPlace
    <3>4. CASE ~Doomed(d, cs)
      <4>1. /\ Chained(d, e, cs) /\ pub = {} /\ ev = {}
            /\ \A x \in cs : x.ans.type # "update" /\ x.kind # "fetch"
        BY <2>2, <3>1, <3>4 DEF LivePlace
      <4>2. \A v : ~Underway(v, pub, ev, cs \ {c})
        BY <2>5, <4>1, ElementTypes DEF Underway, Kept, Typed
      <4>3. c.val.content <= e.value.content /\ e.value.content \in Nat
        BY <2>2, <2>5, <4>1, ElementTypes DEF Chained, Kept, Typed
      <4>4. ~Gone(e.value) /\ ~e.loading
        BY <2>2, <3>1, <4>3 DEF Gone, LivePlace
      <4>5. c.val.content = e.value.content \/ \E q \in Pushes(cs) \ {c} : q.base = c.val.content
        BY <2>2, <4>1 DEF Chained
      <4>6. CASE Pushes(cs \ {c}) = {}
        <5>1. e.value.content = d2.content
          BY <2>1, <2>2, <4>5, <4>6
        <5>2. Settled(d2, e, pub, ev, cs \ {c})
          BY <4>2, <4>4, <5>1 DEF Settled
        <5>3. LivePlace(d2, e, pub, ev, cs \ {c})
          BY <4>4, <4>6, <5>1, <5>2 DEF LivePlace
        <5> QED BY <2>1, <5>3 DEF CopyPlace
      <4>7. CASE Pushes(cs \ {c}) # {}
        <5>1. PICK ps : ps = Pushes(cs)
          OBVIOUS
        <5>2. /\ \A p, q \in ps : p.base = q.base => p = q
              /\ \A p \in ps : p.val.content <= e.value.content
              /\ \A p \in ps : p.val.content = e.value.content \/ \E q \in ps : q.base = p.val.content
          BY <4>1, <5>1 DEF Chained
        <5>3. \A p \in ps : p.base >= d.content /\ p.base < p.val.content /\ p.base \in Nat
                            /\ p.val.content \in Nat
          BY <2>1, <3>2, <3>4, <5>1 DEF Doomed
        <5>4. \A p \in ps : p.val.content # c.base
          BY <2>1, <2>5, <5>3
        <5>5. \A p \in ps \ {c} : \/ p.val.content = e.value.content
                                  \/ \E q \in ps \ {c} : q.base = p.val.content
          BY <5>2, <5>4
        <5>6. d2.content = e.value.content \/ \E q \in ps \ {c} : q.base = d2.content
          BY <2>1, <4>5, <5>1
        <5>7. Chained(d2, e, cs \ {c})
          BY <2>2, <5>1, <5>2, <5>5, <5>6 DEF Chained
        <5>8. LivePlace(d2, e, pub, ev, cs \ {c})
          BY <3>1, <4>1, <4>7, <5>7 DEF LivePlace
        <5> QED BY <2>1, <5>8 DEF CopyPlace
      <4> QED BY <4>6, <4>7
    <3> QED BY <3>3, <3>4
  <2> QED BY <2>4, <2>5
<1> QED BY <1>1, <1>2

LEMMA StoreCallMade ==
  ASSUME StoreTypes, NEW k \in {"fetch", "reload", "change", "push"}, NEW o \in Objects,
         NEW b \in Nat, NEW v \in Val, NEW c, c = StoreRequest(k, o, b, v)
  PROVE  /\ c \in StoreCall /\ c.id = storeMade + 1 /\ c.kind = k /\ c.o = o /\ c.base = b /\ c.val = v
         /\ c.ans.type = "none"
BY DEF StoreTypes, StoreCall, StoreRequest, Unanswered

LEMMA StoreSame ==
  ASSUME StoreInv, UNCHANGED <<db, publishing, events, storeCalls, cache, writes, storeMade, storeOdd>>
  PROVE  StoreInv'
BY DEF StoreInv, StoreTypes, PubOf, EvOf, CallsOf

LEMMA NullIsVal == Null = [version |-> 0, content |-> 0] /\ Null \in Val /\ 0 \in Nat
BY DEF Null, Val

LEMMA StoreWant ==
  ASSUME NoneIsNoEntry, StoreInv, NEW o \in Objects, Want(o)
  PROVE  StoreInv'
<1> USE DEF Want, getWaveObjectValue
<1>1. PICK c : c = StoreRequest("fetch", o, 0, Null)
  OBVIOUS
<1>2. /\ c \in StoreCall /\ c.id = storeMade + 1 /\ c.kind = "fetch" /\ c.o = o /\ c.ans.type = "none"
  BY <1>1, StoreCallMade, NullIsVal DEF StoreInv
<1>3. PICK e : e = Entry(o)
  OBVIOUS
<1>4. e = [value |-> [version |-> 0, content |-> 0], loading |-> TRUE, pending |-> storeMade + 1]
  BY <1>3 DEF Entry, Null
<1>5. e # None /\ e \in StoreEntry /\ e.value.version = 0
  <2>1. e \in StoreEntry /\ e.value.version = 0
    BY <1>4 DEF StoreEntry, Val, StoreInv, StoreTypes
  <2> QED BY <2>1 DEF NoneIsNoEntry, StoreEntry, Val
<1>6. /\ storeCalls' = storeCalls \union {c} /\ storeMade' = storeMade + 1 /\ cache[o] = None
      /\ cache' = [cache EXCEPT ![o] = e]
      /\ UNCHANGED <<db, publishing, events, writes, storeOdd>>
  BY <1>1, <1>3
<1>7. StoreTypes'
  BY <1>2, <1>5, <1>6 DEF StoreInv, StoreTypes
<1>8. /\ PubOf(o)' = PubOf(o) /\ EvOf(o)' = EvOf(o) /\ CallsOf(o)' = CallsOf(o) \union {c}
      /\ db'[o] = db[o] /\ cache'[o] = e
  BY <1>2, <1>6 DEF PubOf, EvOf, CallsOf, StoreInv, StoreTypes
<1>9. \A q \in Objects : q # o => /\ db'[q] = db[q] /\ cache'[q] = cache[q]
                                  /\ PubOf(q)' = PubOf(q) /\ EvOf(q)' = EvOf(q)
                                  /\ CallsOf(q)' = CallsOf(q)
  BY <1>2, <1>6 DEF PubOf, EvOf, CallsOf, StoreInv, StoreTypes
<1>10. Kept(db[o], None, PubOf(o), EvOf(o), CallsOf(o), writes, storeMade) /\ storeMade \in Nat
  BY <1>6 DEF StoreInv, StoreTypes
<1>11. /\ Kept(db[o], e, PubOf(o), EvOf(o), CallsOf(o) \union {c}, writes, storeMade + 1)
       /\ CopyPlace(db[o], e, PubOf(o), EvOf(o), CallsOf(o) \union {c})
  BY <1>2, <1>4, <1>5, <1>10, Wanted
<1>12. writes <= writes' /\ storeMade <= storeMade' /\ storeOdd \subseteq storeOdd'
  BY <1>6 DEF StoreInv, StoreTypes
<1> QED BY ONLY StoreInv, o \in Objects, <1>6, <1>7, <1>8, <1>9, <1>11, <1>12, StoreStep

LEMMA StoreAsks ==
  ASSUME StoreInv, NEW o \in Objects, reloadWaveObject(o) \/ callBackendService(o)
  PROVE  StoreInv'
<1> USE DEF reloadWaveObject, callBackendService
<1>1. PICK k \in {"reload", "change"} : /\ storeCalls' = storeCalls \union {StoreRequest(k, o, 0, Null)}
                                        /\ cache[o] # None \/ k = "change"
  OBVIOUS
<1>2. PICK c : c = StoreRequest(k, o, 0, Null)
  OBVIOUS
<1>3. c \in StoreCall /\ c.id = storeMade + 1 /\ c.kind = k /\ c.o = o /\ c.ans.type = "none"
  BY <1>2, StoreCallMade, NullIsVal DEF StoreInv
<1>4. /\ storeCalls' = storeCalls \union {c} /\ storeMade' = storeMade + 1
      /\ UNCHANGED <<db, publishing, events, cache, writes, storeOdd>>
  BY <1>1, <1>2
<1>5. StoreTypes' /\ storeMade \in Nat /\ writes \in Nat
  BY <1>3, <1>4 DEF StoreInv, StoreTypes
<1>6. /\ PubOf(o)' = PubOf(o) /\ EvOf(o)' = EvOf(o) /\ CallsOf(o)' = CallsOf(o) \union {c}
  BY <1>3, <1>4 DEF PubOf, EvOf, CallsOf
<1>7. \A q \in Objects : q # o => /\ db'[q] = db[q] /\ cache'[q] = cache[q]
                                  /\ PubOf(q)' = PubOf(q) /\ EvOf(q)' = EvOf(q)
                                  /\ CallsOf(q)' = CallsOf(q)
  BY <1>3, <1>4 DEF PubOf, EvOf, CallsOf
<1>8. /\ Kept(db[o], cache[o], PubOf(o), EvOf(o), CallsOf(o), writes, storeMade)
      /\ o \notin storeOdd /\ cache[o] # None => CopyPlace(db[o], cache[o], PubOf(o), EvOf(o), CallsOf(o))
  BY DEF StoreInv
<1>9. /\ Kept(db[o], cache[o], PubOf(o), EvOf(o), CallsOf(o) \union {c}, writes, storeMade + 1)
      /\ CopyPlace(db[o], cache[o], PubOf(o), EvOf(o), CallsOf(o)) =>
           CopyPlace(db[o], cache[o], PubOf(o), EvOf(o), CallsOf(o) \union {c})
  <2>1. c.kind \in {"reload", "change"} /\ (cache[o] # None \/ c.kind = "change")
    BY <1>1, <1>3
  <2> QED BY <1>3, <1>8, <2>1, CallPlaced
<1>10. writes <= writes' /\ storeMade <= storeMade' /\ storeOdd \subseteq storeOdd'
  BY <1>4, <1>5
<1> QED BY ONLY StoreInv, o \in Objects, <1>4, <1>5, <1>6, <1>7, <1>8, <1>9, <1>10, StoreStep

LEMMA StoreSets ==
  ASSUME NoneIsNoEntry, StoreInv, NEW o \in Objects, setObjectValue(o)
  PROVE  StoreInv'
<1> USE DEF setObjectValue
<1>1. PICK e : e = cache[o]
  OBVIOUS
<1>2. e \in StoreEntry /\ e # None /\ ~Gone(e.value)
  BY <1>1 DEF StoreInv, StoreTypes, Gone, Null
<1>3. PICK v : v = [e.value EXCEPT !.content = writes + 1]
  OBVIOUS
<1>4. v = [version |-> e.value.version, content |-> writes + 1] /\ v \in Val
  BY <1>2, <1>3 DEF StoreEntry, Val, StoreInv, StoreTypes
<1>5. PICK e2 : e2 = Loaded(e, v)
  OBVIOUS
<1>6. e2 \in StoreEntry /\ e2.value = v /\ e2.loading = FALSE /\ e2.pending = e.pending
  BY <1>2, <1>4, <1>5 DEF StoreEntry, Loaded
<1>7. e2 # None
  BY <1>6 DEF NoneIsNoEntry, StoreEntry, Val
<1>8. PICK c : c = StoreRequest("push", o, e.value.content, v)
  OBVIOUS
<1>9. /\ c \in StoreCall /\ c.id = storeMade + 1 /\ c.kind = "push" /\ c.o = o /\ c.base = e.value.content
      /\ c.val = v /\ c.ans.type = "none"
  <2>1. e.value.content \in Nat
    BY <1>2, ElementTypes
  <2> QED BY <1>4, <1>8, <2>1, StoreCallMade DEF StoreInv
<1>10. /\ storeCalls' = storeCalls \union {c} /\ storeMade' = storeMade + 1 /\ writes' = writes + 1
       /\ cache' = [cache EXCEPT ![o] = e2] /\ storeOdd \subseteq storeOdd'
       /\ UNCHANGED <<db, publishing, events>>
  BY <1>1, <1>3, <1>5, <1>8
<1>11. StoreTypes' /\ storeMade \in Nat /\ writes \in Nat
  BY <1>6, <1>9, <1>10 DEF StoreInv, StoreTypes
<1>12. /\ PubOf(o)' = PubOf(o) /\ EvOf(o)' = EvOf(o) /\ CallsOf(o)' = CallsOf(o) \union {c}
       /\ db'[o] = db[o] /\ cache'[o] = e2
  BY <1>9, <1>10 DEF PubOf, EvOf, CallsOf, StoreInv, StoreTypes
<1>13. \A q \in Objects : q # o => /\ db'[q] = db[q] /\ cache'[q] = cache[q]
                                   /\ PubOf(q)' = PubOf(q) /\ EvOf(q)' = EvOf(q)
                                   /\ CallsOf(q)' = CallsOf(q)
  BY <1>9, <1>10 DEF PubOf, EvOf, CallsOf, StoreInv, StoreTypes
<1>14. /\ Kept(db[o], e, PubOf(o), EvOf(o), CallsOf(o), writes, storeMade)
       /\ o \notin storeOdd => CopyPlace(db[o], e, PubOf(o), EvOf(o), CallsOf(o))
  BY <1>1, <1>2 DEF StoreInv
<1>15. /\ Kept(db[o], e2, PubOf(o), EvOf(o), CallsOf(o) \union {c}, writes + 1, storeMade + 1)
       /\ CopyPlace(db[o], e, PubOf(o), EvOf(o), CallsOf(o)) /\ PubOf(o) = {} /\ EvOf(o) = {}
          /\ Pushes(CallsOf(o)) = CallsOf(o)
            => CopyPlace(db[o], e2, PubOf(o), EvOf(o), CallsOf(o) \union {c})
  BY <1>2, <1>4, <1>6, <1>7, <1>9, <1>14, LocallyWritten
<1>16. o \notin storeOdd' => PubOf(o) = {} /\ EvOf(o) = {} /\ Pushes(CallsOf(o)) = CallsOf(o)
  <2>1. o \notin storeOdd' => ~UnderWay(o)
    OBVIOUS
  <2> QED BY <2>1 DEF UnderWay, PubOf, EvOf, InSeq, CallsOf, Pushes
<1>17. writes <= writes' /\ storeMade <= storeMade'
  BY <1>10, <1>11
<1>18. o \notin storeOdd' /\ cache'[o] # None =>
         CopyPlace(db'[o], cache'[o], PubOf(o)', EvOf(o)', CallsOf(o)')
  BY ONLY <1>10, <1>12, <1>14, <1>15, <1>16
<1> QED BY ONLY StoreInv, o \in Objects, <1>10, <1>11, <1>12, <1>13, <1>15, <1>17, <1>18, StoreStep

\* getWaveObjectValue leaves an entry that is kept, with its fetch if it is new.
LEMMA StoreGot ==
  ASSUME NoneIsNoEntry, StoreInv, NEW o \in Objects, NEW e, e = Entry(o), NEW cs, NEW m,
         \/ cache[o] # None /\ cs = CallsOf(o) /\ m = storeMade
         \/ /\ cache[o] = None /\ m = storeMade + 1
            /\ cs = CallsOf(o) \union {StoreRequest("fetch", o, 0, Null)}
  PROVE  /\ e \in StoreEntry /\ e # None
         /\ Kept(db[o], e, PubOf(o), EvOf(o), cs, writes, m)
         /\ o \notin storeOdd => CopyPlace(db[o], e, PubOf(o), EvOf(o), cs)
         /\ Pushes(cs) = Pushes(CallsOf(o)) /\ storeMade <= m /\ m \in Nat
<1>1. CASE cache[o] # None
  BY <1>1 DEF Entry, StoreInv, StoreTypes
<1>2. CASE cache[o] = None
  <2>1. PICK c : c = StoreRequest("fetch", o, 0, Null)
    OBVIOUS
  <2>2. c \in StoreCall /\ c.id = storeMade + 1 /\ c.kind = "fetch" /\ c.ans.type = "none"
    BY <2>1, StoreCallMade, NullIsVal DEF StoreInv
  <2>3. e = [value |-> [version |-> 0, content |-> 0], loading |-> TRUE, pending |-> storeMade + 1]
    BY <1>2 DEF Entry, Null
  <2>4. e # None /\ e \in StoreEntry /\ storeMade \in Nat
    <3>1. e \in StoreEntry /\ storeMade \in Nat
      BY <2>3 DEF StoreEntry, Val, StoreInv, StoreTypes
    <3> QED BY <3>1 DEF NoneIsNoEntry, StoreEntry, Val
  <2>5. Kept(db[o], None, PubOf(o), EvOf(o), CallsOf(o), writes, storeMade)
    BY <1>2 DEF StoreInv
  <2>6. /\ Kept(db[o], e, PubOf(o), EvOf(o), CallsOf(o) \union {c}, writes, storeMade + 1)
        /\ CopyPlace(db[o], e, PubOf(o), EvOf(o), CallsOf(o) \union {c})
    BY <2>2, <2>3, <2>4, <2>5, Wanted
  <2>7. Pushes(CallsOf(o) \union {c}) = Pushes(CallsOf(o))
    BY <2>2 DEF Pushes
  <2>8. m = storeMade + 1 /\ cs = CallsOf(o) \union {c} /\ storeMade <= storeMade + 1 /\ storeMade + 1 \in Nat
    BY <1>2, <2>1, <2>4
  <2> QED BY ONLY <2>4, <2>6, <2>7, <2>8
<1> QED BY <1>1, <1>2

LEMMA Updating ==
  ASSUME NoneIsNoEntry, NEW e \in StoreEntry, NEW u \in StoreUpdate, u.type # "read",
         u.type = "delete" => u.val = [version |-> 0, content |-> 0],
         NEW e2, e2 = updatedEntry(e, u)
  PROVE  /\ e2 \in StoreEntry /\ e2 # None /\ e2.pending = e.pending
         /\ u.type = "update" =>
              \/ ~Gone(e.value) /\ e.value.version >= u.val.version /\ e2 = e
              \/ (Gone(e.value) \/ ~(e.value.version >= u.val.version)) /\ e2.value = u.val /\ ~e2.loading
         /\ u.type = "delete" => e2.value = [version |-> 0, content |-> 0] /\ ~e2.loading
<1>1. u.val \in Val
  BY ElementTypes
<1>2. PICK x : x = Loaded(e, u.val)
  OBVIOUS
<1>3. x \in StoreEntry /\ x.value = u.val /\ x.loading = FALSE /\ x.pending = e.pending
  BY <1>1, <1>2 DEF Loaded, StoreEntry
<1>4. e2 = IF u.type = "update" /\ ~Gone(e.value) /\ e.value.version >= u.val.version THEN e ELSE x
  BY <1>2 DEF updatedEntry, Gone, Null
<1>5. \A y \in StoreEntry : y # None
  BY DEF NoneIsNoEntry, StoreEntry, Val
<1> QED BY <1>3, <1>4, <1>5

LEMMA StoreHandles ==
  ASSUME NoneIsNoEntry, StoreInv, HandleEvent
  PROVE  StoreInv'
<1> USE DEF HandleEvent
<1>1. events \in Seq(StoreUpdate) /\ events # <<>> /\ events' = Tail(events)
  BY DEF StoreInv, StoreTypes
<1>2. PICK u : u = Head(events)
  OBVIOUS
<1>3. u \in StoreUpdate /\ events' \in Seq(StoreUpdate)
  BY <1>1, <1>2, HeadTailProperties
<1>4. PICK o \in Objects : o = u.o
  BY <1>3 DEF StoreUpdate
<1>5. PICK e : e = Entry(o)
  OBVIOUS
<1>6. PICK c : c = StoreRequest("fetch", o, 0, Null)
  OBVIOUS
<1>7. c \in StoreCall /\ c.o = o
  BY <1>6, StoreCallMade, NullIsVal DEF StoreInv
<1>8. /\ cache' = [cache EXCEPT ![o] = updatedEntry(e, u)]
      /\ \/ cache[o] # None /\ storeCalls' = storeCalls /\ storeMade' = storeMade
         \/ cache[o] = None /\ storeCalls' = storeCalls \union {c} /\ storeMade' = storeMade + 1
      /\ storeOdd \subseteq storeOdd'
      /\ o \notin storeOdd' => ~Pushing(o) /\ ~Revives(e, u)
      /\ UNCHANGED <<db, publishing, writes>>
  BY <1>2, <1>4, <1>5, <1>6 DEF getWaveObjectValue
<1>9. PICK cs : cs = CallsOf(o)'
  OBVIOUS
<1>10. \/ cache[o] # None /\ cs = CallsOf(o) /\ storeMade' = storeMade
       \/ cache[o] = None /\ cs = CallsOf(o) \union {c} /\ storeMade' = storeMade + 1
  BY <1>7, <1>8, <1>9 DEF CallsOf
<1>11. PICK m : m = storeMade'
  OBVIOUS
<1>12. /\ e \in StoreEntry /\ e # None
       /\ Kept(db[o], e, PubOf(o), EvOf(o), cs, writes, m)
       /\ o \notin storeOdd => CopyPlace(db[o], e, PubOf(o), EvOf(o), cs)
       /\ Pushes(cs) = Pushes(CallsOf(o)) /\ storeMade <= m /\ m \in Nat
  BY <1>5, <1>6, <1>10, <1>11, StoreGot
<1>13. EvOf(o) = EvOf(o)' \union {u}
  <2>1. InSeq(events, o) = InSeq(Tail(events), o) \union {x \in {Head(events)} : x.o = o}
    BY <1>1, InTail
  <2> QED BY <1>1, <1>2, <1>4, <2>1 DEF EvOf
<1>14. PICK ev2 : ev2 = EvOf(o)'
  OBVIOUS
<1>15. u \in EvOf(o) /\ ev2 \in SUBSET EvOf(o) /\ \A x \in EvOf(o) \ ev2 : x = u
  BY <1>13, <1>14
<1>16. u.type # "read" /\ (u.type = "delete" => u.val = [version |-> 0, content |-> 0])
  BY <1>12, <1>15 DEF Kept, Typed
<1>17. PICK e2 : e2 = updatedEntry(e, u)
  OBVIOUS
<1>18. /\ e2 \in StoreEntry /\ e2 # None /\ e2.pending = e.pending
       /\ u.type = "update" =>
            \/ ~Gone(e.value) /\ e.value.version >= u.val.version /\ e2 = e
            \/ (Gone(e.value) \/ ~(e.value.version >= u.val.version)) /\ e2.value = u.val /\ ~e2.loading
       /\ u.type = "delete" => e2.value = [version |-> 0, content |-> 0] /\ ~e2.loading
  BY <1>3, <1>12, <1>16, <1>17, Updating
<1>19. /\ Kept(db[o], e2, PubOf(o), ev2, cs, writes, m)
       /\ o \notin storeOdd' => CopyPlace(db[o], e2, PubOf(o), ev2, cs)
  <2>1. CASE u.type = "delete"
    BY <1>12, <1>15, <1>18, <2>1, DeletionStored
  <2>2. CASE u.type = "update"
    <3>1. u.val \in Val /\ Underway(u.val, PubOf(o), EvOf(o), cs)
      BY <1>3, <1>15, <2>2, ElementTypes DEF Underway
    <3>2. \A x \in EvOf(o) \ ev2 : x.type = "update" /\ x.val = u.val
      BY <1>15, <2>2
    <3>3. /\ Kept(db[o], e2, PubOf(o), ev2, cs, writes, m)
          /\ CopyPlace(db[o], e, PubOf(o), EvOf(o), cs) /\ ~(Gone(e.value) /\ ~e.loading)
             /\ (Pushes(cs) = {} \/ cs # cs)
               => CopyPlace(db[o], e2, PubOf(o), ev2, cs)
      BY <1>12, <1>15, <1>18, <2>2, <3>1, <3>2, UpdateStored
    <3>4. o \notin storeOdd' => ~(Gone(e.value) /\ ~e.loading) /\ Pushes(cs) = {}
      BY <1>8, <1>12, <2>2 DEF Revives, Pushing, Gone, Null, Pushes, CallsOf
    <3> QED BY <1>8, <1>12, <3>3, <3>4
  <2> QED BY <1>3, <1>16, <2>1, <2>2, ElementTypes
<1>20. /\ db'[o] = db[o] /\ cache'[o] = e2 /\ PubOf(o)' = PubOf(o) /\ writes' = writes
       /\ EvOf(o)' = ev2 /\ CallsOf(o)' = cs /\ storeMade' = m
  BY <1>8, <1>9, <1>11, <1>14, <1>17 DEF PubOf, StoreInv, StoreTypes
<1>21. \A q \in Objects : q # o => EvOf(q)' = EvOf(q)
  <2>1. ASSUME NEW q \in Objects, q # o PROVE InSeq(events, q) = InSeq(Tail(events), q)
    <3>1. InSeq(events, q) = InSeq(Tail(events), q) \union {x \in {Head(events)} : x.o = q}
      BY <1>1, InTail
    <3> QED BY <1>2, <1>4, <2>1, <3>1
  <2> QED BY <1>1, <2>1 DEF EvOf
<1>22. \A q \in Objects : q # o => /\ db'[q] = db[q] /\ cache'[q] = cache[q]
                                   /\ PubOf(q)' = PubOf(q) /\ EvOf(q)' = EvOf(q)
                                   /\ CallsOf(q)' = CallsOf(q)
  BY <1>7, <1>8, <1>21 DEF PubOf, CallsOf, StoreInv, StoreTypes
<1>23. StoreTypes'
  BY <1>3, <1>7, <1>8, <1>11, <1>12, <1>17, <1>18 DEF StoreInv, StoreTypes
<1>24. writes <= writes' /\ storeMade <= storeMade' /\ storeOdd \subseteq storeOdd'
  BY <1>8, <1>11, <1>12 DEF StoreInv, StoreTypes
<1> QED BY ONLY StoreInv, o \in Objects, <1>19, <1>20, <1>22, <1>23, <1>24, StoreStep

LEMMA CallIsOf ==
  ASSUME StoreInv, NEW c \in storeCalls
  PROVE  c \in StoreCall /\ c.o \in Objects /\ c \in CallsOf(c.o)
BY DEF StoreInv, StoreTypes, StoreCall, CallsOf

LEMMA StoreFetched ==
  ASSUME NoneIsNoEntry, StoreInv, NEW c \in storeCalls, FetchAnswered(c)
  PROVE  StoreInv'
<1> USE DEF FetchAnswered
<1>1. PICK o \in Objects : o = c.o
  BY CallIsOf
<1>2. c \in StoreCall /\ c \in CallsOf(o) /\ c.ans.type = "value" /\ c.ans.val \in Val
  BY <1>1, CallIsOf, ElementTypes
<1>3. PICK e : e = cache[o]
  OBVIOUS
<1>4. /\ Kept(db[o], e, PubOf(o), EvOf(o), CallsOf(o), writes, storeMade)
      /\ o \notin storeOdd /\ e # None => CopyPlace(db[o], e, PubOf(o), EvOf(o), CallsOf(o))
  BY <1>3 DEF StoreInv
<1>5. c.kind \in {"fetch", "reload"} /\ e # None /\ e \in StoreEntry
  BY <1>2, <1>3, <1>4 DEF Kept, Numbered, Answers, StoreWrites, Typed
<1>6. PICK left : left = IF c.kind = "fetch" THEN [e EXCEPT !.pending = 0] ELSE e
  OBVIOUS
<1>7. PICK stored \in BOOLEAN : stored = (c.kind = "reload" \/ e.pending = c.id)
  OBVIOUS
<1>8. PICK full : full = Loaded(left, c.ans.val)
  OBVIOUS
<1>9. /\ full \in StoreEntry /\ full.value = c.ans.val /\ full.loading = FALSE
      /\ full.pending = IF c.kind = "fetch" THEN 0 ELSE e.pending
  <2>1. left \in StoreEntry /\ left.pending = IF c.kind = "fetch" THEN 0 ELSE e.pending
    BY <1>5, <1>6 DEF StoreEntry
  <2> QED BY <1>2, <1>8, <2>1 DEF StoreEntry, Loaded
<1>10. full # None
  BY <1>9 DEF NoneIsNoEntry, StoreEntry, Val
<1>11. PICK e2 : e2 = IF stored THEN full ELSE e
  OBVIOUS
<1>12. /\ cache' = [cache EXCEPT ![o] = e2]
       /\ storeOdd' = storeOdd \union {x \in {o} : stored /\ (Pushing(x) \/ Overtaken(e, c.ans.val))}
       /\ storeCalls' = storeCalls \ {c}
       /\ UNCHANGED <<db, publishing, events, writes, storeMade>>
  BY <1>1, <1>3, <1>6, <1>7, <1>8, <1>11
<1>13. /\ Kept(db[o], e2, PubOf(o), EvOf(o), CallsOf(o) \ {c}, writes, storeMade)
       /\ o \notin storeOdd' => CopyPlace(db[o], e2, PubOf(o), EvOf(o), CallsOf(o) \ {c})
  <2>1. CASE ~stored
    <3>1. c.kind = "fetch" /\ e.pending # c.id /\ e2 = e
      BY <1>5, <1>7, <1>11, <2>1
    <3>2. /\ Kept(db[o], e, PubOf(o), EvOf(o), CallsOf(o) \ {c}, writes, storeMade)
          /\ CopyPlace(db[o], e, PubOf(o), EvOf(o), CallsOf(o))
               => CopyPlace(db[o], e, PubOf(o), EvOf(o), CallsOf(o) \ {c})
      BY <1>2, <1>4, <3>1, CallDropped
    <3> QED BY <1>4, <1>5, <1>12, <3>1, <3>2
  <2>2. CASE stored
    <3>1. c.kind = "reload" \/ e.pending = c.id
      BY <1>7, <2>2
    <3>2. /\ Kept(db[o], full, PubOf(o), EvOf(o), CallsOf(o) \ {c}, writes, storeMade)
          /\ CopyPlace(db[o], e, PubOf(o), EvOf(o), CallsOf(o)) /\ Pushes(CallsOf(o)) = {}
             /\ (~e.loading => /\ c.ans.val.version >= e.value.version
                               /\ c.ans.val.version = e.value.version => c.ans.val.content = e.value.content
                               /\ Gone(e.value) => Gone(c.ans.val))
               => CopyPlace(db[o], full, PubOf(o), EvOf(o), CallsOf(o) \ {c})
      BY <1>2, <1>4, <1>5, <1>9, <1>10, <3>1, AnswerStored
    <3>3. o \notin storeOdd' => ~Pushing(o) /\ ~Overtaken(e, c.ans.val)
      BY <1>12, <2>2
    <3>4. o \notin storeOdd' => Pushes(CallsOf(o)) = {}
      BY <3>3 DEF Pushing, Pushes, CallsOf
    <3>5. o \notin storeOdd' /\ ~e.loading =>
            /\ c.ans.val.version >= e.value.version
            /\ c.ans.val.version = e.value.version => c.ans.val.content = e.value.content
            /\ Gone(e.value) => Gone(c.ans.val)
      <4>1. c.ans.val.version \in Nat /\ e.value.version \in Nat
        BY <1>2, <1>5, ElementTypes
      <4> QED BY <3>3, <4>1 DEF Overtaken, Gone, Null
    <3> QED BY <1>4, <1>5, <1>11, <1>12, <2>2, <3>2, <3>4, <3>5
  <2> QED BY <2>1, <2>2
<1>14. /\ db'[o] = db[o] /\ cache'[o] = e2 /\ PubOf(o)' = PubOf(o) /\ EvOf(o)' = EvOf(o)
       /\ CallsOf(o)' = CallsOf(o) \ {c}
  BY <1>12 DEF PubOf, EvOf, CallsOf, StoreInv, StoreTypes
<1>15. \A q \in Objects : q # o => /\ db'[q] = db[q] /\ cache'[q] = cache[q]
                                   /\ PubOf(q)' = PubOf(q) /\ EvOf(q)' = EvOf(q)
                                   /\ CallsOf(q)' = CallsOf(q)
  BY <1>1, <1>12 DEF PubOf, EvOf, CallsOf, StoreInv, StoreTypes
<1>16. StoreTypes'
  <2>1. e2 \in StoreEntry
    BY <1>5, <1>9, <1>11
  <2>2. StoreTypes
    BY DEF StoreInv
  <2> QED BY ONLY <1>12, <2>1, <2>2 DEF StoreTypes
<1>17. writes <= writes' /\ storeMade <= storeMade' /\ storeOdd \subseteq storeOdd'
  BY <1>12 DEF StoreInv, StoreTypes
<1> QED BY ONLY StoreInv, o \in Objects, <1>12, <1>13, <1>14, <1>15, <1>16, <1>17, StoreStep

LEMMA StoreAnswered ==
  ASSUME NoneIsNoEntry, StoreInv, NEW c \in storeCalls, CallAnswered(c)
  PROVE  StoreInv'
<1> USE DEF CallAnswered
<1>1. PICK o \in Objects : o = c.o
  BY CallIsOf
<1>2. c \in StoreCall /\ c \in CallsOf(o) /\ c.ans.type = "update" /\ c.ans.val \in Val
  BY <1>1, CallIsOf, ElementTypes
<1>3. PICK e : e = Entry(o)
  OBVIOUS
<1>4. PICK f : f = StoreRequest("fetch", o, 0, Null)
  OBVIOUS
<1>5. f \in StoreCall /\ f.o = o /\ f.kind = "fetch" /\ f.ans.type = "none"
  BY <1>4, StoreCallMade, NullIsVal DEF StoreInv
<1>6. PICK u : u = Updated(o, c.ans.val)
  OBVIOUS
<1>7. u \in StoreUpdate /\ u.type = "update" /\ u.val = c.ans.val
  BY <1>2, <1>6 DEF StoreUpdate, Updated
<1>8. PICK e2 : e2 = updatedEntry(e, u)
  OBVIOUS
<1>9. /\ cache' = [cache EXCEPT ![o] = e2]
      /\ \/ cache[o] # None /\ storeCalls' = storeCalls \ {c} /\ storeMade' = storeMade
         \/ cache[o] = None /\ storeCalls' = (storeCalls \ {c}) \union {f} /\ storeMade' = storeMade + 1
      /\ storeOdd' = storeOdd \union {x \in {o} : Revives(Entry(x), u)}
      /\ UNCHANGED <<db, publishing, events, writes>>
  BY <1>1, <1>3, <1>4, <1>6, <1>8
<1>10. PICK cs, m : /\ \/ cache[o] # None /\ cs = CallsOf(o) /\ m = storeMade
                       \/ cache[o] = None /\ m = storeMade + 1 /\ cs = CallsOf(o) \union {f}
  OBVIOUS
<1>11. /\ e \in StoreEntry /\ e # None
       /\ Kept(db[o], e, PubOf(o), EvOf(o), cs, writes, m)
       /\ o \notin storeOdd => CopyPlace(db[o], e, PubOf(o), EvOf(o), cs)
       /\ storeMade <= m /\ m \in Nat
  BY <1>3, <1>4, <1>10, StoreGot
<1>12. CallsOf(o)' = cs \ {c} /\ storeMade' = m
  BY <1>2, <1>5, <1>9, <1>10 DEF CallsOf
<1>13. /\ e2 \in StoreEntry /\ e2 # None /\ e2.pending = e.pending
       /\ \/ ~Gone(e.value) /\ e.value.version >= u.val.version /\ e2 = e
          \/ (Gone(e.value) \/ ~(e.value.version >= u.val.version)) /\ e2.value = u.val /\ ~e2.loading
  BY <1>7, <1>8, <1>11, Updating
<1>14. c \in cs
  BY <1>2, <1>10
<1>15. /\ Kept(db[o], e2, PubOf(o), EvOf(o), cs \ {c}, writes, m)
       /\ CopyPlace(db[o], e, PubOf(o), EvOf(o), cs) /\ ~(Gone(e.value) /\ ~e.loading)
          /\ (Pushes(cs) = {} \/ cs \ {c} # cs)
            => CopyPlace(db[o], e2, PubOf(o), EvOf(o), cs \ {c})
  <2>1. u.val \in Val /\ Underway(u.val, PubOf(o), EvOf(o), cs)
    BY <1>2, <1>7, <1>14 DEF Underway
  <2>2. \A x \in cs \ (cs \ {c}) : x.ans.type = "update" /\ x.ans.val = u.val
    BY <1>2, <1>7
  <2> QED BY <1>11, <1>13, <2>1, <2>2, UpdateStored
<1>16. o \notin storeOdd' => CopyPlace(db[o], e2, PubOf(o), EvOf(o), cs \ {c})
  <2>1. o \notin storeOdd' => o \notin storeOdd /\ ~(Gone(e.value) /\ ~e.loading)
    BY <1>3, <1>7, <1>9 DEF Revives, Gone, Null
  <2> QED BY <1>11, <1>14, <1>15, <2>1
<1>17. /\ db'[o] = db[o] /\ cache'[o] = e2 /\ PubOf(o)' = PubOf(o) /\ EvOf(o)' = EvOf(o)
       /\ writes' = writes
  BY <1>9 DEF PubOf, EvOf, StoreInv, StoreTypes
<1>18. \A q \in Objects : q # o => /\ db'[q] = db[q] /\ cache'[q] = cache[q]
                                   /\ PubOf(q)' = PubOf(q) /\ EvOf(q)' = EvOf(q)
                                   /\ CallsOf(q)' = CallsOf(q)
  BY <1>1, <1>5, <1>9 DEF PubOf, EvOf, CallsOf, StoreInv, StoreTypes
<1>19. StoreTypes'
  <2>1. storeCalls' \subseteq StoreCall /\ storeCalls \subseteq StoreCall
    BY <1>5, <1>9 DEF StoreInv, StoreTypes
  <2>2. storeMade' \in Nat
    BY <1>11, <1>12
  <2> QED BY <1>9, <1>13, <2>1, <2>2 DEF StoreInv, StoreTypes
<1>20. writes <= writes' /\ storeMade <= storeMade' /\ storeOdd \subseteq storeOdd'
  BY <1>9, <1>11, <1>12 DEF StoreInv, StoreTypes
<1> QED BY ONLY StoreInv, o \in Objects, <1>12, <1>15, <1>16, <1>17, <1>18, <1>19, <1>20, StoreStep

LEMMA StoreDrops ==
  ASSUME StoreInv, NEW c \in storeCalls, StoreCallFails(c) \/ Refuse(c)
  PROVE  StoreInv'
<1> USE DEF StoreCallFails, Refuse
<1>1. PICK o \in Objects : o = c.o
  BY CallIsOf
<1>2. c \in StoreCall /\ c \in CallsOf(o)
  BY <1>1, CallIsOf
<1>3. /\ storeCalls' = storeCalls \ {c} /\ storeOdd \subseteq storeOdd'
      /\ o \notin storeOdd' => c.kind \notin {"fetch", "push"} /\ c.ans.type # "update"
      /\ UNCHANGED <<db, publishing, events, cache, writes, storeMade>>
  BY <1>1, <1>2, ElementTypes
<1>4. /\ PubOf(o)' = PubOf(o) /\ EvOf(o)' = EvOf(o) /\ CallsOf(o)' = CallsOf(o) \ {c}
  BY <1>3 DEF PubOf, EvOf, CallsOf
<1>5. \A q \in Objects : q # o => /\ db'[q] = db[q] /\ cache'[q] = cache[q]
                                  /\ PubOf(q)' = PubOf(q) /\ EvOf(q)' = EvOf(q)
                                  /\ CallsOf(q)' = CallsOf(q)
  BY <1>1, <1>3 DEF PubOf, EvOf, CallsOf
<1>6. /\ Kept(db[o], cache[o], PubOf(o), EvOf(o), CallsOf(o), writes, storeMade)
      /\ o \notin storeOdd /\ cache[o] # None => CopyPlace(db[o], cache[o], PubOf(o), EvOf(o), CallsOf(o))
  BY DEF StoreInv
<1>7. /\ Kept(db[o], cache[o], PubOf(o), EvOf(o), CallsOf(o) \ {c}, writes, storeMade)
      /\ CopyPlace(db[o], cache[o], PubOf(o), EvOf(o), CallsOf(o)) /\ c.kind # "push"
         /\ c.ans.type # "update" /\ (c.kind = "fetch" => cache[o].pending # c.id)
           => CopyPlace(db[o], cache[o], PubOf(o), EvOf(o), CallsOf(o) \ {c})
  BY <1>2, <1>6, CallDropped
<1>8. o \notin storeOdd' /\ cache[o] # None =>
        CopyPlace(db[o], cache[o], PubOf(o), EvOf(o), CallsOf(o) \ {c})
  BY <1>3, <1>6, <1>7
<1>9. StoreTypes'
  BY <1>3 DEF StoreInv, StoreTypes
<1>10. writes <= writes' /\ storeMade <= storeMade' /\ storeOdd \subseteq storeOdd'
  BY <1>3 DEF StoreInv, StoreTypes
<1> QED BY ONLY StoreInv, o \in Objects, <1>3, <1>4, <1>5, <1>7, <1>8, <1>9, <1>10, StoreStep

LEMMA NewContent ==
  ASSUME StoreInv, NEW o \in Objects, Exists(o), NEW d2,
         d2 = [version |-> db[o].version + 1, content |-> writes + 1], DBUpdate(o, writes + 1)
  PROVE  /\ ~Gone(db[o]) /\ d2 \in Val /\ db' = [db EXCEPT ![o] = d2] /\ db'[o] = d2
         /\ db' \in [Objects -> Val]
<1>1. ~Gone(db[o]) /\ db[o].version \in Nat /\ writes \in Nat
  BY ElementTypes DEF Exists, Gone, Null, StoreInv, StoreTypes
<1>2. d2 \in Val
  BY <1>1 DEF Val
<1>3. db' = [db EXCEPT ![o] = d2]
  BY DEF DBUpdate
<1> QED BY <1>1, <1>2, <1>3 DEF StoreInv, StoreTypes

LEMMA StoreChange ==
  ASSUME StoreInv, NEW o \in Objects, NEW again \in BOOLEAN, Change(o, again)
  PROVE  StoreInv'
<1> USE DEF Change
<1>1. PICK d2 : d2 = [version |-> db[o].version + 1, content |-> writes + 1]
  OBVIOUS
<1>2. /\ ~Gone(db[o]) /\ d2 \in Val /\ db' = [db EXCEPT ![o] = d2] /\ db'[o] = d2
      /\ db' \in [Objects -> Val]
  BY <1>1, NewContent
<1>3. PICK u : u = IF again THEN ToRead(o) ELSE Updated(o, d2)
  OBVIOUS
<1>4. u \in StoreUpdate /\ u.o = o /\ (u.type = "read" \/ (u.type = "update" /\ u.val = d2))
  BY <1>2, <1>3, NullIsVal DEF ToRead, Updated, StoreUpdate
<1>5. /\ publishing' = publishing \union {u} /\ writes' = writes + 1
      /\ UNCHANGED <<events, storeCalls, cache, storeMade, storeOdd>>
  BY <1>2, <1>3
<1>6. /\ PubOf(o)' = PubOf(o) \union {u} /\ EvOf(o)' = EvOf(o) /\ CallsOf(o)' = CallsOf(o)
  BY <1>4, <1>5 DEF PubOf, EvOf, CallsOf
<1>7. \A q \in Objects : q # o => /\ db'[q] = db[q] /\ cache'[q] = cache[q]
                                  /\ PubOf(q)' = PubOf(q) /\ EvOf(q)' = EvOf(q)
                                  /\ CallsOf(q)' = CallsOf(q)
  BY <1>2, <1>4, <1>5 DEF PubOf, EvOf, CallsOf, StoreInv, StoreTypes
<1>8. /\ Kept(db[o], cache[o], PubOf(o), EvOf(o), CallsOf(o), writes, storeMade)
      /\ o \notin storeOdd /\ cache[o] # None => CopyPlace(db[o], cache[o], PubOf(o), EvOf(o), CallsOf(o))
  BY DEF StoreInv
<1>9. PICK pub2 : pub2 = PubOf(o) \union {u}
  OBVIOUS
<1>10. /\ Kept(d2, cache[o], pub2, EvOf(o), CallsOf(o), writes + 1, storeMade)
       /\ cache[o] # None /\ CopyPlace(db[o], cache[o], PubOf(o), EvOf(o), CallsOf(o))
            => CopyPlace(d2, cache[o], pub2, EvOf(o), CallsOf(o))
  <2>1. pub2 \in SUBSET StoreUpdate /\ CallsOf(o) \in SUBSET StoreCall
    BY <1>4, <1>8, <1>9 DEF Kept, Typed
  <2>2. /\ PubOf(o) \subseteq pub2
        /\ \A x \in pub2 \ PubOf(o) : x.type = "read" \/ (x.type = "update" /\ x.val = d2)
    BY <1>4, <1>9
  <2>3. \A v : Underway(v, pub2, EvOf(o), CallsOf(o)) => v = d2 \/ Underway(v, PubOf(o), EvOf(o), CallsOf(o))
    BY <1>4, <1>9 DEF Underway
  <2>4. Named(cache[o], CallsOf(o), storeMade) /\ Answers(CallsOf(o))
        /\ (cache[o] = None => \A x \in CallsOf(o) : x.kind = "change")
    BY <1>8 DEF Kept, Numbered, StoreWrites
  <2>5. Carried(d2, cache[o], pub2, EvOf(o), CallsOf(o))
    BY <1>4, <1>9 DEF Carried
  <2> QED BY <1>1, <1>2, <1>8, <2>1, <2>2, <2>3, <2>4, <2>5, ContentChanged
<1>11. StoreTypes'
  BY <1>2, <1>4, <1>5 DEF StoreInv, StoreTypes
<1>12. writes <= writes' /\ storeMade <= storeMade' /\ storeOdd \subseteq storeOdd'
  BY <1>5 DEF StoreInv, StoreTypes
<1> QED BY ONLY StoreInv, o \in Objects, <1>2, <1>5, <1>6, <1>7, <1>8, <1>9, <1>10, <1>11, <1>12, StoreStep

LEMMA StoreServes ==
  ASSUME StoreInv, NEW c \in storeCalls, NEW publishes \in BOOLEAN, HandleChange(c, publishes)
  PROVE  StoreInv'
<1> USE DEF HandleChange
<1>1. PICK o \in Objects : o = c.o
  BY CallIsOf
<1>2. c \in StoreCall /\ c \in CallsOf(o) /\ c.kind = "change" /\ c.ans.type = "none"
  BY <1>1, CallIsOf, ElementTypes
<1>3. PICK d2 : d2 = [version |-> db[o].version + 1, content |-> writes + 1]
  OBVIOUS
<1>4. /\ ~Gone(db[o]) /\ d2 \in Val /\ db' = [db EXCEPT ![o] = d2] /\ db'[o] = d2
      /\ db' \in [Objects -> Val]
  BY <1>1, <1>3, NewContent
<1>5. PICK u : u = Updated(o, d2)
  OBVIOUS
<1>6. u \in StoreUpdate /\ u.o = o /\ u.type = "update" /\ u.val = d2
  BY <1>4, <1>5 DEF Updated, StoreUpdate
<1>7. PICK c2 : c2 = [c EXCEPT !.ans = [type |-> "update", val |-> d2]]
  OBVIOUS
<1>8. /\ c2 \in StoreCall /\ c2.id = c.id /\ c2.kind = "change" /\ c2.o = o
      /\ c2.ans.type = "update" /\ c2.ans.val = d2
  BY <1>1, <1>2, <1>4, <1>7 DEF StoreCall
<1>9. /\ storeCalls' = (storeCalls \ {c}) \union {c2} /\ writes' = writes + 1
      /\ publishing' \in {publishing, publishing \union {u}}
      /\ UNCHANGED <<events, cache, storeMade, storeOdd>>
  BY <1>1, <1>4, <1>5, <1>7 DEF AnswerCall
<1>10. PICK cs2, pub2 : cs2 = CallsOf(o)' /\ pub2 = PubOf(o)'
  OBVIOUS
<1>11. /\ pub2 \in {PubOf(o), PubOf(o) \union {u}} /\ EvOf(o)' = EvOf(o)
       /\ cs2 = (CallsOf(o) \ {c}) \union {c2}
  BY <1>1, <1>6, <1>8, <1>9, <1>10 DEF PubOf, EvOf, CallsOf
<1>12. \A q \in Objects : q # o => /\ db'[q] = db[q] /\ cache'[q] = cache[q]
                                   /\ PubOf(q)' = PubOf(q) /\ EvOf(q)' = EvOf(q)
                                   /\ CallsOf(q)' = CallsOf(q)
  BY <1>1, <1>4, <1>6, <1>8, <1>9 DEF PubOf, EvOf, CallsOf, StoreInv, StoreTypes
<1>13. /\ Kept(db[o], cache[o], PubOf(o), EvOf(o), CallsOf(o), writes, storeMade)
       /\ o \notin storeOdd /\ cache[o] # None => CopyPlace(db[o], cache[o], PubOf(o), EvOf(o), CallsOf(o))
  BY DEF StoreInv
<1>14. /\ Kept(d2, cache[o], pub2, EvOf(o), cs2, writes + 1, storeMade)
       /\ cache[o] # None /\ CopyPlace(db[o], cache[o], PubOf(o), EvOf(o), CallsOf(o))
            => CopyPlace(d2, cache[o], pub2, EvOf(o), cs2)
  <2>1. pub2 \in SUBSET StoreUpdate
    BY <1>6, <1>11, <1>13 DEF Kept, Typed
  <2>2. /\ PubOf(o) \subseteq pub2
        /\ \A x \in pub2 \ PubOf(o) : x.type = "read" \/ (x.type = "update" /\ x.val = d2)
    BY <1>6, <1>11
  <2>3. \A v : Underway(v, pub2, EvOf(o), cs2) => v = d2 \/ Underway(v, PubOf(o), EvOf(o), CallsOf(o))
    BY <1>6, <1>8, <1>11 DEF Underway
  <2>4. /\ cs2 \subseteq StoreCall /\ Pushes(cs2) = Pushes(CallsOf(o)) /\ Named(cache[o], cs2, storeMade)
        /\ Answers(cs2) /\ (cache[o] = None => \A x \in cs2 : x.kind = "change")
    <3>1. c.kind # "push" /\ c2.kind = c.kind
          /\ (c2.ans.type = "value" => c.kind \in {"fetch", "reload"})
          /\ (c2.ans.type = "update" => c.kind = "change")
      BY <1>2, <1>8
    <3> QED BY <1>2, <1>8, <1>11, <1>13, <3>1, CallReplaced
  <2>5. Carried(d2, cache[o], pub2, EvOf(o), cs2)
    BY <1>8, <1>11 DEF Carried
  <2> QED BY <1>3, <1>4, <1>13, <2>1, <2>2, <2>3, <2>4, <2>5, ContentChanged
<1>15. StoreTypes'
  BY <1>4, <1>6, <1>8, <1>9 DEF StoreInv, StoreTypes
<1>16. writes <= writes' /\ storeMade <= storeMade' /\ storeOdd \subseteq storeOdd'
  BY <1>9 DEF StoreInv, StoreTypes
<1> QED BY ONLY StoreInv, o \in Objects, <1>4, <1>9, <1>10, <1>11, <1>12, <1>13, <1>14, <1>15, <1>16, StoreStep

LEMMA StoreReads ==
  ASSUME StoreInv, NEW u \in publishing, ReadAgain(u)
  PROVE  StoreInv'
<1> USE DEF ReadAgain
<1>1. u \in StoreUpdate /\ u.type = "read"
  BY DEF StoreInv, StoreTypes
<1>2. PICK o \in Objects : o = u.o
  BY <1>1 DEF StoreUpdate
<1>3. PICK d : d = db[o]
  OBVIOUS
<1>4. PICK u2 : u2 = Updated(o, d)
  OBVIOUS
<1>5. d \in Val /\ u2 \in StoreUpdate /\ u2.o = o /\ u2.type = "update" /\ u2.val = d
  BY <1>3, <1>4 DEF Updated, StoreUpdate, StoreInv, StoreTypes
<1>6. /\ publishing' = (publishing \ {u}) \union (IF Gone(d) THEN {} ELSE {u2})
      /\ UNCHANGED <<db, events, storeCalls, cache, writes, storeMade, storeOdd>>
  BY <1>2, <1>3, <1>4 DEF Exists, Gone, Null
<1>7. PICK pub2 : pub2 = PubOf(o)'
  OBVIOUS
<1>8. /\ pub2 = (PubOf(o) \ {u}) \union (IF Gone(d) THEN {} ELSE {u2})
      /\ EvOf(o)' = EvOf(o) /\ CallsOf(o)' = CallsOf(o) /\ u \in PubOf(o)
  BY <1>2, <1>5, <1>6, <1>7 DEF PubOf, EvOf, CallsOf
<1>9. \A q \in Objects : q # o => /\ db'[q] = db[q] /\ cache'[q] = cache[q]
                                  /\ PubOf(q)' = PubOf(q) /\ EvOf(q)' = EvOf(q)
                                  /\ CallsOf(q)' = CallsOf(q)
  BY <1>2, <1>5, <1>6 DEF PubOf, EvOf, CallsOf
<1>10. /\ Kept(d, cache[o], PubOf(o), EvOf(o), CallsOf(o), writes, storeMade)
       /\ o \notin storeOdd /\ cache[o] # None => CopyPlace(d, cache[o], PubOf(o), EvOf(o), CallsOf(o))
  BY <1>3 DEF StoreInv
<1>11. /\ Kept(d, cache[o], pub2, EvOf(o), CallsOf(o), writes, storeMade)
       /\ CopyPlace(d, cache[o], PubOf(o), EvOf(o), CallsOf(o))
            => CopyPlace(d, cache[o], pub2, EvOf(o), CallsOf(o))
  BY <1>1, <1>5, <1>8, <1>10, ReadLater
<1>12. StoreTypes'
  BY <1>5, <1>6 DEF StoreInv, StoreTypes
<1>13. writes <= writes' /\ storeMade <= storeMade' /\ storeOdd \subseteq storeOdd'
  BY <1>6 DEF StoreInv, StoreTypes
<1> QED BY ONLY StoreInv, o \in Objects, <1>3, <1>6, <1>7, <1>8, <1>9, <1>10, <1>11, <1>12, <1>13, StoreStep

LEMMA StoreDeletes ==
  ASSUME StoreInv, NEW o \in Objects, Delete(o)
  PROVE  StoreInv'
<1> USE DEF Delete
<1>1. PICK d2 : d2 = Null
  OBVIOUS
<1>2. PICK u : u = Deleted(o)
  OBVIOUS
<1>3. /\ d2 \in Val /\ d2 = [version |-> 0, content |-> 0]
      /\ u \in StoreUpdate /\ u.o = o /\ u.type = "delete" /\ u.val = d2
  BY <1>1, <1>2, NullIsVal DEF Deleted, StoreUpdate
<1>4. /\ db' = [db EXCEPT ![o] = d2] /\ publishing' = publishing \union {u}
      /\ UNCHANGED <<events, storeCalls, cache, writes, storeMade, storeOdd>>
  BY <1>1, <1>2
<1>5. /\ PubOf(o)' = PubOf(o) \union {u} /\ EvOf(o)' = EvOf(o) /\ CallsOf(o)' = CallsOf(o)
      /\ db'[o] = d2
  BY <1>3, <1>4 DEF PubOf, EvOf, CallsOf, StoreInv, StoreTypes
<1>6. \A q \in Objects : q # o => /\ db'[q] = db[q] /\ cache'[q] = cache[q]
                                  /\ PubOf(q)' = PubOf(q) /\ EvOf(q)' = EvOf(q)
                                  /\ CallsOf(q)' = CallsOf(q)
  BY <1>3, <1>4 DEF PubOf, EvOf, CallsOf, StoreInv, StoreTypes
<1>7. Kept(db[o], cache[o], PubOf(o), EvOf(o), CallsOf(o), writes, storeMade)
  BY DEF StoreInv
<1>8. /\ Kept(d2, cache[o], PubOf(o) \union {u}, EvOf(o), CallsOf(o), writes, storeMade)
      /\ CopyPlace(d2, cache[o], PubOf(o) \union {u}, EvOf(o), CallsOf(o))
  BY <1>3, <1>7, Vanished
<1>9. StoreTypes'
  BY <1>3, <1>4 DEF StoreInv, StoreTypes
<1>10. writes <= writes' /\ storeMade <= storeMade' /\ storeOdd \subseteq storeOdd'
  BY <1>4 DEF StoreInv, StoreTypes
<1> QED BY ONLY StoreInv, o \in Objects, <1>4, <1>5, <1>6, <1>8, <1>9, <1>10, StoreStep

LEMMA StorePublishes ==
  ASSUME StoreInv, NEW u \in publishing, Publish(u)
  PROVE  StoreInv'
<1> USE DEF Publish
<1>1. u \in StoreUpdate /\ u.type # "read" /\ events \in Seq(StoreUpdate)
  BY DEF StoreInv, StoreTypes
<1>2. PICK o \in Objects : o = u.o
  BY <1>1 DEF StoreUpdate
<1>3. /\ publishing' = publishing \ {u} /\ storeOdd \subseteq storeOdd'
      /\ events' = IF sub = "made" THEN Append(events, u) ELSE events
      /\ o \notin storeOdd' /\ cache[o] # None => sub = "made"
      /\ UNCHANGED <<db, storeCalls, cache, writes, storeMade>>
  BY <1>2
<1>4. \A q \in Objects : EvOf(q)' = EvOf(q) \union (IF sub = "made" /\ q = o THEN {u} ELSE {})
  <2>1. \A q : InSeq(Append(events, u), q) = InSeq(events, q) \union {x \in {u} : x.o = q}
    BY <1>1, InAppended
  <2> QED BY <1>2, <1>3, <2>1 DEF EvOf
<1>5. PICK ev2 : ev2 = EvOf(o)'
  OBVIOUS
<1>6. /\ EvOf(o) \subseteq ev2 /\ ev2 \subseteq EvOf(o) \union {u}
      /\ o \notin storeOdd' /\ cache[o] # None => u \in ev2
      /\ u \in PubOf(o) /\ PubOf(o)' = PubOf(o) \ {u} /\ CallsOf(o)' = CallsOf(o)
  BY <1>2, <1>3, <1>4, <1>5 DEF PubOf, CallsOf
<1>7. \A q \in Objects : q # o => /\ db'[q] = db[q] /\ cache'[q] = cache[q]
                                  /\ PubOf(q)' = PubOf(q) /\ EvOf(q)' = EvOf(q)
                                  /\ CallsOf(q)' = CallsOf(q)
  BY <1>2, <1>3, <1>4 DEF PubOf, CallsOf
<1>8. /\ Kept(db[o], cache[o], PubOf(o), EvOf(o), CallsOf(o), writes, storeMade)
      /\ o \notin storeOdd /\ cache[o] # None => CopyPlace(db[o], cache[o], PubOf(o), EvOf(o), CallsOf(o))
  BY DEF StoreInv
<1>9. /\ Kept(db[o], cache[o], PubOf(o) \ {u}, ev2, CallsOf(o), writes, storeMade)
      /\ CopyPlace(db[o], cache[o], PubOf(o), EvOf(o), CallsOf(o)) /\ u \in ev2
           => CopyPlace(db[o], cache[o], PubOf(o) \ {u}, ev2, CallsOf(o))
  BY <1>1, <1>6, <1>8, Told
<1>10. o \notin storeOdd' /\ cache[o] # None => CopyPlace(db[o], cache[o], PubOf(o) \ {u}, ev2, CallsOf(o))
  BY <1>3, <1>6, <1>8, <1>9
<1>11. StoreTypes'
  <2>1. events' \in Seq(StoreUpdate)
    BY <1>1, <1>3, AppendProperties
  <2> QED BY <1>3, <2>1 DEF StoreInv, StoreTypes
<1>12. writes <= writes' /\ storeMade <= storeMade' /\ storeOdd \subseteq storeOdd'
  BY <1>3 DEF StoreInv, StoreTypes
<1> QED BY ONLY StoreInv, o \in Objects, <1>3, <1>5, <1>6, <1>7, <1>9, <1>10, <1>11, <1>12, StoreStep

LEMMA StoreFinds ==
  ASSUME StoreInv, NEW c \in storeCalls, GetObject(c)
  PROVE  StoreInv'
<1> USE DEF GetObject
<1>1. PICK o \in Objects : o = c.o
  BY CallIsOf
<1>2. c \in StoreCall /\ c \in CallsOf(o) /\ c.kind \in {"fetch", "reload"} /\ c.ans.type = "none"
  BY <1>1, CallIsOf, ElementTypes
<1>3. PICK d : d = db[o]
  OBVIOUS
<1>4. PICK c2 : c2 = [c EXCEPT !.ans = [type |-> "value", val |-> d]]
  OBVIOUS
<1>5. /\ c2 \in StoreCall /\ c2.id = c.id /\ c2.kind = c.kind /\ c2.o = o
      /\ c2.ans.type = "value" /\ c2.ans.val = d
  BY <1>1, <1>2, <1>3, <1>4 DEF StoreCall, StoreInv, StoreTypes
<1>6. /\ storeCalls' = (storeCalls \ {c}) \union {c2}
      /\ UNCHANGED <<db, publishing, events, cache, writes, storeMade, storeOdd>>
  BY <1>1, <1>3, <1>4 DEF AnswerCall
<1>7. PICK cs2 : cs2 = CallsOf(o)'
  OBVIOUS
<1>8. /\ cs2 = (CallsOf(o) \ {c}) \union {c2} /\ PubOf(o)' = PubOf(o) /\ EvOf(o)' = EvOf(o)
  BY <1>1, <1>5, <1>6, <1>7 DEF PubOf, EvOf, CallsOf
<1>9. \A q \in Objects : q # o => /\ db'[q] = db[q] /\ cache'[q] = cache[q]
                                  /\ PubOf(q)' = PubOf(q) /\ EvOf(q)' = EvOf(q)
                                  /\ CallsOf(q)' = CallsOf(q)
  BY <1>1, <1>5, <1>6 DEF PubOf, EvOf, CallsOf
<1>10. /\ Kept(d, cache[o], PubOf(o), EvOf(o), CallsOf(o), writes, storeMade)
       /\ o \notin storeOdd /\ cache[o] # None => CopyPlace(d, cache[o], PubOf(o), EvOf(o), CallsOf(o))
  BY <1>3 DEF StoreInv
<1>11. /\ Kept(d, cache[o], PubOf(o), EvOf(o), cs2, writes, storeMade)
       /\ CopyPlace(d, cache[o], PubOf(o), EvOf(o), CallsOf(o))
            => CopyPlace(d, cache[o], PubOf(o), EvOf(o), cs2)
  BY <1>2, <1>5, <1>8, <1>10, FoundInCache
<1>12. StoreTypes'
  BY <1>5, <1>6 DEF StoreInv, StoreTypes
<1>13. writes <= writes' /\ storeMade <= storeMade' /\ storeOdd \subseteq storeOdd'
  BY <1>6 DEF StoreInv, StoreTypes
<1> QED BY ONLY StoreInv, o \in Objects, <1>3, <1>6, <1>7, <1>8, <1>9, <1>10, <1>11, <1>12, <1>13, StoreStep

LEMMA StoreTakes ==
  ASSUME StoreInv, NEW c \in storeCalls, UpdateObject(c)
  PROVE  StoreInv'
<1> USE DEF UpdateObject
<1>1. PICK o \in Objects : o = c.o
  BY CallIsOf
<1>2. c \in StoreCall /\ c \in CallsOf(o) /\ c.kind = "push"
  BY <1>1, CallIsOf
<1>3. PICK d : d = db[o]
  OBVIOUS
<1>4. PICK d2 : d2 = IF Gone(d) THEN d ELSE [version |-> d.version + 1, content |-> c.val.content]
  OBVIOUS
<1>5. d \in Val /\ d2 \in Val
  <2>1. d \in Val
    BY <1>3 DEF StoreInv, StoreTypes
  <2>2. d.version \in Nat /\ c.val.content \in Nat
    BY <1>2, <2>1, ElementTypes
  <2> QED BY <1>4, <2>1, <2>2 DEF Val
<1>6. /\ db' = [db EXCEPT ![o] = d2] /\ storeCalls' = storeCalls \ {c} /\ storeOdd \subseteq storeOdd'
      /\ UNCHANGED <<publishing, events, cache, writes, storeMade>>
  <2>1. CASE Gone(d)
    BY <1>1, <1>3, <1>4, <2>1 DEF Exists, Gone, Null, StoreInv, StoreTypes
  <2>2. CASE ~Gone(d)
    BY <1>1, <1>3, <1>4, <2>2 DEF Exists, Gone, Null, DBUpdate
  <2> QED BY <2>1, <2>2
<1>7. o \notin storeOdd' => d.content = c.base /\ \A x \in CallsOf(o) : x.ans.type # "value"
  BY <1>1, <1>3 DEF CallsOf
<1>8. /\ PubOf(o)' = PubOf(o) /\ EvOf(o)' = EvOf(o) /\ CallsOf(o)' = CallsOf(o) \ {c} /\ db'[o] = d2
  BY <1>6 DEF PubOf, EvOf, CallsOf, StoreInv, StoreTypes
<1>9. \A q \in Objects : q # o => /\ db'[q] = db[q] /\ cache'[q] = cache[q]
                                  /\ PubOf(q)' = PubOf(q) /\ EvOf(q)' = EvOf(q)
                                  /\ CallsOf(q)' = CallsOf(q)
  BY <1>1, <1>6 DEF PubOf, EvOf, CallsOf, StoreInv, StoreTypes
<1>10. /\ Kept(d, cache[o], PubOf(o), EvOf(o), CallsOf(o), writes, storeMade)
       /\ o \notin storeOdd /\ cache[o] # None => CopyPlace(d, cache[o], PubOf(o), EvOf(o), CallsOf(o))
  BY <1>3 DEF StoreInv
<1>11. /\ Kept(d2, cache[o], PubOf(o), EvOf(o), CallsOf(o) \ {c}, writes, storeMade)
       /\ cache[o] # None /\ CopyPlace(d, cache[o], PubOf(o), EvOf(o), CallsOf(o))
          /\ d.content = c.base /\ (\A x \in CallsOf(o) : x.ans.type # "value")
            => CopyPlace(d2, cache[o], PubOf(o), EvOf(o), CallsOf(o) \ {c})
  BY <1>2, <1>4, <1>10, PushTaken
<1>12. o \notin storeOdd' /\ cache[o] # None =>
         CopyPlace(d2, cache[o], PubOf(o), EvOf(o), CallsOf(o) \ {c})
  BY <1>6, <1>7, <1>10, <1>11
<1>13. StoreTypes'
  BY <1>5, <1>6 DEF StoreInv, StoreTypes
<1>14. writes <= writes' /\ storeMade <= storeMade' /\ storeOdd \subseteq storeOdd'
  BY <1>6 DEF StoreInv, StoreTypes
<1> QED BY ONLY StoreInv, o \in Objects, <1>6, <1>8, <1>9, <1>11, <1>12, <1>13, <1>14, StoreStep

LEMMA StoreInvNext ==
  ASSUME NoneIsNoEntry, StoreInv, [StoreNext]_storeVars
  PROVE  StoreInv'
<1>1. CASE UNCHANGED storeVars
  BY <1>1, StoreSame DEF storeVars
<1>2. CASE initGlobalWaveEventSubs \/ EventSub
  BY <1>2, StoreSame DEF initGlobalWaveEventSubs, EventSub
<1>3. CASE HandleEvent
  BY <1>3, StoreHandles
<1>4. ASSUME NEW o \in Objects, Want(o)
      PROVE  StoreInv'
  BY <1>4, StoreWant
<1>5. ASSUME NEW o \in Objects, reloadWaveObject(o) \/ callBackendService(o)
      PROVE  StoreInv'
  BY <1>5, StoreAsks
<1>6. ASSUME NEW o \in Objects, setObjectValue(o)
      PROVE  StoreInv'
  BY <1>6, StoreSets
<1>7. ASSUME NEW o \in Objects, Delete(o)
      PROVE  StoreInv'
  BY <1>7, StoreDeletes
<1>8. ASSUME NEW o \in Objects, NEW again \in BOOLEAN, Change(o, again)
      PROVE  StoreInv'
  BY <1>8, StoreChange
<1>9. ASSUME NEW c \in storeCalls, FetchAnswered(c)
      PROVE  StoreInv'
  BY <1>9, StoreFetched
<1>10. ASSUME NEW c \in storeCalls, CallAnswered(c)
       PROVE  StoreInv'
  BY <1>10, StoreAnswered
<1>11. ASSUME NEW c \in storeCalls, StoreCallFails(c) \/ Refuse(c)
       PROVE  StoreInv'
  BY <1>11, StoreDrops
<1>12. ASSUME NEW c \in storeCalls, GetObject(c)
       PROVE  StoreInv'
  BY <1>12, StoreFinds
<1>13. ASSUME NEW c \in storeCalls, UpdateObject(c)
       PROVE  StoreInv'
  BY <1>13, StoreTakes
<1>14. ASSUME NEW c \in storeCalls, NEW publishes \in BOOLEAN, HandleChange(c, publishes)
       PROVE  StoreInv'
  BY <1>14, StoreServes
<1>15. ASSUME NEW u \in publishing, ReadAgain(u)
       PROVE  StoreInv'
  BY <1>15, StoreReads
<1>16. ASSUME NEW u \in publishing, Publish(u)
       PROVE  StoreInv'
  BY <1>16, StorePublishes
<1> QED
  BY <1>1, <1>2, <1>3, <1>4, <1>5, <1>6, <1>7, <1>8, <1>9, <1>10, <1>11, <1>12, <1>13, <1>14, <1>15, <1>16
     DEF StoreNext

\* With nothing on its way there is nothing left that could carry a value to the
\* page, so the page has it.
LEMMA StoreAtRest == StoreInv => ObjectsCurrent
<1> SUFFICES ASSUME StoreInv, publishing = {}, events = <<>>, storeCalls = {},
                    NEW o \in Objects, cache[o] # None, o \notin storeOdd
             PROVE  ~cache[o].loading /\ cache[o].value.content = db[o].content
  BY DEF ObjectsCurrent
<1>1. PICK d, e : d = db[o] /\ e = cache[o]
  OBVIOUS
<1>2. PubOf(o) = {} /\ EvOf(o) = {} /\ CallsOf(o) = {}
  BY DEF PubOf, EvOf, InSeq, CallsOf
<1>3. CopyPlace(d, e, {}, {}, {})
  BY <1>1, <1>2 DEF StoreInv
<1>4. CASE Gone(d)
  BY <1>1, <1>3, <1>4 DEF CopyPlace, GonePlace, Gone
<1>5. CASE ~Gone(d)
  BY <1>1, <1>3, <1>5 DEF CopyPlace, LivePlace, Pushes, Settled, Carried
<1> QED BY <1>4, <1>5

-----------------------------------------------------------------------------
(* Theorems. *)

\* When nothing is on its way an object of the page is what the database has, by
\* whichever of events, answers and own writes it came, if no fetch or write of it
\* was overtaken and nothing of it was lost (updateWaveObject, setObjectValue).
THEOREM ObjectsCurrentAlways ==
  StoreSpec => []ObjectsCurrent
<1>1. StoreInit => StoreInv
  BY StoreInvInit
<1>2. StoreInv /\ [StoreNext]_storeVars => StoreInv'
  BY StoreAssumption, StoreInvNext
<1>3. StoreInv => ObjectsCurrent
  BY StoreAtRest
<1> QED BY <1>1, <1>2, <1>3, PTL DEF StoreSpec

-----------------------------------------------------------------------------
(* Badges. *)

\* The badges that exist: each of an id of its own, so that of two one is greater.
Badge == [id : Nat, priority : Priorities, pidlinked : BOOLEAN]
Ordered(B) == B \subseteq Badge /\ \A x, y \in B : x.id = y.id => x = y
BadgeMaps(B) == [Orefs -> B \cup {NoBadge}]
BadgeKinds == {"set", "clear", "clearall", "clearbyid"}
BadgeEvents(B) ==
  {e \in [n : Nat, kind : BadgeKinds, oref : Orefs \cup {NoBadge}, badge : B \cup {NoBadge}, id : Nat] :
     e.kind = "set" => e.badge \in B}

\* x gives way to y.
Below(x, y) == x = y \/ x = NoBadge \/ (y # NoBadge /\ x # NoBadge /\ cmpBadge(y, x) > 0)
Same(X, Y) == (\A x \in X : \E y \in Y : Below(x, y)) /\ (\A y \in Y : \E x \in X : Below(y, x))

Kills(e, o, v) ==
  o \in About(e) /\ (e.kind \in {"clear", "clearall"} \/ (e.kind = "clearbyid" /\ v.id = e.id))
Puts(E, o) == {e.badge : e \in {f \in E : f.kind = "set" /\ o \in About(f)}}

\* What can be left at o once all of E have been handled where v is the badge.
Remains(v, E, o) == IF v # NoBadge /\ \E e \in E : Kills(e, o, v) THEN NoBadge ELSE v
Candidates(v, E, o) == {Remains(v, E, o)} \cup Puts(E, o)

\* No clear of o meets a badge of o.
Uniform(E, o) == \A e, f \in E : o \in About(e) \cap About(f) => (e.kind = "set" <=> f.kind = "set")

\* Of two badges one is greater, and the greater one stays.
LEMMA BelowOrder ==
  ASSUME NEW B, Ordered(B), NEW x \in B \cup {NoBadge}, NEW y \in B \cup {NoBadge}, NEW z \in B \cup {NoBadge}
  PROVE  /\ Below(x, y) \/ Below(y, x)
         /\ Below(x, y) /\ Below(y, x) => x = y
         /\ Below(x, y) /\ Below(y, z) => Below(x, z)
<1>1. \A b \in B : b # NoBadge /\ b.id \in Int /\ b.priority \in Int
  <2> SUFFICES ASSUME NEW b \in B PROVE b # NoBadge /\ b.id \in Int /\ b.priority \in Int
    OBVIOUS
  <2>1. b \in [id : Nat, priority : Priorities, pidlinked : BOOLEAN]
    BY DEF Ordered, Badge
  <2>2. b # NoBadge
    BY <2>1, BadgesAssumption
  <2>3. Priorities \subseteq Int
    BY BadgesAssumption
  <2>4. b.id \in Nat /\ b.priority \in Priorities
    BY <2>1
  <2>5. b.priority \in Int
    BY <2>3, <2>4
  <2> QED BY <2>2, <2>4, <2>5
<1>2. \A b, c \in B : b.id = c.id => b = c
  BY DEF Ordered
<1>3. Below(x, y) \/ Below(y, x)
  BY <1>1, <1>2 DEF Below, cmpBadge
<1>4. Below(x, y) /\ Below(y, x) => x = y
  BY <1>1, <1>2 DEF Below, cmpBadge
<1>5. ASSUME Below(x, y), Below(y, z) PROVE Below(x, z)
  <2>1. CASE x = NoBadge \/ x = y \/ y = z
    BY <1>5, <2>1 DEF Below
  <2>2. CASE x \in B /\ y \in B /\ x # y /\ y # z
    <3>1. /\ z \in B
          /\ y.priority > x.priority \/ (y.priority = x.priority /\ y.id > x.id)
          /\ z.priority > y.priority \/ (z.priority = y.priority /\ z.id > y.id)
      BY <1>1, <1>5, <2>2 DEF Below, cmpBadge
    <3>2. cmpBadge(z, x) > 0
      BY <1>1, <2>2, <3>1 DEF cmpBadge
    <3> QED BY <1>1, <2>2, <3>1, <3>2 DEF Below
  <2>3. y = NoBadge => x = NoBadge
    BY <1>5 DEF Below
  <2> QED BY <2>1, <2>2, <2>3
<1> QED BY <1>3, <1>4, <1>5

LEMMA SameOrder ==
  ASSUME NEW B, Ordered(B), NEW X \in SUBSET (B \cup {NoBadge}), NEW Y \in SUBSET (B \cup {NoBadge}),
         NEW Z \in SUBSET (B \cup {NoBadge})
  PROVE  /\ Same(X, X) /\ (Same(X, Y) => Same(Y, X))
         /\ Same(X, Y) /\ Same(Y, Z) => Same(X, Z)
<1>1. Same(X, X)
  BY DEF Same, Below
<1>2. Same(X, Y) => Same(Y, X)
  BY DEF Same
<1>3. ASSUME Same(X, Y), Same(Y, Z) PROVE Same(X, Z)
  <2>1. ASSUME NEW x \in X PROVE \E z \in Z : Below(x, z)
    <3>1. PICK y \in Y : Below(x, y)
      BY <1>3 DEF Same
    <3>2. PICK z \in Z : Below(y, z)
      BY <1>3 DEF Same
    <3> QED BY <3>1, <3>2, BelowOrder
  <2>2. ASSUME NEW z \in Z PROVE \E x \in X : Below(z, x)
    <3>1. PICK y \in Y : Below(z, y)
      BY <1>3 DEF Same
    <3>2. PICK x \in X : Below(y, x)
      BY <1>3 DEF Same
    <3> QED BY <3>1, <3>2, BelowOrder
  <2> QED BY <2>1, <2>2 DEF Same
<1> QED BY <1>1, <1>2, <1>3

LEMMA CandidatesTyped ==
  ASSUME NEW B, NEW v \in B \cup {NoBadge}, NEW E \in SUBSET BadgeEvents(B), NEW o
  PROVE  Candidates(v, E, o) \in SUBSET (B \cup {NoBadge}) /\ Remains(v, E, o) \in B \cup {NoBadge}
  BY DEF Candidates, Remains, Puts, BadgeEvents

\* What the handler does, oref by oref.
LEMMA HandledAt ==
  ASSUME NEW B, Ordered(B), NEW own \in BadgeMaps(B), NEW e \in BadgeEvents(B)
  PROVE  /\ Handled(own, e) \in BadgeMaps(B)
         /\ \A o \in Orefs :
              LET u == Handled(own, e)[o]
              IN /\ o \notin About(e) => u = own[o]
                 /\ o \in About(e) /\ e.kind = "set" =>
                      u \in {own[o], e.badge} /\ Below(own[o], u) /\ Below(e.badge, u)
                 /\ e.kind # "set" => u = IF own[o] # NoBadge /\ Kills(e, o, own[o]) THEN NoBadge ELSE own[o]
<1>1. /\ e.kind \in BadgeKinds /\ (e.kind = "set" => e.badge \in B) /\ \A o \in Orefs : own[o] \in B \cup {NoBadge}
  BY DEF BadgeEvents, BadgeMaps
<1>2. ASSUME NEW o \in Orefs
      PROVE  /\ Handled(own, e)[o] \in B \cup {NoBadge}
             /\ o \notin About(e) => Handled(own, e)[o] = own[o]
             /\ e.kind # "set" => Handled(own, e)[o] = IF own[o] # NoBadge /\ Kills(e, o, own[o]) THEN NoBadge ELSE own[o]
  BY <1>1 DEF Handled, Kills, About, BadgeKinds
<1>3. ASSUME NEW o \in Orefs, o \in About(e), e.kind = "set"
      PROVE  /\ Handled(own, e)[o] \in {own[o], e.badge}
             /\ Below(own[o], Handled(own, e)[o]) /\ Below(e.badge, Handled(own, e)[o])
  <2>1. Handled(own, e)[o] = IF own[o] = NoBadge \/ cmpBadge(e.badge, own[o]) > 0 THEN e.badge ELSE own[o]
    BY <1>3 DEF Handled, About
  <2>2. e.badge \in B /\ own[o] \in B \cup {NoBadge} /\ NoBadge \notin B
    BY <1>1, <1>3, BadgesAssumption DEF Ordered, Badge
  <2>3. Below(own[o], e.badge) \/ Below(e.badge, own[o])
    BY <2>2, BelowOrder
  <2> QED BY <2>1, <2>2, <2>3 DEF Below
<1>4. Handled(own, e) \in BadgeMaps(B)
  BY <1>2 DEF Handled, BadgeMaps
<1> QED BY <1>2, <1>3, <1>4

\* Handling an event that is under way leaves what can remain as it is.
LEMMA HandlingKeeps ==
  ASSUME NEW B, Ordered(B), NEW own \in BadgeMaps(B), NEW o \in Orefs,
         NEW E \in SUBSET BadgeEvents(B), NEW e \in E, NEW F \in SUBSET E, E \ {e} \subseteq F,
         Uniform(E, o)
  PROVE  Same(Candidates(Handled(own, e)[o], F, o), Candidates(own[o], E, o))
<1> DEFINE v == own[o]
           u == Handled(own, e)[o]
<1>1. v \in B \cup {NoBadge} /\ u \in B \cup {NoBadge} /\ e \in BadgeEvents(B)
  BY HandledAt DEF BadgeMaps
<1>2. CASE o \notin About(e)
  <2>1. u = v
    BY <1>1, <1>2, HandledAt
  <2>2. Remains(v, E, o) = Remains(v, F, o)
    BY <1>2 DEF Remains, Kills
  <2>3. Puts(E, o) = Puts(F, o)
    BY <1>2 DEF Puts
  <2> HIDE DEF u, v
  <2>4. Candidates(u, F, o) = Candidates(v, E, o)
    BY <2>1, <2>2, <2>3 DEF Candidates
  <2>5. Candidates(v, E, o) \in SUBSET (B \cup {NoBadge})
    BY <1>1, CandidatesTyped
  <2>6. Same(Candidates(u, F, o), Candidates(v, E, o))
    BY <2>4, <2>5, SameOrder
  <2> QED BY <2>6 DEF u, v
<1>3. CASE o \in About(e) /\ e.kind = "set"
  <2>1. u \in {v, e.badge} /\ Below(v, u) /\ Below(e.badge, u)
    BY <1>1, <1>3, HandledAt
  <2>2. \A f \in E : o \in About(f) => f.kind = "set"
    BY <1>3 DEF Uniform
  <2>3. \A x : Remains(x, E, o) = x /\ Remains(x, F, o) = x
    BY <2>2 DEF Remains, Kills
  <2>4. e.badge \in Puts(E, o) /\ Puts(F, o) \subseteq Puts(E, o) /\ Puts(E, o) \subseteq Puts(F, o) \cup {e.badge}
    BY <1>3 DEF Puts
  <2>5. Candidates(u, F, o) = {u} \cup Puts(F, o) /\ Candidates(v, E, o) = {v} \cup Puts(E, o)
    BY <2>3 DEF Candidates
  <2> HIDE DEF u, v
  <2>6. Same(Candidates(u, F, o), Candidates(v, E, o))
    <3>1. \A x \in {u} \cup Puts(F, o) : \E y \in {v} \cup Puts(E, o) : Below(x, y)
      BY <2>1, <2>4 DEF Below
    <3>2. \A y \in {v} \cup Puts(E, o) : \E x \in {u} \cup Puts(F, o) : Below(y, x)
      BY <2>1, <2>4 DEF Below
    <3> QED BY <2>5, <3>1, <3>2 DEF Same
  <2> QED BY <2>6 DEF u, v
<1>4. CASE o \in About(e) /\ e.kind # "set"
  <2>1. u = IF v # NoBadge /\ Kills(e, o, v) THEN NoBadge ELSE v
    BY <1>1, <1>4, HandledAt
  <2>2. \A f \in E : o \in About(f) => f.kind # "set"
    BY <1>4 DEF Uniform
  <2>3. Puts(E, o) = {} /\ Puts(F, o) = {}
    BY <2>2 DEF Puts
  <2> HIDE DEF u, v
  <2>4. Remains(u, F, o) = Remains(v, E, o)
    BY <2>1 DEF Remains
  <2>5. Candidates(u, F, o) = Candidates(v, E, o)
    BY <2>3, <2>4 DEF Candidates
  <2>6. Candidates(v, E, o) \in SUBSET (B \cup {NoBadge})
    BY <1>1, CandidatesTyped
  <2>7. Same(Candidates(u, F, o), Candidates(v, E, o))
    BY <2>5, <2>6, SameOrder
  <2> QED BY <2>7 DEF u, v
<1> QED BY <1>2, <1>3, <1>4

\* An event that everyone gets leaves two copies that go the same way on the same way.
LEMMA PublishingKeeps ==
  ASSUME NEW B, Ordered(B), NEW v \in B \cup {NoBadge}, NEW u \in B \cup {NoBadge}, NEW o \in Orefs,
         NEW S \in SUBSET BadgeEvents(B), NEW E \in SUBSET S, NEW F \in SUBSET S, NEW e \in S,
         Uniform(S, o), Same(Candidates(v, E, o), Candidates(u, F, o))
  PROVE  Same(Candidates(v, E \cup {e}, o), Candidates(u, F \cup {e}, o))
<1>0. /\ Candidates(v, E, o) \in SUBSET (B \cup {NoBadge}) /\ Candidates(u, F, o) \in SUBSET (B \cup {NoBadge})
      /\ Remains(v, E, o) \in B \cup {NoBadge} /\ Remains(u, F, o) \in B \cup {NoBadge}
  BY CandidatesTyped
<1>1. CASE o \notin About(e)
  <2>1. \A x : Remains(x, E \cup {e}, o) = Remains(x, E, o) /\ Remains(x, F \cup {e}, o) = Remains(x, F, o)
    BY <1>1 DEF Remains, Kills
  <2>2. Puts(E \cup {e}, o) = Puts(E, o) /\ Puts(F \cup {e}, o) = Puts(F, o)
    BY <1>1 DEF Puts
  <2> QED BY <2>1, <2>2 DEF Candidates
<1>2. CASE o \in About(e) /\ e.kind = "set"
  <2>1. \A f \in S : o \in About(f) => f.kind = "set"
    BY <1>2 DEF Uniform
  <2>2. \A x : \A G \in SUBSET S : Remains(x, G, o) = x
    BY <2>1 DEF Remains, Kills
  <2>3. Puts(E \cup {e}, o) = Puts(E, o) \cup {e.badge} /\ Puts(F \cup {e}, o) = Puts(F, o) \cup {e.badge}
    BY <1>2 DEF Puts
  <2>4. /\ Candidates(v, E \cup {e}, o) = Candidates(v, E, o) \cup {e.badge}
        /\ Candidates(u, F \cup {e}, o) = Candidates(u, F, o) \cup {e.badge}
    <3>1. /\ Remains(v, E \cup {e}, o) = v /\ Remains(v, E, o) = v
          /\ Remains(u, F \cup {e}, o) = u /\ Remains(u, F, o) = u
      BY <2>2
    <3> QED BY <2>3, <3>1, Zenon DEF Candidates
  <2> HIDE DEF Candidates
  <2>5. Below(e.badge, e.badge)
    BY DEF Below
  <2> QED BY <2>4, <2>5 DEF Same
<1>3. CASE o \in About(e) /\ e.kind # "set"
  <2>1. \A f \in S : o \in About(f) => f.kind # "set"
    BY <1>3 DEF Uniform
  <2>2. \A G \in SUBSET S : Puts(G, o) = {}
    BY <2>1 DEF Puts
  <2>3. \A x : \A G \in SUBSET S : Candidates(x, G, o) = {Remains(x, G, o)}
    BY <2>2 DEF Candidates
  <2>4. Remains(v, E, o) = Remains(u, F, o)
    <3>1. Below(Remains(v, E, o), Remains(u, F, o)) /\ Below(Remains(u, F, o), Remains(v, E, o))
      BY <2>3 DEF Same
    <3> QED BY <1>0, <3>1, BelowOrder
  <2>5. /\ Remains(v, E \cup {e}, o) = Remains(Remains(v, E, o), {e}, o)
        /\ Remains(u, F \cup {e}, o) = Remains(Remains(u, F, o), {e}, o)
    BY DEF Remains
  <2>6. Candidates(v, E \cup {e}, o) = Candidates(u, F \cup {e}, o)
    BY <2>3, <2>4, <2>5
  <2>7. Candidates(v, E \cup {e}, o) \in SUBSET (B \cup {NoBadge})
    <3>1. E \cup {e} \in SUBSET BadgeEvents(B)
      OBVIOUS
    <3> QED BY <3>1, CandidatesTyped
  <2> QED BY <2>6, <2>7, SameOrder
<1> QED BY <1>1, <1>2, <1>3

\* Handling q one by one, own becomes w.
Leads(own, q, w, B) ==
  \E h \in [0 .. Len(q) -> BadgeMaps(B)] :
    h[0] = own /\ h[Len(q)] = w /\ \A i \in 1 .. Len(q) : h[i] = Handled(h[i - 1], q[i])

LEMMA LeadsNowhere ==
  ASSUME NEW B, NEW own \in BadgeMaps(B)
  PROVE  Leads(own, <<>>, own, B) /\ \A w : Leads(own, <<>>, w, B) => w = own
<1>1. Len(<<>>) = 0
  OBVIOUS
<1>2. Leads(own, <<>>, own, B)
  <2>1. PICK h : h = [i \in 0 .. 0 |-> own]
    OBVIOUS
  <2>2. h \in [0 .. 0 -> BadgeMaps(B)] /\ h[0] = own
    BY <2>1
  <2>3. \A i \in 1 .. Len(<<>>) : h[i] = Handled(h[i - 1], (<<>>)[i])
    BY <1>1
  <2> QED BY <1>1, <2>2, <2>3 DEF Leads
<1> QED BY <1>1, <1>2 DEF Leads

LEMMA LeadsOn ==
  ASSUME NEW B, Ordered(B), NEW own \in BadgeMaps(B), NEW q \in Seq(BadgeEvents(B)), NEW e \in BadgeEvents(B),
         NEW w, Leads(own, q, w, B)
  PROVE  Leads(own, Append(q, e), Handled(w, e), B)
<1>1. PICK h \in [0 .. Len(q) -> BadgeMaps(B)] :
        h[0] = own /\ h[Len(q)] = w /\ \A i \in 1 .. Len(q) : h[i] = Handled(h[i - 1], q[i])
  BY DEF Leads
<1> DEFINE n == Len(q)
           q2 == Append(q, e)
           k == [i \in 0 .. n + 1 |-> IF i = n + 1 THEN Handled(w, e) ELSE h[i]]
<1>2. n \in Nat /\ Len(q2) = n + 1 /\ q2[n + 1] = e /\ \A i \in 1 .. n : q2[i] = q[i]
  OBVIOUS
<1>3. w \in BadgeMaps(B) /\ Handled(w, e) \in BadgeMaps(B)
  <2>1. w \in BadgeMaps(B)
    BY <1>1, <1>2
  <2> QED BY <2>1, HandledAt
<1> HIDE DEF n, q2
<1>4. k \in [0 .. n + 1 -> BadgeMaps(B)]
  BY <1>1, <1>2, <1>3 DEF n
<1>5. k[0] = own /\ k[n + 1] = Handled(w, e)
  BY <1>1, <1>2
<1>6. ASSUME NEW i \in 1 .. n + 1 PROVE k[i] = Handled(k[i - 1], q2[i])
  <2>1. CASE i = n + 1
    BY <1>1, <1>2, <2>1 DEF n
  <2>2. CASE i \in 1 .. n
    BY <1>1, <1>2, <2>2 DEF n
  <2> QED BY <1>2, <2>1, <2>2
<1> HIDE DEF k
<1>7. \E g \in [0 .. n + 1 -> BadgeMaps(B)] :
        g[0] = own /\ g[n + 1] = Handled(w, e) /\ \A i \in 1 .. n + 1 : g[i] = Handled(g[i - 1], q2[i])
  BY <1>4, <1>5, <1>6
<1>8. Leads(own, q2, Handled(w, e), B)
  BY <1>2, <1>7 DEF Leads
<1> QED BY <1>8 DEF q2

LEMMA LeadsFrom ==
  ASSUME NEW B, NEW own \in BadgeMaps(B), NEW q \in Seq(BadgeEvents(B)), q # <<>>,
         NEW w, Leads(own, q, w, B)
  PROVE  Leads(Handled(own, Head(q)), Tail(q), w, B)
<1>1. PICK h \in [0 .. Len(q) -> BadgeMaps(B)] :
        h[0] = own /\ h[Len(q)] = w /\ \A i \in 1 .. Len(q) : h[i] = Handled(h[i - 1], q[i])
  BY DEF Leads
<1>2. PICK n : n = Len(q) - 1
  OBVIOUS
<1>3. PICK q2 : q2 = Tail(q)
  OBVIOUS
<1>4. n \in Nat /\ Len(q) = n + 1 /\ Len(q2) = n /\ Head(q) = q[1] /\ \A i \in 1 .. n : q2[i] = q[i + 1]
  BY <1>2, <1>3
<1> DEFINE k == [i \in 0 .. n |-> h[i + 1]]
<1>5. k \in [0 .. n -> BadgeMaps(B)]
  BY <1>1, <1>4
<1>6. k[0] = Handled(own, Head(q)) /\ k[n] = w
  BY <1>1, <1>4
<1>7. ASSUME NEW i \in 1 .. n PROVE k[i] = Handled(k[i - 1], q2[i])
  <2>1. i + 1 \in 1 .. Len(q) /\ (i + 1) - 1 = i /\ i - 1 \in 0 .. n /\ i \in 0 .. n /\ (i - 1) + 1 = i
    BY <1>4
  <2>2. h[i + 1] = Handled(h[i], q[i + 1])
    BY <1>1, <2>1
  <2> QED BY <1>4, <2>1, <2>2
<1> HIDE DEF k
<1>8. \E g \in [0 .. n -> BadgeMaps(B)] :
        g[0] = Handled(own, Head(q)) /\ g[n] = w /\ \A i \in 1 .. n : g[i] = Handled(g[i - 1], q2[i])
  BY <1>5, <1>6, <1>7
<1> QED BY <1>3, <1>4, <1>8 DEF Leads

LEMMA LeadsWithMore ==
  ASSUME NEW B, NEW C, B \subseteq C, NEW own, NEW q, NEW w, Leads(own, q, w, B)
  PROVE  Leads(own, q, w, C)
<1>1. BadgeMaps(B) \subseteq BadgeMaps(C)
  BY DEF BadgeMaps
<1>2. [0 .. Len(q) -> BadgeMaps(B)] \subseteq [0 .. Len(q) -> BadgeMaps(C)]
  BY <1>1
<1> QED BY <1>2 DEF Leads

\* What is under way, and to whom.
Sent == {s.ev : s \in sending}
To(r) == {s.ev : s \in {x \in sending : r \in x.to}}
Level == Orefs \ apart

BadgeTypes(B) ==
  /\ made \in Nat /\ Ordered(B) /\ \A b \in B : b.id <= made
  /\ badges \in [Recipients -> BadgeMaps(B)] /\ snapshot \in [Pages -> BadgeMaps(B)]
  /\ phase \in [Pages -> {"new", "asking", "answered", "loaded", "subscribed"}]
  /\ asked \subseteq BadgeEvents(B)
  /\ sending \subseteq [ev : BadgeEvents(B), to : SUBSET Recipients]
  /\ \A s \in sending : s.to \subseteq Subscribed \cup {Backend}
  /\ inbox \in [Pages -> Seq(BadgeEvents(B))]

\* Once a page has handled its inbox it goes the backend's way.
Follows(p, B) ==
  \E w \in BadgeMaps(B) :
    /\ Leads(badges[p], inbox[p], w, B)
    /\ \A o \in Level : Same(Candidates(w[o], To(p), o), Candidates(badges[Backend][o], To(Backend), o))

\* A page that opens has what the backend has, and the backend gets nothing else.
Opens(p) ==
  /\ inbox[p] = <<>>
  /\ phase[p] # "loaded" => badges[p] = NoBadges
  /\ \A o \in Level :
       /\ phase[p] = "answered" => snapshot[p][o] = badges[Backend][o]
       /\ phase[p] = "loaded" => badges[p][o] = badges[Backend][o]
       /\ p \in Late => \A e \in To(Backend) : o \notin About(e)

BadgesPlace(B) ==
  /\ BadgeTypes(B)
  /\ \A o \in Level : Uniform(Sent, o)
  /\ \A p \in Pages : IF p \in Subscribed THEN Follows(p, B) ELSE Opens(p)

BadgesInv == \E B : BadgesPlace(B)

LEMMA BadgesInvInit == BadgesInit => BadgesInv
<1> SUFFICES ASSUME BadgesInit PROVE BadgesPlace({})
  BY DEF BadgesInv
<1>1. NoBadges \in BadgeMaps({})
  BY DEF NoBadges, BadgeMaps
<1>2. BadgeTypes({})
  <2>1. Ordered({}) /\ \A b \in {} : b.id <= made
    BY DEF Ordered
  <2>2. <<>> \in Seq(BadgeEvents({}))
    OBVIOUS
  <2> QED BY <1>1, <2>1, <2>2 DEF BadgesInit, BadgeTypes
<1>3. \A o \in Level : Uniform(Sent, o)
  BY DEF BadgesInit, Sent, Uniform
<1>4. \A p \in Pages : p \notin Subscribed /\ Opens(p)
  BY DEF BadgesInit, Subscribed, Late, Opens, Recipients
<1> QED BY <1>2, <1>3, <1>4 DEF BadgesPlace

LEMMA BadgesUnderWay ==
  ASSUME NEW B, BadgeTypes(B)
  PROVE  /\ Sent \in SUBSET BadgeEvents(B) /\ \A r : To(r) \in SUBSET Sent
         /\ \A r : To(r) # {} => r \in Subscribed \cup {Backend}
  BY DEF BadgeTypes, Sent, To

\* Publishing makes an event, and perhaps a badge with an id of its own.
LEMMA BadgesPublished ==
  ASSUME NEW B, BadgesPlace(B), NEW C, B \subseteq C, Ordered(C),
         made' \in Nat, made <= made', \A b \in C : b.id <= made',
         NEW es \in SUBSET BadgeEvents(C), asked' = asked \cup es,
         UNCHANGED <<badges, phase, snapshot, sending, inbox, apart>>
  PROVE  BadgesPlace(C)'
<1>1. BadgeMaps(B) \subseteq BadgeMaps(C) /\ BadgeEvents(B) \subseteq BadgeEvents(C)
  BY DEF BadgeMaps, BadgeEvents
<1>2. Sent' = Sent /\ Level' = Level /\ Subscribed' = Subscribed /\ Late' = Late /\ \A r : To(r)' = To(r)
  BY DEF Sent, To, Level, Subscribed, Late
<1>3. BadgeTypes(C)'
  <2>1. /\ badges' \in [Recipients -> BadgeMaps(C)] /\ snapshot' \in [Pages -> BadgeMaps(C)]
    BY <1>1 DEF BadgesPlace, BadgeTypes
  <2>2. asked' \subseteq BadgeEvents(C)
    BY <1>1 DEF BadgesPlace, BadgeTypes
  <2>3. sending' \subseteq [ev : BadgeEvents(C), to : SUBSET Recipients]
    <3>1. sending \subseteq [ev : BadgeEvents(B), to : SUBSET Recipients]
      BY DEF BadgesPlace, BadgeTypes
    <3>2. [ev : BadgeEvents(B), to : SUBSET Recipients] \subseteq [ev : BadgeEvents(C), to : SUBSET Recipients]
      BY <1>1
    <3> QED BY <3>1, <3>2
  <2>4. inbox' \in [Pages -> Seq(BadgeEvents(C))]
    <3>1. Seq(BadgeEvents(B)) \subseteq Seq(BadgeEvents(C))
      BY <1>1
    <3> QED BY <3>1 DEF BadgesPlace, BadgeTypes
  <2>5. phase' = phase /\ sending' = sending /\ Ordered(C)' 
    BY DEF Ordered, Badge
  <2> QED BY <1>2, <2>1, <2>2, <2>3, <2>4, <2>5 DEF BadgesPlace, BadgeTypes
<1>4. ASSUME NEW p \in Subscribed, Follows(p, B) PROVE Follows(p, C)'
  <2>1. PICK w \in BadgeMaps(B) :
          /\ Leads(badges[p], inbox[p], w, B)
          /\ \A o \in Level : Same(Candidates(w[o], To(p), o), Candidates(badges[Backend][o], To(Backend), o))
    BY <1>4 DEF Follows
  <2>2. Leads(badges[p], inbox[p], w, C) /\ w \in BadgeMaps(C)
    BY <1>1, <2>1, LeadsWithMore
  <2> QED BY <1>2, <2>1, <2>2 DEF Follows
<1>5. ASSUME NEW p \in Pages, Opens(p) PROVE Opens(p)'
  BY <1>2, <1>5 DEF Opens
<1>6. \A o \in Level' : Uniform(Sent, o)'
  BY <1>2 DEF BadgesPlace, Uniform
<1> QED BY <1>2, <1>3, <1>4, <1>5, <1>6 DEF BadgesPlace

\* The pages, wsh and the watcher of a process publish.
LEMMA ClearsPublished ==
  ASSUME NEW B, BadgesPlace(B), NEW es \in SUBSET BadgeEvents(B), Cardinality(es) \in Nat, PublishAll(es)
  PROVE  BadgesPlace(B)'
<1>1. made \in Nat /\ Ordered(B) /\ \A b \in B : b \in Badge /\ b.id <= made
  BY DEF BadgesPlace, BadgeTypes, Ordered
<1>2. made' \in Nat /\ made <= made'
  BY <1>1 DEF PublishAll
<1>3. \A b \in B : b.id <= made'
  BY <1>1, <1>2 DEF Badge
<1> QED BY <1>1, <1>2, <1>3, BadgesPublished DEF PublishAll

LEMMA ClearsOne ==
  ASSUME NEW B, BadgesPlace(B),
         \/ \E o \in Orefs : \/ WshClear(o) \/ \E p \in Pages : clearBadgesOnFocus(p, o)
                             \/ \E id \in 1 .. made : ClearById(id, o)
         \/ clearAllBadges
  PROVE  BadgesPlace(B)'
<1>1. made \in Nat
  BY DEF BadgesPlace, BadgeTypes
<1>2. PICK e \in BadgeEvents(B) : PublishAll({e})
  <2>1. ASSUME NEW o \in Orefs, WshClear(o) \/ \E p \in Pages : clearBadgesOnFocus(p, o)
        PROVE  \E e \in BadgeEvents(B) : PublishAll({e})
    <3>1. Event(made + 1, "clear", o, NoBadge, 0) \in BadgeEvents(B)
      BY <1>1 DEF Event, BadgeEvents, BadgeKinds
    <3> QED BY <2>1, <3>1 DEF WshClear, clearBadgesOnFocus
  <2>2. ASSUME NEW o \in Orefs, NEW id \in 1 .. made, ClearById(id, o)
        PROVE  \E e \in BadgeEvents(B) : PublishAll({e})
    <3>1. Event(made + 1, "clearbyid", o, NoBadge, id) \in BadgeEvents(B)
      BY <1>1 DEF Event, BadgeEvents, BadgeKinds
    <3> QED BY <2>2, <3>1 DEF ClearById
  <2>3. CASE clearAllBadges
    <3>1. Event(made + 1, "clearall", NoBadge, NoBadge, 0) \in BadgeEvents(B)
      BY <1>1 DEF Event, BadgeEvents, BadgeKinds
    <3> QED BY <2>3, <3>1 DEF clearAllBadges
  <2> QED BY <2>1, <2>2, <2>3
<1>3. {e} \in SUBSET BadgeEvents(B) /\ Cardinality({e}) \in Nat
  BY FS_Singleton
<1> QED BY <1>2, <1>3, ClearsPublished

LEMMA ClearsTab ==
  ASSUME NEW B, BadgesPlace(B), NEW p \in Pages, clearBadgesForTab(p)
  PROVE  BadgesPlace(B)'
<1>1. PICK with : with = {o \in Orefs : badges[p][o] # NoBadge}
  OBVIOUS
<1>2. PICK number \in [with -> made + 1 .. made + Cardinality(with)] :
        PublishAll({Event(number[o], "clear", o, NoBadge, 0) : o \in with})
  BY <1>1 DEF clearBadgesForTab
<1>3. made \in Nat
  BY DEF BadgesPlace, BadgeTypes
<1>4. IsFiniteSet(with) /\ Cardinality(with) \in Nat
  BY <1>1, BadgesAssumption, FS_Subset, FS_CardinalityType
<1> DEFINE es == {Event(number[o], "clear", o, NoBadge, 0) : o \in with}
<1>5. \A o \in with : Event(number[o], "clear", o, NoBadge, 0) \in BadgeEvents(B)
  <2> SUFFICES ASSUME NEW o \in with PROVE Event(number[o], "clear", o, NoBadge, 0) \in BadgeEvents(B)
    OBVIOUS
  <2>1. number[o] \in Nat
    BY <1>3, <1>4
  <2> QED BY <1>1, <2>1 DEF Event, BadgeEvents, BadgeKinds
<1>6. es \in SUBSET BadgeEvents(B)
  BY <1>5
<1>7. IsFiniteSet(es)
  <2>1. PICK f : f = [o \in with |-> Event(number[o], "clear", o, NoBadge, 0)]
    OBVIOUS
  <2>2. f \in Surjection(with, es)
    BY <2>1 DEF Surjection
  <2> QED BY <1>4, <2>2, FS_Surjection
<1>8. Cardinality(es) \in Nat
  BY <1>7, FS_CardinalityType
<1> QED BY <1>2, <1>6, <1>8, ClearsPublished

LEMMA BadgeSet ==
  ASSUME NEW B, BadgesPlace(B), NEW o \in Orefs, NEW priority \in Priorities, NEW pidlinked \in BOOLEAN,
         setBadge(o, priority, pidlinked)
  PROVE  BadgesInv'
<1>1. PICK b : b = [id |-> made + 1, priority |-> priority, pidlinked |-> pidlinked]
  OBVIOUS
<1>2. PICK e : e = Event(made + 1, "set", o, b, 0)
  OBVIOUS
<1>3. made \in Nat /\ Ordered(B) /\ \A x \in B : x \in Badge /\ x.id \in Nat /\ x.id <= made
  BY DEF BadgesPlace, BadgeTypes, Ordered, Badge
<1>4. b \in Badge /\ b.id = made + 1
  BY <1>1, <1>3 DEF Badge
<1> DEFINE C == B \cup {b}
<1>5. Ordered(C)
  <2>1. \A x \in B : x.id # b.id
    BY <1>3, <1>4
  <2> QED BY <1>3, <1>4, <2>1 DEF Ordered
<1>6. PublishAll({e}) /\ Cardinality({e}) = 1
  BY <1>1, <1>2, FS_Singleton DEF setBadge
<1>7. made' = made + 1 /\ made' \in Nat /\ made <= made'
  BY <1>3, <1>6 DEF PublishAll
<1>8. \A x \in C : x.id <= made'
  BY <1>3, <1>4, <1>7
<1>9. {e} \in SUBSET BadgeEvents(C)
  BY <1>2, <1>3 DEF Event, BadgeEvents, BadgeKinds
<1>10. B \subseteq C
  OBVIOUS
<1> HIDE DEF C
<1>11. BadgesPlace(C)'
  BY <1>5, <1>6, <1>7, <1>8, <1>9, <1>10, BadgesPublished DEF PublishAll
<1> QED BY <1>11 DEF BadgesInv

\* The broker takes an event: pages that follow get it with the backend, and an
\* oref at which it meets an event of the other kind is apart until it is healed.
LEMMA BadgeBroadcast ==
  ASSUME NEW B, BadgesPlace(B), NEW e \in asked, BrokerPublish(e)
  PROVE  BadgesPlace(B)'
<1> DEFINE all == Subscribed \cup {Backend}
<1>1. /\ asked' = asked \ {e} /\ sending' = sending \cup {[ev |-> e, to |-> all]}
      /\ apart' = (apart \ Healed(e)) \cup Crossing(e) \cup (IF Late = {} THEN {} ELSE About(e))
      /\ badges' = badges /\ phase' = phase /\ snapshot' = snapshot /\ inbox' = inbox /\ made' = made
  BY DEF BrokerPublish
<1>2. BadgeTypes(B) /\ e \in BadgeEvents(B)
  BY DEF BadgesPlace, BadgeTypes
<1>3. /\ Sent' = Sent \cup {e} /\ Subscribed' = Subscribed /\ Late' = Late
      /\ \A r \in all : To(r)' = To(r) \cup {e}
  <2>1. PICK s : s = [ev |-> e, to |-> all]
    OBVIOUS
  <2>2. sending' = sending \cup {s} /\ s.ev = e /\ s.to = all
    BY <1>1, <2>1
  <2> HIDE DEF all
  <2>3. Sent' = Sent \cup {e}
    BY <2>2 DEF Sent
  <2>4. \A r \in all : To(r)' = To(r) \cup {e}
    BY <2>2 DEF To
  <2> QED BY <1>1, <2>3, <2>4 DEF Subscribed, Late
<1>4. /\ Sent \in SUBSET BadgeEvents(B) /\ \A r : To(r) \in SUBSET Sent
  BY <1>2, BadgesUnderWay
<1>5. BadgeTypes(B)'
  <2>1. [ev |-> e, to |-> all] \in [ev : BadgeEvents(B), to : SUBSET Recipients]
    BY <1>2 DEF Subscribed, Recipients
  <2>2. sending' \subseteq [ev : BadgeEvents(B), to : SUBSET Recipients]
    BY <1>1, <1>2, <2>1 DEF BadgeTypes
  <2>3. \A s \in sending' : s.to \subseteq Subscribed \cup {Backend}
    BY <1>1, <1>2 DEF BadgeTypes
  <2>4. Ordered(B)' <=> Ordered(B)
    BY DEF Ordered, Badge
  <2> QED BY <1>1, <1>2, <1>3, <2>2, <2>3, <2>4 DEF BadgeTypes
<1>6. \A o \in Level' : o \in Level \/ o \in Healed(e)
  BY <1>1 DEF Level
<1>7. ASSUME NEW o \in Level'
      PROVE  Uniform(Sent \cup {e}, o)
  <2>1. CASE o \in Healed(e)
    <3>1. \A f \in Sent : o \notin About(f)
      BY <2>1 DEF Healed, Sent
    <3> QED BY <3>1 DEF Uniform
  <2>2. CASE o \in Level
    <3>1. Uniform(Sent, o)
      BY <2>2 DEF BadgesPlace
    <3>2. o \notin Crossing(e)
      BY <1>1, <1>7 DEF Level
    <3>3. ASSUME NEW f \in Sent, o \in About(e), o \in About(f) PROVE e.kind = "set" <=> f.kind = "set"
      BY <3>2, <3>3 DEF Crossing, Sent
    <3> QED BY <3>1, <3>3 DEF Uniform
  <2> QED BY <1>6, <2>1, <2>2
<1>8. ASSUME NEW p \in Subscribed, Follows(p, B) PROVE Follows(p, B)'
  <2>1. PICK w \in BadgeMaps(B) :
          /\ Leads(badges[p], inbox[p], w, B)
          /\ \A o \in Level : Same(Candidates(w[o], To(p), o), Candidates(badges[Backend][o], To(Backend), o))
    BY <1>8 DEF Follows
  <2>2. ASSUME NEW o \in Level'
        PROVE  Same(Candidates(w[o], To(p) \cup {e}, o), Candidates(badges[Backend][o], To(Backend) \cup {e}, o))
    <3>0. o \in Orefs /\ w[o] \in B \cup {NoBadge} /\ badges[Backend][o] \in B \cup {NoBadge}
      BY <1>2 DEF Level, BadgeTypes, BadgeMaps, Recipients
    <3>1. CASE o \in Level
      <4>1. Same(Candidates(w[o], To(p), o), Candidates(badges[Backend][o], To(Backend), o))
        BY <2>1, <3>1
      <4>2. Uniform(Sent \cup {e}, o)
        BY <1>7
      <4>3. /\ Sent \cup {e} \in SUBSET BadgeEvents(B) /\ e \in Sent \cup {e}
            /\ To(p) \in SUBSET (Sent \cup {e}) /\ To(Backend) \in SUBSET (Sent \cup {e})
        BY <1>2, <1>4
      <4>4. Ordered(B)
        BY <1>2 DEF BadgeTypes
      <4> HIDE DEF Level
      <4> QED BY <3>0, <4>1, <4>2, <4>3, <4>4, PublishingKeeps
    <3>2. CASE o \in Healed(e)
      <4>1. o \in About(e) /\ e.kind \in {"clear", "clearall"} /\ \A f \in Sent : o \notin About(f)
        BY <3>2 DEF Healed, Sent
      <4>2. \A E \in SUBSET Sent : \A v : Remains(v, E \cup {e}, o) = NoBadge
        BY <4>1 DEF Remains, Kills
      <4>3. \A E \in SUBSET Sent : Puts(E \cup {e}, o) = {}
        BY <4>1 DEF Puts
      <4>4. \A E \in SUBSET Sent : \A v : Candidates(v, E \cup {e}, o) = {NoBadge}
        BY <4>2, <4>3 DEF Candidates
      <4>5. Same({NoBadge}, {NoBadge})
        BY DEF Same, Below
      <4> QED BY <1>4, <4>4, <4>5
    <3> QED BY <1>6, <3>1, <3>2
  <2>3. badges' = badges /\ inbox' = inbox /\ To(p)' = To(p) \cup {e} /\ To(Backend)' = To(Backend) \cup {e}
    BY <1>1, <1>3
  <2> QED BY <2>1, <2>2, <2>3 DEF Follows
<1>9. ASSUME NEW p \in Pages, p \notin Subscribed, Opens(p) PROVE Opens(p)'
  <2>1. CASE p \in Late
    <3>1. Healed(e) = {} /\ Level' \subseteq Level /\ \A o \in Level' : o \notin About(e)
      BY <1>1, <2>1 DEF Healed, Level
    <3>2. \A o \in Level' : \A f \in To(Backend)' : o \notin About(f)
      BY <1>3, <1>9, <2>1, <3>1 DEF Opens
    <3> QED BY <1>1, <1>3, <1>9, <3>1, <3>2 DEF Opens
  <2>2. CASE p \notin Late
    BY <1>1, <1>3, <1>9, <2>2 DEF Opens, Late
  <2> QED BY <2>1, <2>2
<1> QED BY <1>3, <1>5, <1>7, <1>8, <1>9 DEF BadgesPlace

\* The event that r gets is no longer on its way to r, and nothing else changes.
LEMMA OneTaken ==
  ASSUME NEW B, BadgeTypes(B), NEW s \in sending, NEW r \in s.to,
         sending' = (sending \ {s}) \cup (IF s.to = {r} THEN {} ELSE {[s EXCEPT !.to = @ \ {r}]})
  PROVE  /\ s.ev \in To(r) /\ To(r) \ {s.ev} \subseteq To(r)' /\ To(r)' \subseteq To(r)
         /\ \A q : q # r => To(q)' = To(q)
         /\ Sent' \subseteq Sent
         /\ sending' \subseteq [ev : BadgeEvents(B), to : SUBSET Recipients]
         /\ \A x \in sending' : x.to \subseteq Subscribed \cup {Backend}
<1>1. s \in [ev : BadgeEvents(B), to : SUBSET Recipients] /\ s.to \subseteq Subscribed \cup {Backend}
  BY DEF BadgeTypes
<1>2. PICK t : t = [s EXCEPT !.to = @ \ {r}]
  OBVIOUS
<1>3. t \in [ev : BadgeEvents(B), to : SUBSET Recipients] /\ t.ev = s.ev /\ t.to = s.to \ {r}
  BY <1>1, <1>2
<1>4. /\ \A x \in sending' : (x \in sending /\ x # s) \/ (x = t /\ s.to # {r})
      /\ \A x \in sending : x # s => x \in sending'
      /\ s.to # {r} => t \in sending'
  BY <1>2
<1>5. s.ev \in To(r) /\ To(r) \ {s.ev} \subseteq To(r)'
  BY <1>4 DEF To
<1>6. To(r)' \subseteq To(r)
  BY <1>3, <1>4 DEF To
<1>7. ASSUME NEW q, q # r PROVE To(q)' = To(q)
  <2>1. ASSUME NEW x \in sending', q \in x.to PROVE x.ev \in To(q)
    BY <1>3, <1>4, <2>1 DEF To
  <2>2. ASSUME NEW x \in sending, q \in x.to PROVE x.ev \in To(q)'
    <3>1. CASE x # s
      BY <1>4, <2>2, <3>1 DEF To
    <3>2. CASE x = s
      <4>1. t \in sending' /\ q \in t.to /\ t.ev = x.ev
        BY <1>3, <1>4, <1>7, <2>2, <3>2
      <4> QED BY <4>1 DEF To
    <3> QED BY <3>1, <3>2
  <2> QED BY <2>1, <2>2 DEF To
<1>8. Sent' \subseteq Sent
  BY <1>3, <1>4 DEF Sent
<1>9. \A x \in sending' : x \in [ev : BadgeEvents(B), to : SUBSET Recipients] /\ x.to \subseteq Subscribed \cup {Backend}
  BY <1>1, <1>3, <1>4 DEF BadgeTypes
<1> QED BY <1>5, <1>6, <1>7, <1>8, <1>9

LEMMA UniformStays ==
  ASSUME NEW B, BadgesPlace(B), Level' \subseteq Level, Sent' \subseteq Sent
  PROVE  \A o \in Level' : Uniform(Sent, o)'
<1>1. \A o \in Level : Uniform(Sent, o)
  BY DEF BadgesPlace
<1> HIDE DEF Level, Sent
<1>2. ASSUME NEW o \in Level' PROVE Uniform(Sent', o)
  BY <1>1, <1>2 DEF Uniform
<1> QED BY <1>2 DEF Uniform

\* What happens elsewhere.
LEMMA FollowsStays ==
  ASSUME NEW B, NEW p, Follows(p, B), Level' \subseteq Level,
         badges'[p] = badges[p], badges'[Backend] = badges[Backend], inbox'[p] = inbox[p],
         To(p)' = To(p), To(Backend)' = To(Backend)
  PROVE  Follows(p, B)'
<1>1. PICK w \in BadgeMaps(B) :
        /\ Leads(badges[p], inbox[p], w, B)
        /\ \A o \in Level : Same(Candidates(w[o], To(p), o), Candidates(badges[Backend][o], To(Backend), o))
  BY DEF Follows
<1> QED BY <1>1 DEF Follows

LEMMA OpensStays ==
  ASSUME NEW p \in Pages, Opens(p), Level' \subseteq Level,
         badges'[p] = badges[p], badges'[Backend] = badges[Backend], inbox'[p] = inbox[p],
         phase'[p] = phase[p], snapshot'[p] = snapshot[p], To(Backend)' \subseteq To(Backend)
  PROVE  Opens(p)'
  BY DEF Opens, Late

\* A page gets an event.
LEMMA PageGets ==
  ASSUME NEW B, BadgesPlace(B), NEW s \in sending, NEW r \in s.to, r # Backend, SendEvent(s, r)
  PROVE  BadgesPlace(B)'
<1> DEFINE e == s.ev
<1>1. BadgeTypes(B) /\ Ordered(B) /\ r \in Pages /\ r \in Subscribed /\ e \in BadgeEvents(B)
  BY DEF BadgesPlace, BadgeTypes, Subscribed
<1>2. /\ sending' = (sending \ {s}) \cup (IF s.to = {r} THEN {} ELSE {[s EXCEPT !.to = @ \ {r}]})
      /\ inbox' = [inbox EXCEPT ![r] = Append(@, e)]
      /\ UNCHANGED <<badges, phase, snapshot, asked, made, apart>>
  BY DEF SendEvent
<1>3. /\ e \in To(r) /\ To(r) \ {e} \subseteq To(r)' /\ To(r)' \subseteq To(r)
      /\ \A q : q # r => To(q)' = To(q)
      /\ Sent' \subseteq Sent
      /\ sending' \subseteq [ev : BadgeEvents(B), to : SUBSET Recipients]
      /\ \A x \in sending' : x.to \subseteq Subscribed \cup {Backend}
  BY <1>1, <1>2, OneTaken
<1>4. Level' = Level /\ Subscribed' = Subscribed /\ To(Backend)' = To(Backend)
  BY <1>2, <1>3 DEF Level, Subscribed
<1>5. /\ inbox \in [Pages -> Seq(BadgeEvents(B))] /\ inbox'[r] = Append(inbox[r], e)
      /\ \A p \in Pages : p # r => inbox'[p] = inbox[p]
  BY <1>1, <1>2 DEF BadgeTypes
<1>6. BadgeTypes(B)'
  <2>1. inbox' \in [Pages -> Seq(BadgeEvents(B))]
    BY <1>1, <1>2, <1>5
  <2>2. Ordered(B)' <=> Ordered(B)
    BY DEF Ordered, Badge
  <2> QED BY <1>1, <1>2, <1>3, <1>4, <2>1, <2>2 DEF BadgeTypes
<1>7. Follows(r, B)'
  <2>1. PICK w \in BadgeMaps(B) :
          /\ Leads(badges[r], inbox[r], w, B)
          /\ \A o \in Level : Same(Candidates(w[o], To(r), o), Candidates(badges[Backend][o], To(Backend), o))
    BY <1>1 DEF BadgesPlace, Follows
  <2>2. badges[r] \in BadgeMaps(B) /\ inbox[r] \in Seq(BadgeEvents(B))
    BY <1>1, <1>5 DEF BadgeTypes, Recipients
  <2>3. Leads(badges[r], Append(inbox[r], e), Handled(w, e), B) /\ Handled(w, e) \in BadgeMaps(B)
    BY <1>1, <2>1, <2>2, LeadsOn, HandledAt
  <2>4. ASSUME NEW o \in Level
        PROVE  Same(Candidates(Handled(w, e)[o], To(r)', o), Candidates(badges[Backend][o], To(Backend), o))
    <3>1. o \in Orefs /\ Uniform(Sent, o)
      BY DEF Level, BadgesPlace
    <3>2. Sent \in SUBSET BadgeEvents(B) /\ To(r) \in SUBSET Sent /\ To(Backend) \in SUBSET Sent
      BY <1>1, BadgesUnderWay
    <3>3. Uniform(To(r), o)
      BY <3>1, <3>2 DEF Uniform
    <3> HIDE DEF Level
    <3>4. Same(Candidates(Handled(w, e)[o], To(r)', o), Candidates(w[o], To(r), o))
      BY <1>1, <1>3, <3>1, <3>2, <3>3, HandlingKeeps
    <3>5. Same(Candidates(w[o], To(r), o), Candidates(badges[Backend][o], To(Backend), o))
      BY <2>1
    <3>6. /\ Candidates(Handled(w, e)[o], To(r)', o) \in SUBSET (B \cup {NoBadge})
          /\ Candidates(w[o], To(r), o) \in SUBSET (B \cup {NoBadge})
          /\ Candidates(badges[Backend][o], To(Backend), o) \in SUBSET (B \cup {NoBadge})
      <4>1. /\ Handled(w, e)[o] \in B \cup {NoBadge} /\ w[o] \in B \cup {NoBadge}
            /\ badges[Backend][o] \in B \cup {NoBadge}
        BY <1>1, <2>1, <2>3, <3>1 DEF BadgeMaps, BadgeTypes, Recipients
      <4>2. /\ To(r)' \in SUBSET BadgeEvents(B) /\ To(r) \in SUBSET BadgeEvents(B)
            /\ To(Backend) \in SUBSET BadgeEvents(B)
        BY <1>3, <3>2
      <4> QED BY <4>1, <4>2, CandidatesTyped
    <3> QED BY <1>1, <3>4, <3>5, <3>6, SameOrder
  <2> QED BY <1>2, <1>4, <1>5, <2>3, <2>4 DEF Follows
<1>8. ASSUME NEW p \in Subscribed, p # r PROVE Follows(p, B)'
  <2>1. Follows(p, B) /\ p \in Pages
    BY DEF BadgesPlace, Subscribed
  <2> QED BY <1>2, <1>3, <1>4, <1>5, <1>8, <2>1, FollowsStays
<1>9. ASSUME NEW p \in Pages, p \notin Subscribed PROVE Opens(p)'
  <2>1. Opens(p) /\ p # r
    BY <1>1, <1>9 DEF BadgesPlace
  <2> QED BY <1>2, <1>4, <1>5, <2>1, OpensStays
<1>10. \A o \in Level' : Uniform(Sent, o)'
  BY <1>3, <1>4, UniformStays
<1> QED BY <1>4, <1>6, <1>7, <1>8, <1>9, <1>10 DEF BadgesPlace

\* The backend handles an event: of an oref that is level no opening page misses it.
LEMMA BackendHandles ==
  ASSUME NEW B, BadgesPlace(B), NEW s \in sending, Backend \in s.to, SendEvent(s, Backend)
  PROVE  BadgesPlace(B)'
<1> DEFINE e == s.ev
           own == badges[Backend]
<1>1. BadgeTypes(B) /\ Ordered(B) /\ e \in BadgeEvents(B) /\ own \in BadgeMaps(B)
  BY DEF BadgesPlace, BadgeTypes, Recipients
<1>2. /\ sending' = (sending \ {s}) \cup (IF s.to = {Backend} THEN {} ELSE {[s EXCEPT !.to = @ \ {Backend}]})
      /\ badges' = [badges EXCEPT ![Backend] = Handled(@, e)]
      /\ UNCHANGED <<inbox, phase, snapshot, asked, made, apart>>
  BY DEF SendEvent
<1>3. /\ e \in To(Backend) /\ To(Backend) \ {e} \subseteq To(Backend)' /\ To(Backend)' \subseteq To(Backend)
      /\ \A q : q # Backend => To(q)' = To(q)
      /\ Sent' \subseteq Sent
      /\ sending' \subseteq [ev : BadgeEvents(B), to : SUBSET Recipients]
      /\ \A x \in sending' : x.to \subseteq Subscribed \cup {Backend}
  BY <1>1, <1>2, OneTaken
<1>4. /\ badges \in [Recipients -> BadgeMaps(B)] /\ badges'[Backend] = Handled(own, e)
      /\ \A p \in Pages : p # Backend /\ badges'[p] = badges[p]
  BY <1>1, <1>2, BadgesAssumption DEF BadgeTypes, Recipients
<1>5. Level' = Level /\ Subscribed' = Subscribed /\ Late' = Late
  BY <1>2 DEF Level, Subscribed, Late
<1>6. Handled(own, e) \in BadgeMaps(B)
  BY <1>1, HandledAt
<1>7. BadgeTypes(B)'
  <2>1. badges' \in [Recipients -> BadgeMaps(B)]
    BY <1>2, <1>4, <1>6
  <2>2. Ordered(B)' <=> Ordered(B)
    BY DEF Ordered, Badge
  <2> QED BY <1>1, <1>2, <1>3, <1>5, <2>1, <2>2 DEF BadgeTypes
<1>8. ASSUME NEW p \in Subscribed PROVE Follows(p, B)'
  <2>1. Follows(p, B) /\ p \in Pages
    BY DEF BadgesPlace, Subscribed
  <2>2. PICK w \in BadgeMaps(B) :
          /\ Leads(badges[p], inbox[p], w, B)
          /\ \A o \in Level : Same(Candidates(w[o], To(p), o), Candidates(own[o], To(Backend), o))
    BY <2>1 DEF Follows
  <2>3. ASSUME NEW o \in Level
        PROVE  Same(Candidates(w[o], To(p), o), Candidates(Handled(own, e)[o], To(Backend)', o))
    <3>1. o \in Orefs /\ Uniform(Sent, o)
      BY DEF Level, BadgesPlace
    <3>2. Sent \in SUBSET BadgeEvents(B) /\ To(p) \in SUBSET Sent /\ To(Backend) \in SUBSET Sent
      BY <1>1, BadgesUnderWay
    <3>3. Uniform(To(Backend), o)
      BY <3>1, <3>2 DEF Uniform
    <3> HIDE DEF Level, own
    <3>4. Same(Candidates(Handled(own, e)[o], To(Backend)', o), Candidates(own[o], To(Backend), o))
      BY <1>1, <1>3, <3>1, <3>2, <3>3, HandlingKeeps
    <3>5. Same(Candidates(w[o], To(p), o), Candidates(own[o], To(Backend), o))
      BY <2>2
    <3>6. /\ Candidates(Handled(own, e)[o], To(Backend)', o) \in SUBSET (B \cup {NoBadge})
          /\ Candidates(w[o], To(p), o) \in SUBSET (B \cup {NoBadge})
          /\ Candidates(own[o], To(Backend), o) \in SUBSET (B \cup {NoBadge})
      <4>1. Handled(own, e)[o] \in B \cup {NoBadge} /\ w[o] \in B \cup {NoBadge} /\ own[o] \in B \cup {NoBadge}
        BY <1>1, <1>6, <2>2, <3>1 DEF BadgeMaps
      <4>2. /\ To(Backend)' \in SUBSET BadgeEvents(B) /\ To(p) \in SUBSET BadgeEvents(B)
            /\ To(Backend) \in SUBSET BadgeEvents(B)
        BY <1>3, <3>2
      <4> QED BY <4>1, <4>2, CandidatesTyped
    <3>7. Same(Candidates(own[o], To(Backend), o), Candidates(Handled(own, e)[o], To(Backend)', o))
      BY <1>1, <3>4, <3>6, SameOrder
    <3> QED BY <1>1, <3>5, <3>6, <3>7, SameOrder
  <2>4. To(p)' = To(p) /\ badges'[p] = badges[p] /\ inbox' = inbox
    BY <1>2, <1>3, <1>4, <2>1
  <2> QED BY <1>4, <1>5, <2>2, <2>3, <2>4 DEF Follows
<1>9. ASSUME NEW p \in Pages, p \notin Subscribed PROVE Opens(p)'
  <2>1. Opens(p)
    BY <1>9 DEF BadgesPlace
  <2>2. CASE p \in Late
    <3>1. \A o \in Level : badges'[Backend][o] = badges[Backend][o]
      <4> SUFFICES ASSUME NEW o \in Level PROVE Handled(own, e)[o] = own[o]
        BY <1>4
      <4>1. o \notin About(e) /\ o \in Orefs
        BY <1>3, <2>1, <2>2 DEF Opens, Level
      <4> QED BY <1>1, <4>1, HandledAt
    <3> QED BY <1>2, <1>3, <1>4, <1>5, <2>1, <3>1 DEF Opens
  <2>3. CASE p \notin Late
    BY <1>2, <1>4, <1>5, <2>1, <2>3 DEF Opens, Late
  <2> QED BY <2>2, <2>3
<1>10. \A o \in Level' : Uniform(Sent, o)'
  BY <1>3, <1>5, UniformStays
<1> QED BY <1>5, <1>7, <1>8, <1>9, <1>10 DEF BadgesPlace

\* A page handles what it got, as was foreseen.
LEMMA PageHandles ==
  ASSUME NEW B, BadgesPlace(B), NEW p \in Pages, HandleBadgeEvent(p)
  PROVE  BadgesPlace(B)'
<1>1. /\ BadgeTypes(B) /\ Ordered(B) /\ badges[p] \in BadgeMaps(B) /\ inbox[p] \in Seq(BadgeEvents(B))
      /\ p # Backend /\ inbox[p] # <<>>
  BY BadgesAssumption DEF BadgesPlace, BadgeTypes, Recipients, HandleBadgeEvent
<1>2. /\ badges' = [badges EXCEPT ![p] = Handled(@, Head(inbox[p]))]
      /\ inbox' = [inbox EXCEPT ![p] = Tail(@)]
      /\ UNCHANGED <<phase, snapshot, asked, sending, made, apart>>
  BY DEF HandleBadgeEvent
<1>3. p \in Subscribed /\ Follows(p, B)
  BY <1>1 DEF BadgesPlace, Opens
<1>4. Head(inbox[p]) \in BadgeEvents(B) /\ Tail(inbox[p]) \in Seq(BadgeEvents(B))
  BY <1>1
<1>5. Handled(badges[p], Head(inbox[p])) \in BadgeMaps(B)
  BY <1>1, <1>4, HandledAt
<1>6. /\ badges'[p] = Handled(badges[p], Head(inbox[p])) /\ inbox'[p] = Tail(inbox[p])
      /\ badges'[Backend] = badges[Backend]
      /\ \A q \in Pages : q # p => badges'[q] = badges[q] /\ inbox'[q] = inbox[q]
  BY <1>1, <1>2 DEF BadgeTypes, Recipients
<1>7. /\ Level' = Level /\ Subscribed' = Subscribed /\ Sent' = Sent /\ \A r : To(r)' = To(r)
  BY <1>2 DEF Level, Subscribed, Sent, To
<1>8. BadgeTypes(B)'
  <2>1. badges' \in [Recipients -> BadgeMaps(B)] /\ inbox' \in [Pages -> Seq(BadgeEvents(B))]
    BY <1>1, <1>2, <1>4, <1>5 DEF BadgeTypes
  <2>2. Ordered(B)' <=> Ordered(B)
    BY DEF Ordered, Badge
  <2> QED BY <1>1, <1>2, <1>7, <2>1, <2>2 DEF BadgeTypes
<1>9. Follows(p, B)'
  <2>1. PICK w \in BadgeMaps(B) :
          /\ Leads(badges[p], inbox[p], w, B)
          /\ \A o \in Level : Same(Candidates(w[o], To(p), o), Candidates(badges[Backend][o], To(Backend), o))
    BY <1>3 DEF Follows
  <2>2. Leads(Handled(badges[p], Head(inbox[p])), Tail(inbox[p]), w, B)
    BY <1>1, <2>1, LeadsFrom
  <2> QED BY <1>6, <1>7, <2>1, <2>2 DEF Follows
<1>10. ASSUME NEW q \in Subscribed, q # p PROVE Follows(q, B)'
  <2>1. Follows(q, B) /\ q \in Pages
    BY DEF BadgesPlace, Subscribed
  <2> QED BY <1>6, <1>7, <1>10, <2>1, FollowsStays
<1>11. ASSUME NEW q \in Pages, q \notin Subscribed PROVE Opens(q)'
  <2>1. Opens(q) /\ q # p
    BY <1>3, <1>11 DEF BadgesPlace
  <2> QED BY <1>2, <1>6, <1>7, <2>1, OpensStays
<1>12. \A o \in Level' : Uniform(Sent, o)'
  BY <1>7, UniformStays
<1> QED BY <1>7, <1>8, <1>9, <1>10, <1>11, <1>12 DEF BadgesPlace

\* A page opens: it has the backend's badges once it has been answered, but for the
\* orefs of which the backend has an event still to handle.
LEMMA PageOpens ==
  ASSUME NEW B, BadgesPlace(B), NEW p \in Pages,
         loadBadges(p) \/ GetAllBadges(p) \/ setupBadgesSubscription(p) \/ Subscribe(p)
  PROVE  BadgesPlace(B)'
<1>1. /\ BadgeTypes(B) /\ Ordered(B) /\ p \notin Subscribed /\ p # Backend
      /\ badges[p] \in BadgeMaps(B) /\ badges[Backend] \in BadgeMaps(B)
      /\ snapshot \in [Pages -> BadgeMaps(B)] /\ snapshot[p] \in BadgeMaps(B)
  BY BadgesAssumption DEF BadgesPlace, BadgeTypes, Recipients, Subscribed, loadBadges, GetAllBadges,
     setupBadgesSubscription, Subscribe, At
<1>2. Opens(p)
  BY <1>1 DEF BadgesPlace
<1>3. /\ UNCHANGED <<asked, sending, inbox, made>> /\ Sent' = Sent /\ \A r : To(r)' = To(r)
      /\ Level' \subseteq Level
      /\ \A q \in Pages : q # p => phase'[q] = phase[q] /\ snapshot'[q] = snapshot[q] /\ badges'[q] = badges[q]
      /\ badges'[Backend] = badges[Backend]
  BY <1>1 DEF BadgeTypes, Recipients, loadBadges, GetAllBadges, setupBadgesSubscription, Subscribe, At,
     Sent, To, Level
<1>4. /\ badges' \in [Recipients -> BadgeMaps(B)] /\ snapshot' \in [Pages -> BadgeMaps(B)]
      /\ phase' \in [Pages -> {"new", "asking", "answered", "loaded", "subscribed"}]
  <2>1. CASE loadBadges(p) \/ Subscribe(p)
    BY <1>1, <2>1 DEF BadgeTypes, loadBadges, Subscribe, At
  <2>2. CASE GetAllBadges(p)
    BY <1>1, <2>2 DEF BadgeTypes, GetAllBadges, At
  <2>3. CASE setupBadgesSubscription(p)
    <3>1. [o \in Orefs |-> IF snapshot[p][o] # NoBadge THEN snapshot[p][o] ELSE badges[p][o]] \in BadgeMaps(B)
      BY <1>1 DEF BadgeMaps
    <3>2. badges' = [badges EXCEPT ![p] = [o \in Orefs |-> IF snapshot[p][o] # NoBadge THEN snapshot[p][o] ELSE badges[p][o]]]
      BY <2>3 DEF setupBadgesSubscription
    <3> QED BY <1>1, <2>3, <3>1, <3>2 DEF BadgeTypes, setupBadgesSubscription, At
  <2> QED BY <2>1, <2>2, <2>3
<1>5. Subscribed \subseteq Subscribed' /\ \A q \in Pages : q # p => (q \in Subscribed' <=> q \in Subscribed)
  BY <1>1, <1>3 DEF Subscribed
<1>6. BadgeTypes(B)'
  <2>1. Ordered(B)' <=> Ordered(B)
    BY DEF Ordered, Badge
  <2> QED BY <1>1, <1>3, <1>4, <1>5, <2>1 DEF BadgeTypes
<1>7. ASSUME NEW q \in Subscribed PROVE Follows(q, B)'
  <2>1. Follows(q, B) /\ q \in Pages /\ q # p
    BY <1>1 DEF BadgesPlace, Subscribed
  <2> QED BY <1>3, <2>1, FollowsStays
<1>8. ASSUME NEW q \in Pages, q \notin Subscribed, q # p PROVE Opens(q)'
  <2>1. Opens(q)
    BY <1>8 DEF BadgesPlace
  <2> QED BY <1>3, <1>8, <2>1, OpensStays
<1>9. \A o \in Level' : Uniform(Sent, o)'
  BY <1>3, UniformStays
<1>10. IF p \in Subscribed' THEN Follows(p, B)' ELSE Opens(p)'
  <2>1. CASE loadBadges(p)
    <3>1. phase'[p] = "asking" /\ phase[p] = "new" /\ badges' = badges
      BY <1>1, <2>1 DEF loadBadges, At, BadgeTypes
    <3> QED BY <1>2, <1>3, <3>1 DEF Opens, Subscribed, Late
  <2>2. CASE GetAllBadges(p)
    <3>1. phase'[p] = "answered" /\ phase[p] = "asking" /\ badges' = badges /\ snapshot'[p] = badges[Backend]
      BY <1>1, <2>2 DEF GetAllBadges, At, BadgeTypes
    <3>2. \A o \in Level' : \A e \in To(Backend) : o \notin About(e)
      <4>1. apart' = apart \cup UNION {About(s.ev) : s \in {x \in sending : Backend \in x.to}}
        BY <2>2 DEF GetAllBadges
      <4>2. \A e \in To(Backend) : About(e) \subseteq apart'
        BY <4>1 DEF To
      <4> QED BY <4>2 DEF Level
    <3> QED BY <1>2, <1>3, <3>1, <3>2 DEF Opens, Subscribed, Late
  <2>3. CASE setupBadgesSubscription(p)
    <3>1. phase'[p] = "loaded" /\ phase[p] = "answered" /\ apart' = apart
      BY <1>1, <2>3 DEF setupBadgesSubscription, At, BadgeTypes
    <3>2. badges'[p] = [o \in Orefs |-> IF snapshot[p][o] # NoBadge THEN snapshot[p][o] ELSE badges[p][o]]
      BY <1>1, <2>3 DEF setupBadgesSubscription, BadgeTypes, Recipients
    <3>3. badges[p] = NoBadges
      BY <1>2, <3>1 DEF Opens
    <3>4. \A o \in Level' : badges'[p][o] = badges[Backend][o] /\ \A e \in To(Backend) : o \notin About(e)
      BY <1>2, <3>1, <3>2, <3>3 DEF Opens, Level, NoBadges, Late
    <3> QED BY <1>2, <1>3, <3>1, <3>4 DEF Opens, Subscribed, Late
  <2>4. CASE Subscribe(p)
    <3>1. phase'[p] = "subscribed" /\ phase[p] = "loaded" /\ badges' = badges /\ apart' = apart
      BY <1>1, <2>4 DEF Subscribe, At, BadgeTypes
    <3>2. inbox[p] = <<>> /\ Leads(badges[p], inbox[p], badges[p], B)
      BY <1>1, <1>2, LeadsNowhere DEF Opens
    <3>3. To(p) = {} /\ To(Backend) \in SUBSET BadgeEvents(B)
      <4>1. p \notin Subscribed \cup {Backend} /\ Sent \in SUBSET BadgeEvents(B) /\ To(Backend) \in SUBSET Sent
        BY <1>1, BadgesUnderWay
      <4> QED BY <1>1, <4>1, BadgesUnderWay
    <3>4. ASSUME NEW o \in Level
          PROVE  Same(Candidates(badges[p][o], To(p), o), Candidates(badges[Backend][o], To(Backend), o))
      <4>1. /\ badges[p][o] = badges[Backend][o] /\ o \in Orefs /\ badges[p][o] \in B \cup {NoBadge}
            /\ \A e \in To(Backend) : o \notin About(e)
        BY <1>1, <1>2, <3>1 DEF Opens, Late, Level, BadgeMaps
      <4>2. \A v : Remains(v, To(p), o) = v /\ Remains(v, To(Backend), o) = v
        BY <3>3, <4>1 DEF Remains, Kills
      <4>3. Puts(To(p), o) = {} /\ Puts(To(Backend), o) = {}
        BY <3>3, <4>1 DEF Puts
      <4>4. Candidates(badges[p][o], To(p), o) = {badges[p][o]} /\ Candidates(badges[Backend][o], To(Backend), o) = {badges[p][o]}
        BY <4>1, <4>2, <4>3 DEF Candidates
      <4> QED BY <4>4 DEF Same, Below
    <3>5. Follows(p, B)'
      BY <1>1, <1>3, <3>1, <3>2, <3>4 DEF Follows, Level
    <3> QED BY <3>1, <3>5 DEF Subscribed
  <2> QED BY <2>1, <2>2, <2>3, <2>4
<1> QED BY <1>3, <1>5, <1>6, <1>7, <1>8, <1>9, <1>10 DEF BadgesPlace

LEMMA BadgesInvNext == BadgesInv /\ [BadgesNext]_badgesVars => BadgesInv'
<1> SUFFICES ASSUME BadgesInv, [BadgesNext]_badgesVars PROVE BadgesInv'
  OBVIOUS
<1>1. PICK B : BadgesPlace(B)
  BY DEF BadgesInv
<1>2. ASSUME NEW o \in Orefs, NEW priority \in Priorities, NEW pidlinked \in BOOLEAN, setBadge(o, priority, pidlinked)
      PROVE  BadgesInv'
  BY <1>1, <1>2, BadgeSet
<1>3. CASE \/ \E o \in Orefs : \/ WshClear(o) \/ \E p \in Pages : clearBadgesOnFocus(p, o)
                               \/ \E id \in 1 .. made : ClearById(id, o)
           \/ clearAllBadges
  BY <1>1, <1>3, ClearsOne DEF BadgesInv
<1>4. ASSUME NEW p \in Pages, clearBadgesForTab(p) PROVE BadgesInv'
  BY <1>1, <1>4, ClearsTab DEF BadgesInv
<1>5. ASSUME NEW e \in asked, BrokerPublish(e) PROVE BadgesInv'
  BY <1>1, <1>5, BadgeBroadcast DEF BadgesInv
<1>6. ASSUME NEW s \in sending, NEW r \in s.to, SendEvent(s, r) PROVE BadgesInv'
  <2>1. CASE r = Backend
    BY <1>1, <1>6, <2>1, BackendHandles DEF BadgesInv
  <2>2. CASE r # Backend
    BY <1>1, <1>6, <2>2, PageGets DEF BadgesInv
  <2> QED BY <2>1, <2>2
<1>7. ASSUME NEW p \in Pages, HandleBadgeEvent(p) PROVE BadgesInv'
  BY <1>1, <1>7, PageHandles DEF BadgesInv
<1>8. ASSUME NEW p \in Pages, loadBadges(p) \/ GetAllBadges(p) \/ setupBadgesSubscription(p) \/ Subscribe(p)
      PROVE  BadgesInv'
  BY <1>1, <1>8, PageOpens DEF BadgesInv
<1>9. CASE UNCHANGED badgesVars
  <2>1. /\ made' \in Nat /\ made <= made' /\ Ordered(B) /\ \A b \in B : b.id <= made'
    BY <1>1, <1>9 DEF BadgesPlace, BadgeTypes, badgesVars
  <2>2. asked' = asked \cup {} /\ UNCHANGED <<badges, phase, snapshot, sending, inbox, apart>>
    BY <1>9 DEF badgesVars
  <2>3. BadgesPlace(B)'
    BY <1>1, <2>1, <2>2, BadgesPublished
  <2> QED BY <2>3 DEF BadgesInv
<1> QED BY <1>2, <1>3, <1>4, <1>5, <1>6, <1>7, <1>8, <1>9 DEF BadgesNext

\* At rest every page that has subscribed shows the backend's badge of each oref, in
\* whatever orders the events came (badge.ts:193, badge.go, wps.go:226), but for orefs
\* of which a clear met a badge or a page missed an event and nothing cleared since.
THEOREM BadgesAgreeAlways == BadgesSpec => []BadgesAgree
<1>1. BadgesInv => BadgesAgree
  <2> SUFFICES ASSUME BadgesInv, asked = {}, sending = {}, \A p \in Pages : inbox[p] = <<>>,
                      NEW p \in Subscribed, NEW o \in Orefs \ apart
               PROVE  badges[p][o] = badges[Backend][o]
    BY DEF BadgesAgree
  <2>1. PICK B : BadgesPlace(B)
    BY DEF BadgesInv
  <2>2. Follows(p, B) /\ p \in Pages /\ Ordered(B) /\ badges[p] \in BadgeMaps(B) /\ badges[Backend] \in BadgeMaps(B)
    BY <2>1 DEF BadgesPlace, BadgeTypes, Subscribed, Recipients
  <2>3. PICK w \in BadgeMaps(B) :
          /\ Leads(badges[p], inbox[p], w, B)
          /\ \A q \in Level : Same(Candidates(w[q], To(p), q), Candidates(badges[Backend][q], To(Backend), q))
    BY <2>2 DEF Follows
  <2>4. w = badges[p]
    BY <2>2, <2>3, LeadsNowhere
  <2>5. To(p) = {} /\ To(Backend) = {}
    BY DEF To
  <2>6. \A v : Candidates(v, {}, o) = {v}
    BY DEF Candidates, Remains, Puts
  <2>7. Same({badges[p][o]}, {badges[Backend][o]})
    BY <2>3, <2>4, <2>5, <2>6 DEF Level
  <2>8. Below(badges[p][o], badges[Backend][o]) /\ Below(badges[Backend][o], badges[p][o])
    BY <2>7 DEF Same
  <2>9. badges[p][o] \in B \cup {NoBadge} /\ badges[Backend][o] \in B \cup {NoBadge}
    BY <2>2 DEF BadgeMaps
  <2> QED BY <2>2, <2>8, <2>9, BelowOrder
<1> QED BY <1>1, BadgesInvInit, BadgesInvNext, PTL DEF BadgesSpec

-----------------------------------------------------------------------------
(* The update cycle that the views of apps share. *)

\* What an update cycle always satisfies: the timer that is queued is there, and it is
\* pending while its request is.
CycleOK(m, r) ==
  /\ m.queued = "quick" => m.quick > 0
  /\ m.queued = "slow" => m.slow > 0
  /\ m.pending <=> r # Absent

\* The cycle will send another request without being told to.
WillSend(m) == m.queued # "none" \/ (m.pending /\ m.immediate)

\* Every event of s was made before every event of t.
Precede(s, t) == \A i \in DOMAIN s, j \in DOMAIN t : s[i] < t[j]

\* The events the app ran, those on their way to it and those that are batched are
\* in the order they were made, each once.
InLine(ran, way, batch, n) ==
  /\ Rising(ran) /\ Rising(way) /\ Rising(batch)
  /\ Precede(ran, way) /\ Precede(ran, batch) /\ Precede(way, batch)
  /\ ToSet(ran) \subseteq 1 .. n /\ ToSet(way) \subseteq 1 .. n /\ ToSet(batch) \subseteq 1 .. n

-----------------------------------------------------------------------------
(* What the operators of an update cycle do. *)

\* A queued update keeps all but the timers, and there is a timer for it.
LEMMA QueueQueues ==
  ASSUME NEW m \in Cycles, NEW r, CycleOK(m, r), NEW kind \in {"quick", "slow"}, NEW due \in BOOLEAN,
         NEW n, n = QueueUpdate(m, kind, due)
  PROVE  /\ n \in Cycles /\ CycleOK(n, r) /\ n.queued # "none" /\ WillSend(n)
         /\ n.pending = m.pending /\ n.immediate = m.immediate /\ n.resync = m.resync
         /\ n.events = m.events /\ n.work = m.work
<1>1. CASE m.queued = "quick" \/ (m.queued = "slow" /\ (due \/ kind = "slow"))
  BY <1>1 DEF QueueUpdate, CycleOK, WillSend, Cycles
<1>2. CASE ~(m.queued = "quick" \/ (m.queued = "slow" /\ (due \/ kind = "slow"))) /\ kind = "quick"
  <2>1. n = [m EXCEPT !.queued = "quick", !.quick = m.quick + 1,
                      !.slow = IF m.queued = "slow" THEN m.slow - 1 ELSE m.slow]
    BY <1>2 DEF QueueUpdate
  <2>2. (IF m.queued = "slow" THEN m.slow - 1 ELSE m.slow) \in Nat
    BY DEF Cycles, CycleOK
  <2>3. m.quick + 1 \in Nat /\ m.quick + 1 > 0
    BY DEF Cycles
  <2> DEFINE l == IF m.queued = "slow" THEN m.slow - 1 ELSE m.slow
  <2> HIDE DEF l
  <2>4. n = [m EXCEPT !.queued = "quick", !.quick = m.quick + 1, !.slow = l] /\ l \in Nat
    BY <2>1, <2>2 DEF l
  <2> QED BY <2>3, <2>4 DEF CycleOK, WillSend, Cycles
<1>3. CASE ~(m.queued = "quick" \/ (m.queued = "slow" /\ (due \/ kind = "slow"))) /\ kind = "slow"
  <2>1. n = [m EXCEPT !.queued = "slow", !.slow = m.slow + 1]
    BY <1>3 DEF QueueUpdate
  <2>2. m.slow + 1 \in Nat /\ m.slow + 1 > 0
    BY DEF Cycles
  <2> QED BY <2>1, <2>2 DEF CycleOK, WillSend, Cycles
<1> QED BY <1>1, <1>2, <1>3

\* A timer that fires leaves none queued.
LEMMA TimerFires ==
  ASSUME NEW m \in Cycles, NEW r, CycleOK(m, r), NEW kind \in {"quick", "slow"}, Armed(m, kind),
         NEW n, n = Fired(m, kind)
  PROVE  /\ n \in Cycles /\ CycleOK(n, r) /\ n.queued = "none"
         /\ n.pending = m.pending /\ n.immediate = m.immediate /\ n.resync = m.resync
         /\ n.events = m.events /\ n.work = m.work
<1>1. CASE kind = "quick"
  <2>1. n = [m EXCEPT !.quick = m.quick - 1, !.queued = "none"]
    BY <1>1 DEF Fired
  <2>2. m.quick - 1 \in Nat
    BY <1>1 DEF Armed, Cycles
  <2> QED BY <2>1, <2>2 DEF Cycles, CycleOK
<1>2. CASE kind = "slow"
  <2>1. n = [m EXCEPT !.slow = m.slow - 1, !.queued = "none"]
    BY <1>2 DEF Fired
  <2>2. m.slow - 1 \in Nat
    BY <1>2 DEF Armed, Cycles
  <2> QED BY <2>1, <2>2 DEF Cycles, CycleOK
<1> QED BY <1>1, <1>2

\* A request that ends asks for another one when a quick timer met it.
LEMMA RequestSettles ==
  ASSUME NEW m \in Cycles, NEW r, CycleOK(m, r), NEW due \in BOOLEAN,
         NEW n, n = SettleRequest(m, due)
  PROVE  /\ n \in Cycles /\ CycleOK(n, Absent) /\ ~n.pending
         /\ n.events = m.events /\ n.work = m.work
         /\ m.queued # "none" \/ m.immediate => WillSend(n)
<1> DEFINE e == RequestEnded(m)
<1>1. /\ e \in Cycles /\ CycleOK(e, Absent) /\ ~e.pending /\ e.events = m.events /\ e.work = m.work
      /\ e.queued = m.queued
  BY DEF RequestEnded, Cycles, CycleOK
<1>2. n = IF m.immediate THEN QueueUpdate(e, "quick", due) ELSE e
  BY DEF SettleRequest
<1> HIDE DEF e
<1>3. CASE m.immediate
  <2>1. n = QueueUpdate(e, "quick", due)
    BY <1>2, <1>3
  <2>2. /\ n \in Cycles /\ CycleOK(n, Absent) /\ n.queued # "none" /\ WillSend(n)
        /\ n.pending = e.pending /\ n.immediate = e.immediate
        /\ n.events = e.events /\ n.work = e.work
    BY ONLY <1>1, <2>1, QueueQueues
  <2> QED BY <1>1, <1>3, <2>2
<1>4. CASE ~m.immediate
  BY <1>1, <1>2, <1>4 DEF WillSend
<1> QED BY <1>3, <1>4

\* The work of the backend queues an update.
LEMMA WorkRenews ==
  ASSUME NEW m \in Cycles, NEW r, CycleOK(m, r), NEW due \in BOOLEAN, NEW n, n = RenderDone(m, due)
  PROVE  /\ n \in Cycles /\ CycleOK(n, r)
         /\ n.pending = m.pending /\ n.immediate = m.immediate /\ n.events = m.events
         /\ m.work \/ m.queued # "none" => n.queued # "none"
<1> DEFINE e == [m EXCEPT !.work = FALSE]
<1>1. /\ e \in Cycles /\ CycleOK(e, r) /\ e.queued = m.queued
      /\ e.pending = m.pending /\ e.immediate = m.immediate /\ e.events = m.events
  BY DEF Cycles, CycleOK
<1>2. n = IF m.work THEN QueueUpdate(e, "quick", due) ELSE m
  BY DEF RenderDone
<1> HIDE DEF e
<1>3. CASE m.work
  <2>1. n = QueueUpdate(e, "quick", due)
    BY <1>2, <1>3
  <2>2. /\ n \in Cycles /\ CycleOK(n, r) /\ n.queued # "none" /\ WillSend(n)
        /\ n.pending = e.pending /\ n.immediate = e.immediate
        /\ n.events = e.events /\ n.work = e.work
    BY ONLY <1>1, <2>1, QueueQueues
  <2> QED BY <1>1, <1>3, <2>2
<1>4. CASE ~m.work
  BY <1>2, <1>4
<1> QED BY <1>3, <1>4

-----------------------------------------------------------------------------
(* Events in line. *)

\* Only the numbers of the events matter.
LEMMA RisingEmpty == Rising(<<>>) /\ ToSet(<<>>) = {} /\ \A s : Precede(s, <<>>) /\ Precede(<<>>, s)
  BY DEF Rising, Precede, ToSet

\* A new event goes to the end of the batch.
LEMMA EventInLine ==
  ASSUME NEW ran \in Seq(Nat), NEW way \in Seq(Nat), NEW batch \in Seq(Nat), NEW n \in Nat,
         InLine(ran, way, batch, n)
  PROVE  /\ InLine(ran, way, Append(batch, n + 1), n + 1)
         /\ ToSet(Append(batch, n + 1)) = ToSet(batch) \cup {n + 1}
<1> DEFINE b == Append(batch, n + 1)
<1>1. /\ b \in Seq(Nat) /\ Len(b) = Len(batch) + 1 /\ DOMAIN b = 1 .. Len(batch) + 1
      /\ DOMAIN batch = 1 .. Len(batch)
      /\ \A i \in 1 .. Len(batch) : b[i] = batch[i]
      /\ b[Len(batch) + 1] = n + 1
  BY AppendProperties
<1>2. /\ \A i \in DOMAIN ran : ran[i] \in 1 .. n
      /\ \A i \in DOMAIN way : way[i] \in 1 .. n
      /\ \A i \in DOMAIN batch : batch[i] \in 1 .. n
  BY DEF InLine, ToSet
<1> HIDE DEF b
<1>7. \A i \in DOMAIN b : (i \in DOMAIN batch /\ b[i] = batch[i]) \/ (i = Len(batch) + 1 /\ b[i] = n + 1)
  BY <1>1
<1>8. \A i \in DOMAIN batch : batch[i] < n + 1
  BY <1>2
<1>9. \A i \in DOMAIN b : i \in 1 .. Len(batch) + 1
  BY <1>1
<1>3. Rising(b)
  <2> SUFFICES ASSUME NEW i \in DOMAIN b, NEW j \in DOMAIN b, i < j PROVE b[i] < b[j]
    BY DEF Rising
  <2>1. i \in DOMAIN batch /\ b[i] = batch[i] /\ i <= Len(batch)
    BY <1>1, <1>7, <1>9
  <2>2. CASE j \in DOMAIN batch /\ b[j] = batch[j]
    BY <2>1, <2>2 DEF InLine, Rising
  <2>3. CASE b[j] = n + 1
    BY <1>8, <2>1, <2>3
  <2> QED BY <1>7, <2>2, <2>3
<1>4. Precede(ran, b) /\ Precede(way, b)
  <2>1. \A i \in DOMAIN ran : ran[i] < n + 1
    BY <1>2
  <2>2. \A i \in DOMAIN way : way[i] < n + 1
    BY <1>2
  <2> QED BY <1>7, <2>1, <2>2 DEF InLine, Precede
<1>5. ToSet(b) = ToSet(batch) \cup {n + 1}
  <2>1. n + 1 = b[Len(batch) + 1] /\ Len(batch) + 1 \in DOMAIN b
    BY <1>1
  <2>2. \A i \in DOMAIN batch : i \in DOMAIN b /\ b[i] = batch[i]
    BY <1>1
  <2> QED BY <1>7, <2>1, <2>2 DEF ToSet
<1>6. 1 .. n \subseteq 1 .. (n + 1)
  OBVIOUS
<1> QED BY <1>3, <1>4, <1>5, <1>6 DEF b, InLine

\* The batch goes with a request.
LEMMA BatchInLine ==
  ASSUME NEW ran, NEW batch, NEW n, InLine(ran, <<>>, batch, n)
  PROVE  InLine(ran, batch, <<>>, n)
  BY RisingEmpty DEF InLine

\* What is on the way, or batched, may get lost.
LEMMA LossInLine ==
  ASSUME NEW ran, NEW way, NEW batch, NEW n, InLine(ran, way, batch, n)
  PROVE  InLine(ran, <<>>, batch, n) /\ InLine(ran, way, <<>>, n) /\ InLine(ran, <<>>, <<>>, n)
  BY RisingEmpty DEF InLine

\* Only the first of what is on the way may be run.
LEMMA PartInLine ==
  ASSUME NEW ran, NEW way \in Seq(Nat), NEW batch, NEW n, InLine(ran, way, batch, n),
         NEW k \in 0 .. Len(way)
  PROVE  InLine(ran, SubSeq(way, 1, k), batch, n)
<1> DEFINE part == SubSeq(way, 1, k)
<1>1. DOMAIN part \subseteq DOMAIN way /\ \A i \in DOMAIN part : part[i] = way[i]
  <2>1. Len(way) \in Nat /\ DOMAIN way = 1 .. Len(way) /\ k \in 0 .. Len(way)
    OBVIOUS
  <2>2. DOMAIN part = 1 .. k /\ \A i \in 1 .. k : part[i] = way[i]
    BY <2>1
  <2> QED BY <2>1, <2>2
<1> HIDE DEF part
<1>2. Rising(part) /\ Precede(ran, part) /\ Precede(part, batch)
  BY <1>1 DEF InLine, Rising, Precede
<1>3. ToSet(part) \subseteq 1 .. n
  BY <1>1 DEF InLine, ToSet
<1> QED BY <1>2, <1>3 DEF InLine, part

\* The app runs what comes.
LEMMA RunInLine ==
  ASSUME NEW ran \in Seq(Nat), NEW way \in Seq(Nat), NEW batch \in Seq(Nat), NEW n, InLine(ran, way, batch, n)
  PROVE  InLine(ran \o way, <<>>, batch, n) /\ ToSet(ran \o way) = ToSet(ran) \cup ToSet(way)
<1> DEFINE s == ran \o way
<1>1. /\ s \in Seq(Nat) /\ DOMAIN s = 1 .. (Len(ran) + Len(way))
      /\ DOMAIN ran = 1 .. Len(ran) /\ DOMAIN way = 1 .. Len(way)
      /\ Len(ran) \in Nat /\ Len(way) \in Nat
      /\ \A i \in 1 .. Len(ran) : s[i] = ran[i]
      /\ \A i \in 1 .. Len(way) : s[Len(ran) + i] = way[i]
  BY ConcatProperties
<1> HIDE DEF s
<1>2. \A i \in DOMAIN s : \/ i \in DOMAIN ran /\ s[i] = ran[i]
                          \/ i - Len(ran) \in DOMAIN way /\ s[i] = way[i - Len(ran)] /\ i > Len(ran)
  BY <1>1
<1>3. Rising(s)
  <2> SUFFICES ASSUME NEW i \in DOMAIN s, NEW j \in DOMAIN s, i < j PROVE s[i] < s[j]
    BY DEF Rising
  <2>1. CASE i \in DOMAIN ran /\ j \in DOMAIN ran
    BY <1>1, <2>1 DEF InLine, Rising
  <2>2. CASE i \in DOMAIN ran /\ j \notin DOMAIN ran
    BY <1>1, <1>2, <2>2 DEF InLine, Precede
  <2>3. CASE i \notin DOMAIN ran
    <3>1. i \in Int /\ j \in Int /\ Len(ran) \in Int /\ j \notin DOMAIN ran
      BY <1>1, <2>3
    <3>2. /\ i - Len(ran) \in DOMAIN way /\ s[i] = way[i - Len(ran)]
          /\ j - Len(ran) \in DOMAIN way /\ s[j] = way[j - Len(ran)]
      BY <1>2, <2>3, <3>1
    <3>3. i - Len(ran) < j - Len(ran)
      BY <3>1
    <3> QED BY <3>2, <3>3 DEF InLine, Rising
  <2> QED BY <2>1, <2>2, <2>3
<1>4. Precede(s, batch)
  BY <1>2 DEF InLine, Precede
<1>5. ToSet(s) = ToSet(ran) \cup ToSet(way)
  <2>1. ToSet(s) \subseteq ToSet(ran) \cup ToSet(way)
    BY <1>2 DEF ToSet
  <2>2. ToSet(ran) \subseteq ToSet(s)
    BY <1>1 DEF ToSet
  <2>3. ToSet(way) \subseteq ToSet(s)
    <3> SUFFICES ASSUME NEW i \in DOMAIN way PROVE way[i] \in ToSet(s)
      BY DEF ToSet
    <3>1. Len(ran) + i \in DOMAIN s /\ s[Len(ran) + i] = way[i]
      BY <1>1
    <3> QED BY <3>1 DEF ToSet
  <2> QED BY <2>1, <2>2, <2>3
<1> QED BY <1>3, <1>4, <1>5, RisingEmpty DEF s, InLine

-----------------------------------------------------------------------------
(* A view of a Wave app, and its app. *)

\* The app has still to run the request; what it then carries.
OnWay == request # Absent /\ request.at = "sent"
ViewWay == IF OnWay THEN request.events ELSE <<>>

\* A view that can still hear of its app.
HearsOfApp == /\ waveApp.up /\ view.confirmed /\ ~view.disposed /\ ~view.closed
           /\ vdomOdd \cap {"unforced", "failed", "cut"} = {}

\* An update is still to be asked for, or on its way to be rendered.
ViewRenews == WillSend(view.m) \/ OnWay \/ link.nudges > 0

\* A request that was answered has chunks, unless it has ended the app or the app panicked;
\* all of them come unless the answer is cut.
ViewAnswers ==
  request # Absent =>
    /\ request.got <= request.coming /\ request.coming <= request.chunks
    /\ request.at = "answered" /\ waveApp.up /\ "failed" \notin vdomOdd => request.chunks > 0
    /\ request.at = "sent" => request.chunks = 0
    /\ "cut" \notin vdomOdd => request.coming = request.chunks /\ request.head

\* A view that follows its app will ask again, or its answer or what it shows is the app's
\* state; it will send what is batched; and an effect waits only until a render.
ViewFollows ==
  HearsOfApp =>
    /\ ViewRenews \/ (IF request = Absent THEN view.root ELSE request.version) = waveApp.version
    /\ view.m.events # <<>> => WillSend(view.m)
    /\ waveApp.effect => \/ ViewRenews \/ (request # Absent /\ request.hasWork)
                         \/ (view.m.work /\ view.version)

ViewEventsKept ==
  waveApp.up /\ "failed" \notin vdomOdd =>
    1 .. vdomCount.inputs \subseteq ToSet(vdomRan) \cup ToSet(ViewWay) \cup ToSet(view.m.events)

VDomInv ==
  /\ VDomTypeOK /\ CycleOK(view.m, request) /\ ViewAnswers /\ ViewFollows /\ WholeUpdates
  /\ ViewEventsKept
  /\ InLine(vdomRan, ViewWay, view.m.events, vdomCount.inputs)

-----------------------------------------------------------------------------
(* The steps of a Wave app and its view. *)

ViewStates == [m : Cycles, confirmed : BOOLEAN, disposing : BOOLEAN, disposed : BOOLEAN, closed : BOOLEAN,
               root : Nat \cup {Absent}, whole : BOOLEAN, version : BOOLEAN, persist : BOOLEAN]

\* An update that is queued unless the view is disposed.
LEMMA QueueInView ==
  ASSUME NEW p \in ViewStates, NEW r, CycleOK(p.m, r), NEW kind \in {"quick", "slow"}, NEW due \in BOOLEAN,
         NEW n, n = QueueUnlessDisposed(p, kind, due)
  PROVE  /\ n \in ViewStates /\ CycleOK(n.m, r)
         /\ n.confirmed = p.confirmed /\ n.disposing = p.disposing /\ n.disposed = p.disposed
         /\ n.closed = p.closed /\ n.root = p.root /\ n.whole = p.whole /\ n.version = p.version
         /\ n.m.pending = p.m.pending /\ n.m.immediate = p.m.immediate
         /\ n.m.events = p.m.events /\ n.m.work = p.m.work
         /\ ~p.disposed \/ WillSend(p.m) => WillSend(n.m)
<1>1. CASE p.disposed
  BY <1>1 DEF QueueUnlessDisposed
<1>2. CASE ~p.disposed
  <2>1. PICK m : m = p.m
    OBVIOUS
  <2>2. PICK k : k = QueueUpdate(m, kind, due)
    OBVIOUS
  <2>3. m \in Cycles /\ CycleOK(m, r)
    BY <2>1 DEF ViewStates
  <2>4. /\ k \in Cycles /\ CycleOK(k, r) /\ WillSend(k)
        /\ k.pending = m.pending /\ k.immediate = m.immediate
        /\ k.events = m.events /\ k.work = m.work
    BY <2>2, <2>3, QueueQueues
  <2>5. n = [p EXCEPT !.m = k]
    BY <1>2, <2>1, <2>2 DEF QueueUnlessDisposed
  <2> QED BY <1>2, <2>1, <2>4, <2>5 DEF ViewStates
<1> QED BY <1>1, <1>2

\* The parts of the invariant, by name.
LEMMA VDomParts ==
  ASSUME VDomInv
  PROVE  /\ view \in ViewStates /\ view.m \in Cycles /\ CycleOK(view.m, request)
         /\ waveApp \in [up : BOOLEAN, version : Nat, effect : BOOLEAN]
         /\ link \in [wait : {"asked", "yes", "no", "done"}, subscribed : BOOLEAN, down : BOOLEAN, nudges : Nat]
         /\ request \in Requests \cup {Absent}
         /\ vdomCount \in [inputs : Nat, changes : Nat, effects : Nat, faults : Nat] /\ vdomCount.inputs \in Nat
         /\ vdomRan \in Seq(Nat) /\ view.m.events \in Seq(Nat) /\ ViewWay \in Seq(Nat)
         /\ vdomOdd \subseteq {"missed", "unforced", "failed", "cut"}
         /\ ViewAnswers /\ ViewFollows /\ WholeUpdates /\ ViewEventsKept
         /\ InLine(vdomRan, ViewWay, view.m.events, vdomCount.inputs)
<1>1. /\ view \in ViewStates /\ CycleOK(view.m, request)
      /\ request \in Requests \cup {Absent}
  BY DEF VDomInv, VDomTypeOK, ViewStates
<1>2. view.m \in Cycles
  BY <1>1 DEF ViewStates
<1>3. view.m.events \in Seq(Nat)
  BY <1>2 DEF Cycles
<1>4. ViewWay \in Seq(Nat)
  BY <1>1 DEF ViewWay, OnWay, Requests
<1> QED BY <1>1, <1>2, <1>3, <1>4 DEF VDomInv, VDomTypeOK

\* A view starts with an update that is queued.
LEMMA FreshQueued ==
  ASSUME NEW q, q = QueueUpdate(Fresh, "quick", FALSE)
  PROVE  q \in Cycles /\ CycleOK(q, Absent) /\ q.events = <<>> /\ q.work = FALSE /\ WillSend(q)
<1>1. q = [queued |-> "quick", quick |-> 1, slow |-> 0, pending |-> FALSE, immediate |-> FALSE,
           resync |-> TRUE, events |-> <<>>, work |-> FALSE]
  <2>1. PICK f : f = Fresh
    OBVIOUS
  <2>2. /\ f.queued = "none" /\ f.quick = 0 /\ f.slow = 0
        /\ f = [queued |-> "none", quick |-> 0, slow |-> 0, pending |-> FALSE, immediate |-> FALSE,
                resync |-> TRUE, events |-> <<>>, work |-> FALSE]
    BY <2>1 DEF Fresh
  <2>3. q = QueueUpdate(f, "quick", FALSE)
    BY <2>1
  <2> DEFINE l == IF f.queued = "slow" THEN f.slow - 1 ELSE f.slow
  <2>4. q = [f EXCEPT !.queued = "quick", !.quick = f.quick + 1, !.slow = l]
    BY <2>2, <2>3 DEF QueueUpdate
  <2>5. l = 0
    BY <2>2
  <2>6. f.quick + 1 = 1
    BY <2>2
  <2> HIDE DEF l
  <2>7. q = [f EXCEPT !.queued = "quick", !.quick = 1, !.slow = 0]
    BY <2>4, <2>5, <2>6
  <2> QED BY ONLY <2>2, <2>7
<1>2. q \in Cycles /\ CycleOK(q, Absent) /\ q.events = <<>> /\ q.work = FALSE /\ WillSend(q)
  <2>1. /\ q.queued = "quick" /\ q.quick = 1 /\ q.slow = 0 /\ q.pending = FALSE /\ q.work = FALSE
        /\ q.events = <<>>
    BY ONLY <1>1
  <2>2. q \in Cycles
    BY ONLY <1>1 DEF Cycles
  <2>3. 1 > 0 /\ "quick" # "slow" /\ "quick" # "none"
    OBVIOUS
  <2>4. CycleOK(q, Absent) /\ WillSend(q)
    BY ONLY <2>1, <2>3 DEF CycleOK, WillSend
  <2> QED BY <2>1, <2>2, <2>4
<1> QED BY <1>2

\* Initially an update is queued.
LEMMA VDomInitInv == VDomInit => VDomInv
<1> SUFFICES ASSUME VDomInit PROVE VDomInv
  OBVIOUS
<1>4. PICK q : q = QueueUpdate(Fresh, "quick", FALSE)
  OBVIOUS
<1>6. q \in Cycles /\ CycleOK(q, Absent) /\ q.events = <<>> /\ q.work = FALSE /\ WillSend(q)
  BY <1>4, FreshQueued
<1>7. PICK persist \in BOOLEAN :
        view = [m |-> q, confirmed |-> FALSE, disposing |-> FALSE,
                disposed |-> FALSE, closed |-> FALSE, root |-> Absent, whole |-> TRUE,
                version |-> FALSE, persist |-> persist]
  BY <1>4 DEF VDomInit
<1>8. /\ request = Absent /\ vdomRan = <<>> /\ vdomOdd = {}
      /\ vdomCount = [inputs |-> 0, changes |-> 0, effects |-> 0, faults |-> 0]
      /\ link = [wait |-> "asked", subscribed |-> FALSE, down |-> FALSE, nudges |-> 0]
      /\ waveApp \in [up : BOOLEAN, version : Nat, effect : BOOLEAN]
  BY DEF VDomInit
<1>9. view \in ViewStates /\ view.m = q /\ view.whole = TRUE /\ view.confirmed = FALSE
  BY <1>6, <1>7 DEF ViewStates
<1>10. VDomTypeOK
  BY <1>8, <1>9 DEF VDomTypeOK, ViewStates
<1>11. ViewWay = <<>>
  BY <1>8 DEF ViewWay, OnWay
<1>12. InLine(vdomRan, ViewWay, view.m.events, vdomCount.inputs)
  BY <1>6, <1>8, <1>9, <1>11, RisingEmpty DEF InLine
<1>13. ViewEventsKept
  BY <1>8 DEF ViewEventsKept
<1> QED BY <1>6, <1>8, <1>9, <1>10, <1>12, <1>13 DEF VDomInv, ViewAnswers, ViewFollows, HearsOfApp, WholeUpdates

\* A step that leaves the events where they are keeps them in line.
LEMMA VDomEventsStay ==
  ASSUME VDomInv, vdomRan' = vdomRan, ViewWay' = ViewWay, view'.m.events = view.m.events,
         vdomCount'.inputs = vdomCount.inputs, waveApp'.up => waveApp.up, vdomOdd \subseteq vdomOdd'
  PROVE  ViewEventsKept' /\ InLine(vdomRan, ViewWay, view.m.events, vdomCount.inputs)'
BY VDomParts DEF ViewEventsKept

\* The app ends: nothing follows it any more.
LEMMA AppGoneInv ==
  ASSUME VDomInv, AppGone, waveApp.up, view' = view, vdomRan' = vdomRan,
         vdomCount' \in [inputs : Nat, changes : Nat, effects : Nat, faults : Nat],
         vdomCount'.inputs = vdomCount.inputs,
         \/ request' = request
         \/ request # Absent /\ request' = [request EXCEPT !.at = "answered"]
  PROVE  VDomInv'
<1>1. /\ waveApp' = [waveApp EXCEPT !.up = FALSE] /\ waveApp'.up = FALSE
      /\ waveApp' \in [up : BOOLEAN, version : Nat, effect : BOOLEAN]
      /\ vdomOdd' \in {vdomOdd, vdomOdd \cup {"missed"}}
      /\ link' \in [wait : {"asked", "yes", "no", "done"}, subscribed : BOOLEAN, down : BOOLEAN, nudges : Nat]
  BY VDomParts DEF AppGone
<1>2. /\ request' \in Requests \cup {Absent} /\ (request' = Absent <=> request = Absent)
      /\ request # Absent => /\ request'.events = request.events /\ request'.got = request.got
                             /\ request'.chunks = request.chunks /\ request'.coming = request.coming
                             /\ request'.head = request.head
                             /\ request'.at = "sent" => request.at = "sent"
  <2>1. CASE request' = request
    BY <2>1, VDomParts
  <2>2. CASE request # Absent /\ request' = [request EXCEPT !.at = "answered"]
    <3>1. request \in Requests
      BY <2>2, VDomParts
    <3>2. request' \in Requests
      BY <2>2, <3>1 DEF Requests
    <3>3. /\ request'.events = request.events /\ request'.got = request.got
          /\ request'.chunks = request.chunks /\ request'.coming = request.coming
          /\ request'.head = request.head /\ request'.at = "answered"
      BY <2>2, <3>1 DEF Requests
    <3> QED BY <2>2, <3>2, <3>3, RequestAssumption
  <2> QED BY <2>1, <2>2
<1>3. VDomTypeOK'
  BY <1>1, <1>2, VDomParts DEF VDomTypeOK, ViewStates
<1>5. CycleOK(view'.m, request')
  BY <1>2, VDomParts DEF CycleOK
<1>6. ViewAnswers'
  BY <1>1, <1>2, VDomParts DEF ViewAnswers
<1>7. ViewFollows' /\ ViewEventsKept' /\ WholeUpdates'
  BY <1>1, VDomParts DEF ViewFollows, HearsOfApp, ViewEventsKept, WholeUpdates
<1>8. InLine(vdomRan, ViewWay, view.m.events, vdomCount.inputs)'
  <2>1. ViewWay' = ViewWay \/ ViewWay' = <<>>
    BY <1>2 DEF ViewWay, OnWay
  <2> QED BY <2>1, VDomParts, LossInLine
<1> QED BY <1>3, <1>5, <1>6, <1>7, <1>8 DEF VDomInv

\* The route is asked for and listened to.
LEMMA RouteInv == VDomInv /\ (WaitForRoute \/ SubscribeRouteDown) => VDomInv'
<1> SUFFICES ASSUME VDomInv, WaitForRoute \/ SubscribeRouteDown PROVE VDomInv'
  OBVIOUS
<1>1. /\ UNCHANGED <<waveApp, view, request, vdomCount, vdomRan, vdomOdd>>
      /\ link'.nudges = link.nudges
      /\ link' \in [wait : {"asked", "yes", "no", "done"}, subscribed : BOOLEAN, down : BOOLEAN, nudges : Nat]
  <2>1. CASE WaitForRoute
    <3>1. CASE waveApp.up
      BY <2>1, <3>1, VDomParts DEF WaitForRoute
    <3>2. CASE ~waveApp.up
      BY <2>1, <3>2, VDomParts DEF WaitForRoute
    <3> QED BY <3>1, <3>2
  <2>2. CASE SubscribeRouteDown
    BY <2>2, VDomParts DEF SubscribeRouteDown
  <2> QED BY <2>1, <2>2
<1>2. VDomTypeOK'
  BY <1>1 DEF VDomInv, VDomTypeOK
<1>3. CycleOK(view'.m, request') /\ ViewAnswers' /\ WholeUpdates'
  BY <1>1, VDomParts DEF ViewAnswers, WholeUpdates
<1>4. ViewFollows'
  BY <1>1, VDomParts DEF ViewFollows, HearsOfApp, ViewRenews, OnWay
<1>5. ViewWay' = ViewWay
  BY <1>1 DEF ViewWay, OnWay
<1>6. ViewEventsKept' /\ InLine(vdomRan, ViewWay, view.m.events, vdomCount.inputs)'
  BY <1>1, <1>5, VDomEventsStay
<1> QED BY <1>2, <1>3, <1>4, <1>6 DEF VDomInv

\* A change of the app is announced to a view that is not closed.
LEMMA VDomChangeInv == VDomInv /\ VDomChange => VDomInv'
<1> SUFFICES ASSUME VDomInv, VDomChange PROVE VDomInv'
  OBVIOUS
<1>1. /\ UNCHANGED <<view, request, vdomRan, vdomOdd>>
      /\ vdomCount' \in [inputs : Nat, changes : Nat, effects : Nat, faults : Nat]
      /\ vdomCount'.inputs = vdomCount.inputs
      /\ waveApp' \in [up : BOOLEAN, version : Nat, effect : BOOLEAN]
      /\ waveApp'.up = waveApp.up /\ waveApp'.effect = waveApp.effect
  <2>1. /\ vdomCount \in [inputs : Nat, changes : Nat, effects : Nat, faults : Nat]
        /\ vdomCount' = [vdomCount EXCEPT !.changes = vdomCount.changes + 1]
    BY VDomParts DEF VDomChange
  <2>2. /\ waveApp \in [up : BOOLEAN, version : Nat, effect : BOOLEAN]
        /\ waveApp' = [waveApp EXCEPT !.version = waveApp.version + 1]
    BY VDomParts DEF VDomChange
  <2>3. UNCHANGED <<view, request, vdomRan, vdomOdd>>
    BY DEF VDomChange
  <2> QED BY ONLY <2>1, <2>2, <2>3
<1>2. /\ link' \in [wait : {"asked", "yes", "no", "done"}, subscribed : BOOLEAN, down : BOOLEAN, nudges : Nat]
      /\ view.closed \/ link'.nudges > 0
  <2>1. CASE view.closed
    BY <2>1, VDomParts DEF VDomChange
  <2>2. CASE ~view.closed
    <3>1. /\ link \in [wait : {"asked", "yes", "no", "done"}, subscribed : BOOLEAN, down : BOOLEAN, nudges : Nat]
          /\ link' = [link EXCEPT !.nudges = link.nudges + 1]
      BY <2>2, VDomParts DEF VDomChange
    <3> QED BY ONLY <3>1
  <2> QED BY <2>1, <2>2
<1>3. VDomTypeOK'
  BY <1>1, <1>2 DEF VDomInv, VDomTypeOK
<1>4. CycleOK(view'.m, request') /\ ViewAnswers' /\ WholeUpdates'
  BY <1>1, VDomParts DEF ViewAnswers, WholeUpdates
<1>5. ViewFollows'
  BY <1>1, <1>2, VDomParts DEF ViewFollows, HearsOfApp, ViewRenews
<1>6. ViewWay' = ViewWay
  BY <1>1 DEF ViewWay, OnWay
<1>7. ViewEventsKept' /\ InLine(vdomRan, ViewWay, view.m.events, vdomCount.inputs)'
  BY <1>1, <1>6, VDomEventsStay
<1> QED BY <1>3, <1>4, <1>5, <1>7 DEF VDomInv

\* The app runs the events of a request, and its answer carries its state.
LEMMA VDomRenderInv ==
  ASSUME VDomInv, NEW b \in BOOLEAN, NEW n \in 1 .. MaxChunks, VDomRender(b, n)
  PROVE  VDomInv'
<1> DEFINE e == IF waveApp.effect THEN 1 ELSE 0
           v == waveApp.version + Len(request.events) + e
<1>0. e \in Nat
  OBVIOUS
<1>1. /\ request \in Requests /\ request # Absent /\ request.at = "sent" /\ OnWay /\ waveApp.up
      /\ request.events \in Seq(Nat)
  BY VDomParts DEF VDomRender, OnWay, Requests
<1>2. v \in Nat
  BY <1>0, <1>1, VDomParts
<1> HIDE DEF e
<1>3. /\ waveApp' = [waveApp EXCEPT !.version = v, !.effect = b]
      /\ request' = [request EXCEPT !.at = "answered", !.version = v, !.hasWork = b, !.chunks = n,
                                      !.coming = n]
      /\ vdomRan' = vdomRan \o request.events
      /\ UNCHANGED <<link, view, vdomOdd>>
  BY DEF VDomRender, e
<1> HIDE DEF v
<1>4. /\ waveApp' \in [up : BOOLEAN, version : Nat, effect : BOOLEAN]
      /\ waveApp'.up = waveApp.up /\ waveApp'.version = v /\ waveApp'.effect = b
  BY <1>2, <1>3, VDomParts
<1>5. n \in Nat /\ n > 0
  OBVIOUS
<1>6. /\ request' \in Requests /\ request'.at = "answered" /\ request'.version = v
      /\ request'.hasWork = b /\ request'.chunks = n /\ request'.coming = n
      /\ request'.got = request.got /\ request'.head = request.head /\ request'.events = request.events
  BY <1>1, <1>2, <1>3, <1>5 DEF Requests
<1>7. request' # Absent
  BY <1>6, RequestAssumption
<1>8. /\ vdomCount' \in [inputs : Nat, changes : Nat, effects : Nat, faults : Nat]
      /\ vdomCount'.inputs = vdomCount.inputs
  <2>0. /\ vdomCount \in [inputs : Nat, changes : Nat, effects : Nat, faults : Nat]
        /\ vdomCount' = [vdomCount EXCEPT !.effects = IF b THEN vdomCount.effects + 1 ELSE vdomCount.effects]
    BY VDomParts DEF VDomRender
  <2>1. CASE b
    BY ONLY <2>0, <2>1
  <2>2. CASE ~b
    BY ONLY <2>0, <2>2
  <2> QED BY <2>1, <2>2
<1>9. request.got <= n
  BY <1>1, <1>5, VDomParts DEF ViewAnswers, Requests
<1>10. vdomRan' \in Seq(Nat)
  BY <1>1, <1>3, VDomParts, ConcatProperties
<1>11. VDomTypeOK'
  BY <1>3, <1>4, <1>6, <1>8, <1>10 DEF VDomInv, VDomTypeOK
<1>12. CycleOK(view'.m, request') /\ WholeUpdates'
  BY <1>1, <1>3, <1>7, VDomParts DEF CycleOK, WholeUpdates
<1>13. ViewAnswers'
  BY <1>1, <1>3, <1>5, <1>6, <1>9, VDomParts DEF ViewAnswers
<1>14. ViewFollows'
  BY <1>3, <1>4, <1>6, <1>7, VDomParts DEF ViewFollows, HearsOfApp
<1>15. ViewWay = request.events /\ ViewWay' = <<>>
  BY <1>1, <1>6 DEF ViewWay, OnWay
<1>16. /\ InLine(vdomRan', <<>>, view.m.events, vdomCount.inputs)
       /\ ToSet(vdomRan') = ToSet(vdomRan) \cup ToSet(ViewWay)
  BY <1>3, <1>15, VDomParts, RunInLine
<1>17. ViewEventsKept'
  BY <1>3, <1>4, <1>8, <1>15, <1>16, VDomParts DEF ViewEventsKept
<1> QED BY <1>3, <1>8, <1>11, <1>12, <1>13, <1>14, <1>15, <1>16, <1>17 DEF VDomInv

\* The app ends at the request of the view, or with its block, or by itself.
LEMMA VDomEndsInv == VDomInv /\ (VDomDispose \/ BlockClosed \/ AppEnds) => VDomInv'
<1> SUFFICES ASSUME VDomInv, VDomDispose \/ BlockClosed \/ AppEnds PROVE VDomInv'
  OBVIOUS
<1>1. /\ vdomCount \in [inputs : Nat, changes : Nat, effects : Nat, faults : Nat]
  BY VDomParts
<1>2. CASE VDomDispose
  BY <1>1, <1>2, AppGoneInv DEF VDomDispose
<1>3. CASE BlockClosed
  BY <1>1, <1>3, AppGoneInv DEF BlockClosed
<1>4. CASE AppEnds
  <2>1. /\ vdomCount' \in [inputs : Nat, changes : Nat, effects : Nat, faults : Nat]
        /\ vdomCount'.inputs = vdomCount.inputs
    <3>1. vdomCount' = [vdomCount EXCEPT !.faults = vdomCount.faults + 1]
      BY <1>4 DEF AppEnds
    <3> QED BY ONLY <1>1, <3>1
  <2> QED BY <1>4, <2>1, AppGoneInv DEF AppEnds
<1> QED BY <1>2, <1>3, <1>4

Links == [wait : {"asked", "yes", "no", "done"}, subscribed : BOOLEAN, down : BOOLEAN, nudges : Nat]

\* A step of the view alone that does not touch the events: a view that follows its app
\* sends another request after it, or did follow it before and owes no less.
LEMMA ViewAloneInv ==
  ASSUME VDomInv, UNCHANGED <<waveApp, request, vdomCount, vdomRan, vdomOdd>>, link' \in Links,
         view' \in ViewStates, CycleOK(view'.m, request), view'.m.events = view.m.events,
         view'.whole = view.whole,
         view'.confirmed /\ ~view'.disposed /\ ~view'.closed =>
           \/ WillSend(view'.m)
           \/ /\ view.confirmed /\ ~view.disposed /\ ~view.closed
              /\ WillSend(view.m) => WillSend(view'.m)
              /\ link'.nudges = link.nudges /\ view'.root = view.root
              /\ view.m.work /\ view.version => view'.m.work /\ view'.version
  PROVE  VDomInv'
<1>1. VDomTypeOK'
  BY DEF VDomInv, VDomTypeOK, ViewStates, Links
<1>2. CycleOK(view'.m, request') /\ ViewAnswers' /\ WholeUpdates'
  BY VDomParts DEF ViewAnswers, WholeUpdates
<1>3. ViewFollows'
  <2> SUFFICES ASSUME HearsOfApp'
               PROVE  /\ ViewRenews' \/ (IF request' = Absent THEN view'.root ELSE request'.version) = waveApp'.version
                      /\ view'.m.events # <<>> => WillSend(view'.m)
                      /\ waveApp'.effect => \/ ViewRenews' \/ (request' # Absent /\ request'.hasWork)
                                            \/ (view'.m.work /\ view'.version)
    BY DEF ViewFollows
  <2>1. CASE WillSend(view'.m)
    BY <2>1 DEF ViewRenews
  <2>2. CASE ~WillSend(view'.m)
    <3>1. view'.confirmed /\ ~view'.disposed /\ ~view'.closed
      BY DEF HearsOfApp
    <3>2. /\ HearsOfApp /\ ~WillSend(view.m)
          /\ link'.nudges = link.nudges /\ view'.root = view.root
          /\ view.m.work /\ view.version => view'.m.work /\ view'.version
      BY <2>2, <3>1 DEF HearsOfApp
    <3>3. OnWay' = OnWay
      BY DEF OnWay
    <3>4. ViewRenews => ViewRenews'
      BY <3>2, <3>3 DEF ViewRenews
    <3> QED BY <2>2, <3>2, <3>4, VDomParts DEF ViewFollows
  <2> QED BY <2>1, <2>2
<1>4. ViewWay' = ViewWay
  BY DEF ViewWay, OnWay
<1>5. ViewEventsKept' /\ InLine(vdomRan, ViewWay, view.m.events, vdomCount.inputs)'
  BY <1>4, VDomEventsStay
<1> QED BY <1>1, <1>2, <1>3, <1>5 DEF VDomInv

\* The answer about the route queues an update, or disposes the view.
LEMMA RouteKnownInv ==
  ASSUME VDomInv, NEW due \in BOOLEAN, RouteKnown(due)
  PROVE  VDomInv'
<1>1. /\ link \in Links /\ link' = [link EXCEPT !.wait = "done"]
      /\ UNCHANGED <<waveApp, request, vdomCount, vdomRan, vdomOdd>>
  BY VDomParts DEF RouteKnown, Links
<1>2. link' \in Links
  BY <1>1 DEF Links
<1>3. CASE link.wait = "yes"
  <2>1. PICK p : p = [view EXCEPT !.confirmed = TRUE]
    OBVIOUS
  <2>2. p \in ViewStates /\ p.m = view.m /\ p.whole = view.whole
    BY <2>1, VDomParts DEF ViewStates
  <2>3. view' = QueueUnlessDisposed(p, "quick", due)
    BY <1>3, <2>1 DEF RouteKnown
  <2>4. CycleOK(p.m, request)
    BY <2>2, VDomParts
  <2>5. /\ view' \in ViewStates /\ CycleOK(view'.m, request) /\ view'.disposed = p.disposed
        /\ view'.whole = p.whole /\ view'.m.events = p.m.events
        /\ ~p.disposed => WillSend(view'.m)
    BY ONLY <2>2, <2>3, <2>4, due \in BOOLEAN, QueueInView
  <2> QED BY <1>1, <1>2, <2>2, <2>5, ViewAloneInv
<1>4. CASE link.wait # "yes"
  <2>1. view' = [view EXCEPT !.disposed = TRUE, !.closed = view.closed \/ ~view.persist]
    BY <1>4 DEF RouteKnown
  <2>2. (view.closed \/ ~view.persist) \in BOOLEAN
    BY VDomParts DEF ViewStates
  <2>3. view' \in ViewStates /\ view'.m = view.m /\ view'.whole = view.whole /\ view'.disposed = TRUE
    BY <2>1, <2>2, VDomParts DEF ViewStates
  <2> QED BY <1>1, <1>2, <2>3, VDomParts, ViewAloneInv
<1> QED BY <1>3, <1>4

\* The end of the route disposes the view.
LEMMA RouteDownInv == VDomInv /\ RouteDown => VDomInv'
<1> SUFFICES ASSUME VDomInv, RouteDown PROVE VDomInv'
  OBVIOUS
<1>1. /\ link \in Links /\ link' = [link EXCEPT !.down = FALSE]
      /\ UNCHANGED <<waveApp, request, vdomCount, vdomRan, vdomOdd>>
  BY VDomParts DEF RouteDown, Links
<1>2. link' \in Links
  BY <1>1 DEF Links
<1>3. CASE view.closed
  <2>1. view' = view
    BY <1>3 DEF RouteDown
  <2> QED BY <1>1, <1>2, <1>3, <2>1, VDomParts, ViewAloneInv
<1>4. CASE ~view.closed
  <2>1. view' = [view EXCEPT !.disposed = TRUE, !.closed = ~view.persist]
    BY <1>4 DEF RouteDown
  <2>2. (~view.persist) \in BOOLEAN
    OBVIOUS
  <2>3. view' \in ViewStates /\ view'.m = view.m /\ view'.whole = view.whole /\ view'.disposed = TRUE
    BY <2>1, <2>2, VDomParts DEF ViewStates
  <2> QED BY <1>1, <1>2, <2>3, VDomParts, ViewAloneInv
<1> QED BY <1>3, <1>4

\* A nudge queues an update.
LEMMA AsyncInitiationInv ==
  ASSUME VDomInv, NEW due \in BOOLEAN, AsyncInitiation(due)
  PROVE  VDomInv'
<1>1. /\ link \in Links /\ link' = [link EXCEPT !.nudges = link.nudges - 1] /\ link.nudges > 0
      /\ UNCHANGED <<waveApp, request, vdomCount, vdomRan, vdomOdd>>
  BY VDomParts DEF AsyncInitiation, Links
<1>2. link' \in Links
  BY ONLY <1>1 DEF Links
<1>3. CASE view.closed
  <2>1. view' = view
    BY <1>3 DEF AsyncInitiation
  <2> QED BY <1>1, <1>2, <1>3, <2>1, VDomParts, ViewAloneInv
<1>4. CASE ~view.closed
  <2>1. view' = QueueUnlessDisposed(view, "quick", due)
    BY <1>4 DEF AsyncInitiation
  <2>2. view \in ViewStates /\ CycleOK(view.m, request)
    BY VDomParts
  <2>3. /\ view' \in ViewStates /\ CycleOK(view'.m, request) /\ view'.disposed = view.disposed
        /\ view'.whole = view.whole /\ view'.m.events = view.m.events
        /\ ~view.disposed => WillSend(view'.m)
    BY ONLY <2>1, <2>2, due \in BOOLEAN, QueueInView
  <2> QED BY <1>1, <1>2, <2>3, ViewAloneInv
<1> QED BY <1>3, <1>4

\* Ctrl-C queues an update.
LEMMA CtrlCInv ==
  ASSUME VDomInv, NEW due \in BOOLEAN, CtrlC(due)
  PROVE  VDomInv'
<1>1. PICK p : p = [view EXCEPT !.disposing = TRUE]
  OBVIOUS
<1>2. p \in ViewStates /\ p.m = view.m /\ p.whole = view.whole
  BY <1>1, VDomParts DEF ViewStates
<1>3. /\ view' = QueueUnlessDisposed(p, "quick", due)
      /\ UNCHANGED <<waveApp, link, request, vdomCount, vdomRan, vdomOdd>>
  BY <1>1 DEF CtrlC
<1>4. CycleOK(p.m, request)
  BY <1>2, VDomParts
<1>5. /\ view' \in ViewStates /\ CycleOK(view'.m, request) /\ view'.disposed = p.disposed
      /\ view'.whole = p.whole /\ view'.m.events = p.m.events
      /\ ~p.disposed => WillSend(view'.m)
  BY ONLY <1>2, <1>3, <1>4, due \in BOOLEAN, QueueInView
<1>6. link' \in Links
  BY <1>3, VDomParts DEF Links
<1> QED BY <1>2, <1>3, <1>5, <1>6, ViewAloneInv

\* A closed view follows nothing.
LEMMA CloseBlockInv == VDomInv /\ CloseBlock => VDomInv'
<1> SUFFICES ASSUME VDomInv, CloseBlock PROVE VDomInv'
  OBVIOUS
<1>1. /\ view' = [view EXCEPT !.closed = TRUE, !.version = FALSE]
      /\ UNCHANGED <<waveApp, link, request, vdomCount, vdomRan, vdomOdd>>
  BY DEF CloseBlock
<1>2. view' \in ViewStates /\ view'.m = view.m /\ view'.whole = view.whole /\ view'.closed = TRUE
  BY <1>1, VDomParts DEF ViewStates
<1>3. link' \in Links
  BY <1>1, VDomParts DEF Links
<1> QED BY <1>1, <1>2, <1>3, VDomParts, ViewAloneInv

\* Once an update is rendered the work of the backend queues the next one.
LEMMA VDomRenderedInv ==
  ASSUME VDomInv, NEW due \in BOOLEAN, VDomRendered(due)
  PROVE  VDomInv'
<1>1. UNCHANGED <<waveApp, link, request, vdomCount, vdomRan, vdomOdd>>
  BY DEF VDomRendered
<1>2. link' \in Links
  BY <1>1, VDomParts DEF Links
<1>3. PICK m : m = view.m
  OBVIOUS
<1>4. m \in Cycles /\ CycleOK(m, request)
  BY <1>3, VDomParts
<1>5. CASE view.disposed
  <2>1. PICK k : k = [m EXCEPT !.work = FALSE]
    OBVIOUS
  <2>2. k \in Cycles /\ CycleOK(k, request) /\ k.events = m.events
    BY <1>4, <2>1 DEF Cycles, CycleOK
  <2>3. view' = [view EXCEPT !.version = FALSE, !.m = k]
    BY <1>3, <1>5, <2>1 DEF VDomRendered
  <2>4. view' \in ViewStates /\ view'.m = k /\ view'.whole = view.whole /\ view'.disposed = view.disposed
    BY <2>2, <2>3, VDomParts DEF ViewStates
  <2> QED BY <1>1, <1>2, <1>3, <1>5, <2>2, <2>4, ViewAloneInv
<1>6. CASE ~view.disposed
  <2>1. PICK k : k = RenderDone(m, due)
    OBVIOUS
  <2>2. /\ k \in Cycles /\ CycleOK(k, request)
        /\ k.pending = m.pending /\ k.immediate = m.immediate /\ k.events = m.events
        /\ m.work \/ m.queued # "none" => k.queued # "none"
    BY <1>4, <2>1, WorkRenews
  <2>3. view' = [view EXCEPT !.version = FALSE, !.m = k]
    BY <1>3, <1>6, <2>1 DEF VDomRendered
  <2>4. /\ view' \in ViewStates /\ view'.m = k /\ view'.whole = view.whole /\ view'.disposed = view.disposed
        /\ view'.confirmed = view.confirmed /\ view'.closed = view.closed /\ view'.root = view.root
    BY <2>2, <2>3, VDomParts DEF ViewStates
  <2>5. (m.work => WillSend(k)) /\ (WillSend(m) => WillSend(k))
    BY <2>2 DEF WillSend
  <2> QED BY <1>1, <1>2, <1>3, <1>6, <2>2, <2>4, <2>5, ViewAloneInv
<1> QED BY <1>5, <1>6

\* An input goes to the end of the batch, and an update is queued for it.
LEMMA VDomInputInv ==
  ASSUME VDomInv, NEW kind \in {"quick", "slow"}, NEW due \in BOOLEAN, VDomInput(kind, due)
  PROVE  VDomInv'
<1> DEFINE n == vdomCount.inputs
<1>1. PICK m : m = view.m
  OBVIOUS
<1>2. m \in Cycles /\ CycleOK(m, request) /\ n \in Nat /\ m.events \in Seq(Nat)
  BY <1>1, VDomParts
<1>3. PICK k : k = Batch(m, n + 1)
  OBVIOUS
<1>4. PICK s : s = Append(m.events, n + 1)
  OBVIOUS
<1>5. s \in Seq(Nat)
  BY <1>2, <1>4, AppendProperties
<1>6. k = [m EXCEPT !.events = s]
  BY <1>3, <1>4 DEF Batch
<1>7. k \in Cycles /\ CycleOK(k, request) /\ k.events = s /\ k.pending = m.pending
      /\ k.immediate = m.immediate /\ k.queued = m.queued /\ k.work = m.work
  BY <1>2, <1>5, <1>6 DEF Cycles, CycleOK
<1>8. PICK p : p = [view EXCEPT !.m = k]
  OBVIOUS
<1>9. /\ p \in ViewStates /\ p.m = k /\ p.whole = view.whole /\ p.root = view.root
      /\ p.confirmed = view.confirmed /\ p.disposed = view.disposed /\ p.closed = view.closed
      /\ p.version = view.version
  BY <1>7, <1>8, VDomParts DEF ViewStates
<1>10. /\ view' = QueueUnlessDisposed(p, kind, due)
       /\ vdomCount' = [vdomCount EXCEPT !.inputs = n + 1]
       /\ UNCHANGED <<waveApp, link, request, vdomRan, vdomOdd>>
  BY <1>1, <1>3, <1>8 DEF VDomInput
<1>11. CycleOK(p.m, request)
  BY <1>7, <1>9
<1>12. /\ view' \in ViewStates /\ CycleOK(view'.m, request)
       /\ view'.confirmed = p.confirmed /\ view'.disposed = p.disposed /\ view'.closed = p.closed
       /\ view'.root = p.root /\ view'.whole = p.whole /\ view'.version = p.version
       /\ view'.m.events = p.m.events /\ view'.m.work = p.m.work
       /\ ~p.disposed => WillSend(view'.m)
  BY ONLY <1>9, <1>10, <1>11, kind \in {"quick", "slow"}, due \in BOOLEAN, QueueInView
<1>13. vdomCount' \in [inputs : Nat, changes : Nat, effects : Nat, faults : Nat] /\ vdomCount'.inputs = n + 1
  <2>1. vdomCount \in [inputs : Nat, changes : Nat, effects : Nat, faults : Nat]
    BY VDomParts
  <2>2. n + 1 \in Nat
    BY <1>2
  <2> HIDE DEF n
  <2> QED BY <1>10, <2>1, <2>2
<1>14. VDomTypeOK'
  BY <1>10, <1>12, <1>13 DEF VDomInv, VDomTypeOK, ViewStates
<1>15. CycleOK(view'.m, request') /\ ViewAnswers' /\ WholeUpdates'
  BY <1>9, <1>10, <1>12, VDomParts DEF ViewAnswers, WholeUpdates
<1>16. ViewFollows'
  BY <1>10, <1>12, <1>9 DEF ViewFollows, HearsOfApp, ViewRenews
<1>17. ViewWay' = ViewWay
  BY <1>10 DEF ViewWay, OnWay
<1>18. /\ InLine(vdomRan, ViewWay, view.m.events, n)
       /\ vdomRan \in Seq(Nat) /\ ViewWay \in Seq(Nat) /\ view.m.events \in Seq(Nat)
  BY VDomParts
<1>19. /\ InLine(vdomRan, ViewWay, s, n + 1)
       /\ ToSet(s) = ToSet(view.m.events) \cup {n + 1}
  <2> HIDE DEF n
  <2>1. s = Append(view.m.events, n + 1)
    BY <1>1, <1>4
  <2>2. PICK e : e = view.m.events
    OBVIOUS
  <2>3. InLine(vdomRan, ViewWay, e, n) /\ e \in Seq(Nat) /\ s = Append(e, n + 1)
    BY <1>18, <2>1, <2>2
  <2>4. InLine(vdomRan, ViewWay, s, n + 1) /\ ToSet(s) = ToSet(e) \cup {n + 1}
    BY ONLY <1>2, <1>18, <2>3, EventInLine
  <2> QED BY <2>2, <2>4
<1>20. view'.m.events = s
  BY <1>7, <1>9, <1>12
<1>21. InLine(vdomRan, ViewWay, view.m.events, vdomCount.inputs)'
  BY <1>10, <1>13, <1>17, <1>19, <1>20
<1>22. ViewEventsKept'
  <2>1. 1 .. (n + 1) = (1 .. n) \cup {n + 1}
    BY <1>2
  <2> HIDE DEF n
  <2>2. waveApp.up /\ "failed" \notin vdomOdd =>
          1 .. n \subseteq ToSet(vdomRan) \cup ToSet(ViewWay) \cup ToSet(view.m.events)
    BY VDomParts DEF ViewEventsKept, n
  <2> QED BY <1>10, <1>13, <1>17, <1>19, <1>20, <2>1, <2>2 DEF ViewEventsKept
<1> QED BY <1>14, <1>15, <1>16, <1>21, <1>22 DEF VDomInv

\* A timer sends the batch, unless a request is pending or the view is silent.
LEMMA VDomTimerInv ==
  ASSUME VDomInv, NEW kind \in {"quick", "slow"}, VDomTimer(kind)
  PROVE  VDomInv'
<1>1. PICK m : m = view.m
  OBVIOUS
<1>2. m \in Cycles /\ CycleOK(m, request) /\ Armed(m, kind)
  BY <1>1, VDomParts DEF VDomTimer
<1>3. PICK k : k = Fired(m, kind)
  OBVIOUS
<1>4. /\ k \in Cycles /\ CycleOK(k, request) /\ k.queued = "none"
      /\ k.pending = m.pending /\ k.immediate = m.immediate /\ k.resync = m.resync
      /\ k.events = m.events /\ k.work = m.work
  BY <1>2, <1>3, TimerFires
<1>5. UNCHANGED <<waveApp, link, vdomCount, vdomRan>>
  BY DEF VDomTimer
<1>6. link' \in Links /\ link'.nudges = link.nudges
  BY <1>5, VDomParts DEF Links
<1>7. k.pending \in BOOLEAN /\ view.disposed \in BOOLEAN /\ view.confirmed \in BOOLEAN
  BY <1>4, VDomParts DEF ViewStates, Cycles
<1>8. CASE view.disposed \/ ~view.confirmed
  <2>1. view' = [view EXCEPT !.m = k] /\ UNCHANGED <<request, vdomOdd>>
    BY <1>1, <1>3, <1>8 DEF VDomTimer
  <2>2. /\ view' \in ViewStates /\ view'.m = k /\ view'.whole = view.whole /\ view'.disposed = view.disposed
        /\ view'.confirmed = view.confirmed /\ view'.closed = view.closed
    BY <1>4, <2>1, VDomParts DEF ViewStates
  <2> QED BY <1>1, <1>4, <1>5, <1>6, <1>8, <2>1, <2>2, ViewAloneInv
<1>9. CASE ~(view.disposed \/ ~view.confirmed) /\ k.pending
  <2>1. PICK i \in BOOLEAN : i = (k.immediate \/ kind = "quick")
    OBVIOUS
  <2>2. PICK j : j = [k EXCEPT !.immediate = i]
    OBVIOUS
  <2>3. view' = [view EXCEPT !.m = Refused(k, kind)] /\ UNCHANGED request
        /\ vdomOdd' = IF kind = "slow" THEN vdomOdd \cup {"unforced"} ELSE vdomOdd
    BY <1>1, <1>3, <1>9 DEF VDomTimer
  <2>4. Refused(k, kind) = j
    BY <2>1, <2>2 DEF Refused
  <2>5. j \in Cycles /\ CycleOK(j, request) /\ j.pending = k.pending /\ j.immediate = i
        /\ j.events = k.events /\ j.work = k.work
    BY <1>4, <2>1, <2>2 DEF Cycles, CycleOK
  <2>6. /\ view' \in ViewStates /\ view'.m = j /\ view'.whole = view.whole /\ view'.disposed = view.disposed
        /\ view'.confirmed = view.confirmed /\ view'.closed = view.closed
    BY <2>3, <2>4, <2>5, VDomParts DEF ViewStates
  <2>7. CASE kind = "quick"
    <3>1. WillSend(j)
      BY <1>9, <2>1, <2>5, <2>7 DEF WillSend
    <3>2. vdomOdd' = vdomOdd
      BY <2>3, <2>7
    <3> QED BY <1>1, <1>4, <1>5, <1>6, <2>3, <2>5, <2>6, <3>1, <3>2, ViewAloneInv
  <2>8. CASE kind = "slow"
    <3>1. vdomOdd' = vdomOdd \cup {"unforced"}
      BY <2>3, <2>8
    <3>2. VDomTypeOK'
      BY <1>5, <2>3, <2>6, <3>1 DEF VDomInv, VDomTypeOK, ViewStates
    <3>3. CycleOK(view'.m, request') /\ ViewAnswers' /\ WholeUpdates'
      BY <1>5, <2>3, <2>5, <2>6, VDomParts DEF ViewAnswers, WholeUpdates
    <3>4. ViewFollows'
      BY <3>1 DEF ViewFollows, HearsOfApp
    <3>5. ViewWay' = ViewWay /\ view'.m.events = view.m.events
      BY <1>1, <1>4, <2>3, <2>5, <2>6 DEF ViewWay, OnWay
    <3>6. ViewEventsKept' /\ InLine(vdomRan, ViewWay, view.m.events, vdomCount.inputs)'
      BY <1>5, <3>1, <3>5, VDomEventsStay
    <3> QED BY <3>2, <3>3, <3>4, <3>6 DEF VDomInv
  <2> QED BY <2>7, <2>8
<1>10. CASE ~(view.disposed \/ ~view.confirmed) /\ ~k.pending
  <2>1. PICK j : j = RequestSent(k)
    OBVIOUS
  <2>2. /\ view' = [view EXCEPT !.m = j, !.disposed = view.disposing]
        /\ vdomOdd' = vdomOdd
        /\ request' = [resync |-> k.resync, events |-> k.events, dispose |-> view.disposing,
                       at |-> "sent", chunks |-> 0, coming |-> 0, head |-> TRUE, ends |-> TRUE,
                       got |-> 0, version |-> 0, hasWork |-> FALSE]
    BY <1>1, <1>3, <1>10, <2>1 DEF VDomTimer
  <2>3. j = [k EXCEPT !.pending = TRUE, !.immediate = FALSE, !.resync = FALSE, !.events = <<>>]
    BY <2>1 DEF RequestSent
  <2>4. request = Absent
    BY <1>4, <1>10 DEF CycleOK
  <2>5. j \in Cycles /\ j.queued = k.queued /\ j.pending = TRUE /\ j.events = <<>>
    <3>1. <<>> \in Seq(Nat)
      OBVIOUS
    <3>2. PICK e : e = <<>>
      OBVIOUS
    <3>3. j = [k EXCEPT !.pending = TRUE, !.immediate = FALSE, !.resync = FALSE, !.events = e]
      BY <2>3, <3>2
    <3>4. e \in Seq(Nat)
      BY <3>1, <3>2
    <3>5. j \in Cycles /\ j.queued = k.queued /\ j.pending = TRUE /\ j.events = e
      BY ONLY <1>4, <3>3, <3>4 DEF Cycles
    <3> QED BY <3>2, <3>5
  <2>6. /\ request' \in Requests /\ request'.at = "sent" /\ request'.chunks = 0 /\ request'.got = 0
        /\ request'.coming = 0 /\ request'.head
        /\ request'.events = k.events
    <3>1. k.resync \in BOOLEAN /\ k.events \in Seq(Nat)
      BY <1>4 DEF Cycles
    <3>2. view.disposing \in BOOLEAN
      BY VDomParts DEF ViewStates
    <3> QED BY <2>2, <3>1, <3>2 DEF Requests
  <2>7. request' # Absent
    BY <2>6, RequestAssumption
  <2>8. /\ view' \in ViewStates /\ view'.m = j /\ view'.whole = view.whole
    BY <2>2, <2>5, VDomParts DEF ViewStates
  <2>9. VDomTypeOK'
    BY <1>5, <2>2, <2>6, <2>8 DEF VDomInv, VDomTypeOK, ViewStates
  <2>10. CycleOK(view'.m, request')
    BY <1>4, <2>5, <2>7, <2>8 DEF CycleOK
  <2>11. ViewAnswers' /\ WholeUpdates'
    BY <2>2, <2>6, <2>8, VDomParts DEF ViewAnswers, WholeUpdates
  <2>12. OnWay'
    BY <2>6, <2>7 DEF OnWay
  <2>13. ViewFollows'
    BY <2>5, <2>8, <2>12 DEF ViewFollows, ViewRenews
  <2>14. ViewWay = <<>> /\ ViewWay' = view.m.events /\ view'.m.events = <<>>
    BY <1>1, <1>4, <2>4, <2>5, <2>6, <2>8, <2>12 DEF ViewWay, OnWay
  <2>15. InLine(vdomRan, ViewWay, view.m.events, vdomCount.inputs)'
    BY <1>5, <2>14, VDomParts, BatchInLine
  <2>16. ViewEventsKept'
    BY <1>5, <2>2, <2>14, VDomParts, RisingEmpty DEF ViewEventsKept
  <2> QED BY <2>9, <2>10, <2>11, <2>13, <2>15, <2>16 DEF VDomInv
<1> QED BY <1>8, <1>9, <1>10

\* A chunk of an answer comes.
LEMMA ChunkInv == VDomInv /\ Chunk => VDomInv'
<1> SUFFICES ASSUME VDomInv, Chunk PROVE VDomInv'
  OBVIOUS
<1>1. /\ request \in Requests /\ request # Absent /\ request.got < request.coming
      /\ request' = [request EXCEPT !.got = request.got + 1]
      /\ UNCHANGED <<waveApp, link, view, vdomCount, vdomRan, vdomOdd>>
  BY VDomParts DEF Chunk
<1>2. /\ request' \in Requests /\ request'.at = request.at /\ request'.events = request.events
      /\ request'.version = request.version /\ request'.hasWork = request.hasWork
      /\ request'.chunks = request.chunks /\ request'.coming = request.coming
      /\ request'.head = request.head /\ request'.got <= request'.coming
  <2>1. PICK g : g = request.got + 1
    OBVIOUS
  <2>2. request.got \in Nat /\ request.coming \in Nat
    BY ONLY <1>1 DEF Requests
  <2>3. g \in Nat /\ g <= request.coming
    BY ONLY <1>1, <2>1, <2>2
  <2>4. request' = [request EXCEPT !.got = g]
    BY <1>1, <2>1
  <2> QED BY ONLY <1>1, <2>3, <2>4 DEF Requests
<1>3. request' # Absent
  BY <1>2, RequestAssumption
<1>4. VDomTypeOK'
  BY <1>1, <1>2 DEF VDomInv, VDomTypeOK
<1>5. CycleOK(view'.m, request') /\ ViewAnswers' /\ WholeUpdates'
  BY <1>1, <1>2, <1>3, VDomParts DEF ViewAnswers, WholeUpdates, CycleOK
<1>6. OnWay' = OnWay
  BY <1>1, <1>2, <1>3 DEF OnWay
<1>7. ViewFollows'
  BY <1>1, <1>2, <1>3, <1>6, VDomParts DEF ViewFollows, HearsOfApp, ViewRenews
<1>8. ViewWay' = ViewWay
  BY <1>1, <1>2, <1>6 DEF ViewWay
<1>9. ViewEventsKept' /\ InLine(vdomRan, ViewWay, view.m.events, vdomCount.inputs)'
  BY <1>1, <1>8, VDomEventsStay
<1> QED BY <1>4, <1>5, <1>7, <1>9 DEF VDomInv

\* The view shows the answer, and sends the next request when one is asked for.
LEMMA VDomAnswerInv ==
  ASSUME VDomInv, NEW due \in BOOLEAN, VDomAnswer(due)
  PROVE  VDomInv'
<1>1. /\ request \in Requests /\ request # Absent /\ request.at = "answered" /\ request.got = request.coming
      /\ request' = Absent /\ UNCHANGED <<waveApp, link, vdomCount, vdomRan, vdomOdd>>
  BY VDomParts DEF VDomAnswer
<1>2. PICK p : p = IF request.got = 0 THEN view ELSE UpdateHandled(view, request)
  OBVIOUS
<1>3. PICK m : m = p.m
  OBVIOUS
<1>4. /\ p \in ViewStates /\ CycleOK(m, request) /\ ("cut" \notin vdomOdd => p.whole = TRUE)
      /\ p.disposed = view.disposed /\ p.closed = view.closed /\ p.confirmed = view.confirmed
      /\ m.queued = view.m.queued /\ m.events = view.m.events /\ m.immediate = view.m.immediate
      /\ m.pending = view.m.pending
      /\ request.got > 0 /\ request.head =>
           /\ p.root = request.version /\ p.version = ~view.closed
           /\ m.work = (view.m.work \/ request.hasWork)
  <2>0. "cut" \notin vdomOdd => request.got = request.chunks /\ request.head
    BY <1>1, VDomParts DEF ViewAnswers
  <2>1. CASE request.got = 0
    BY <1>1, <1>2, <1>3, <2>1, VDomParts DEF WholeUpdates, Requests
  <2>3. CASE request.got # 0 /\ ~request.head
    <3>1. PICK c \in BOOLEAN : c = ~view.closed
      OBVIOUS
    <3>2. p = [view EXCEPT !.version = c]
      BY <1>2, <2>3, <3>1 DEF UpdateHandled
    <3>3. /\ p \in ViewStates /\ p.m = view.m /\ p.disposed = view.disposed /\ p.closed = view.closed
          /\ p.confirmed = view.confirmed
      BY <3>2, VDomParts DEF ViewStates
    <3> QED BY <1>3, <2>0, <2>3, <3>3, VDomParts
  <2>2. CASE request.got # 0 /\ request.head
    <3>1. PICK w \in BOOLEAN : w = (view.m.work \/ request.hasWork)
      OBVIOUS
    <3>2. PICK k : k = [view.m EXCEPT !.work = w]
      OBVIOUS
    <3>3. PICK h \in BOOLEAN : h = (request.got = request.chunks)
      OBVIOUS
    <3>4. PICK c \in BOOLEAN : c = ~view.closed
      OBVIOUS
    <3>5. p = [view EXCEPT !.root = request.version, !.whole = h, !.version = c, !.m = k]
      <4>1. p = [view EXCEPT !.root = request.version, !.whole = (request.got = request.chunks),
                             !.version = ~view.closed,
                             !.m = [view.m EXCEPT !.work = view.m.work \/ request.hasWork]]
        BY ONLY <1>2, <2>2 DEF UpdateHandled, NoteWork
      <4> QED BY ONLY <3>1, <3>2, <3>3, <3>4, <4>1, Zenon
    <3>6. /\ k \in Cycles /\ CycleOK(k, request) /\ k.queued = view.m.queued /\ k.events = view.m.events
          /\ k.immediate = view.m.immediate /\ k.pending = view.m.pending /\ k.work = w
      BY <3>2, VDomParts DEF Cycles, CycleOK
    <3>7. request.version \in Nat
      BY <1>1 DEF Requests
    <3>8. /\ p \in ViewStates /\ p.m = k /\ p.whole = h /\ p.root = request.version /\ p.version = c
          /\ p.disposed = view.disposed /\ p.closed = view.closed /\ p.confirmed = view.confirmed
      BY <3>5, <3>6, <3>7, VDomParts DEF ViewStates
    <3> QED BY <1>1, <1>3, <2>0, <3>1, <3>3, <3>4, <3>6, <3>8
  <2> QED BY <2>1, <2>2, <2>3
<1>5. PICK j : j = IF p.disposed THEN RequestEnded(m) ELSE SettleRequest(m, due)
  OBVIOUS
<1>6. m \in Cycles
  BY <1>3, <1>4 DEF ViewStates
<1>7. /\ j \in Cycles /\ CycleOK(j, Absent) /\ j.events = m.events /\ j.work = m.work
      /\ ~p.disposed => (m.queued # "none" \/ m.immediate => WillSend(j))
  <2>1. CASE p.disposed
    BY <1>4, <1>5, <1>6, <2>1 DEF RequestEnded, Cycles, CycleOK
  <2>2. CASE ~p.disposed
    <3>1. j = SettleRequest(m, due)
      BY <1>5, <2>2
    <3> QED BY <1>4, <1>6, <2>2, <3>1, RequestSettles
  <2> QED BY <2>1, <2>2
<1>8. view' = [p EXCEPT !.m = j]
  <2>1. view' = SettledView(p, due)
    BY <1>2 DEF VDomAnswer
  <2> QED BY <1>3, <1>5, <2>1 DEF SettledView
<1>9. /\ view' \in ViewStates /\ view'.m = j /\ ("cut" \notin vdomOdd => view'.whole = TRUE)
      /\ view'.disposed = view.disposed /\ view'.closed = view.closed /\ view'.confirmed = view.confirmed
      /\ view'.root = p.root /\ view'.version = p.version
  BY <1>4, <1>7, <1>8 DEF ViewStates
<1>10. VDomTypeOK'
  BY <1>1, <1>9 DEF VDomInv, VDomTypeOK, ViewStates
<1>11. CycleOK(view'.m, request') /\ ViewAnswers' /\ WholeUpdates'
  BY <1>1, <1>7, <1>9 DEF ViewAnswers, WholeUpdates
<1>12. ViewFollows'
  <2> SUFFICES ASSUME HearsOfApp'
               PROVE  /\ ViewRenews' \/ view'.root = waveApp'.version
                      /\ view'.m.events # <<>> => WillSend(view'.m)
                      /\ waveApp'.effect => ViewRenews' \/ (view'.m.work /\ view'.version)
    BY <1>1 DEF ViewFollows
  <2>1. HearsOfApp /\ ~view.disposed /\ ~view.closed /\ waveApp.up
    BY <1>1, <1>9 DEF HearsOfApp
  <2>2. request.got > 0 /\ request.head
    BY <1>1, <2>1, VDomParts DEF ViewAnswers, HearsOfApp, Requests
  <2>3. /\ view'.root = request.version
        /\ request.hasWork \/ view.m.work => view'.m.work /\ view'.version
    BY <1>4, <1>7, <1>9, <2>1, <2>2
  <2>4. WillSend(view.m) => WillSend(view'.m)
    BY <1>4, <1>7, <1>9, <2>1 DEF WillSend
  <2>5. ViewRenews => ViewRenews'
    BY <1>1, <2>4 DEF ViewRenews, OnWay
  <2>6. view'.m.events = view.m.events
    BY <1>4, <1>7, <1>9
  <2> QED BY <1>1, <2>1, <2>3, <2>4, <2>5, <2>6, VDomParts DEF ViewFollows
<1>13. ViewWay' = <<>> /\ ViewWay = <<>> /\ view'.m.events = view.m.events
  BY <1>1, <1>4, <1>7, <1>9 DEF ViewWay, OnWay
<1>14. ViewEventsKept' /\ InLine(vdomRan, ViewWay, view.m.events, vdomCount.inputs)'
  BY <1>1, <1>13, VDomEventsStay
<1> QED BY <1>10, <1>11, <1>12, <1>14 DEF VDomInv

\* A request that fails is not sent again.
LEMMA VDomFailsInv == VDomInv /\ VDomRequestFails => VDomInv'
<1> SUFFICES ASSUME VDomInv, VDomRequestFails PROVE VDomInv'
  OBVIOUS
<1>1. /\ request' = Absent /\ vdomOdd' = vdomOdd \cup {"failed"}
      /\ UNCHANGED <<waveApp, link, vdomRan>>
  BY DEF VDomRequestFails
<1>2. /\ vdomCount' \in [inputs : Nat, changes : Nat, effects : Nat, faults : Nat]
      /\ vdomCount'.inputs = vdomCount.inputs
  BY VDomParts DEF VDomRequestFails
<1>3. PICK j : j = RequestEnded(view.m)
  OBVIOUS
<1>4. j \in Cycles /\ CycleOK(j, Absent) /\ j.events = view.m.events
  BY <1>3, VDomParts DEF RequestEnded, Cycles, CycleOK
<1>5. view' = [view EXCEPT !.m = j]
  BY <1>3 DEF VDomRequestFails
<1>6. view' \in ViewStates /\ view'.m = j /\ view'.whole = view.whole
  BY <1>4, <1>5, VDomParts DEF ViewStates
<1>7. VDomTypeOK'
  BY <1>1, <1>2, <1>6 DEF VDomInv, VDomTypeOK, ViewStates
<1>8. CycleOK(view'.m, request') /\ ViewAnswers' /\ WholeUpdates'
  BY <1>1, <1>4, <1>6, VDomParts DEF ViewAnswers, WholeUpdates
<1>9. ViewFollows' /\ ViewEventsKept'
  BY <1>1 DEF ViewFollows, HearsOfApp, ViewEventsKept
<1>10. ViewWay' = <<>>
  BY <1>1 DEF ViewWay, OnWay
<1>11. InLine(vdomRan, ViewWay, view.m.events, vdomCount.inputs)'
  BY <1>1, <1>2, <1>4, <1>6, <1>10, VDomParts, LossInLine
<1> QED BY <1>7, <1>8, <1>9, <1>11 DEF VDomInv

\* An answer that is cut still has no more than its chunks, and is marked.
LEMMA AnswerCutInv ==
  ASSUME VDomInv, NEW n \in 0 .. MaxChunks, NEW h \in BOOLEAN, NEW e \in BOOLEAN, AnswerCut(n, h, e)
  PROVE  VDomInv'
<1>1. /\ request \in Requests /\ request # Absent /\ request.at = "answered"
      /\ request.got <= n /\ n <= request.coming
      /\ vdomOdd' = vdomOdd \cup {"cut"} /\ UNCHANGED <<waveApp, link, view, vdomRan>>
  BY VDomParts DEF AnswerCut
<1>2. request' = [request EXCEPT !.coming = n, !.head = h, !.ends = e]
  BY DEF AnswerCut
<1>3. n \in Nat
  OBVIOUS
<1>4. /\ request' \in Requests /\ request'.at = "answered" /\ request'.got = request.got
      /\ request'.coming = n /\ request'.chunks = request.chunks
  BY <1>1, <1>2, <1>3 DEF Requests
<1>5. request' # Absent
  BY <1>4, RequestAssumption
<1>6. /\ vdomCount' \in [inputs : Nat, changes : Nat, effects : Nat, faults : Nat]
      /\ vdomCount'.inputs = vdomCount.inputs
  <2>1. /\ vdomCount \in [inputs : Nat, changes : Nat, effects : Nat, faults : Nat]
        /\ vdomCount' = vdomCount \/ vdomCount' = [vdomCount EXCEPT !.faults = vdomCount.faults + 1]
    <3>1. CASE waveApp.up
      BY <3>1, VDomParts DEF AnswerCut
    <3>2. CASE ~waveApp.up
      BY <3>2, VDomParts DEF AnswerCut
    <3> QED BY <3>1, <3>2
  <2> QED BY ONLY <2>1
<1>7. VDomTypeOK'
  BY <1>1, <1>4, <1>6 DEF VDomInv, VDomTypeOK
<1>8. request'.coming <= request'.chunks
  BY <1>1, <1>3, <1>4, VDomParts DEF ViewAnswers, Requests
<1>9. CycleOK(view'.m, request') /\ ViewAnswers' /\ WholeUpdates'
  BY <1>1, <1>3, <1>4, <1>5, <1>8, VDomParts DEF ViewAnswers, WholeUpdates, CycleOK
<1>10. ViewFollows'
  BY <1>1 DEF ViewFollows, HearsOfApp
<1>11. ViewWay' = ViewWay
  BY <1>1, <1>4 DEF ViewWay, OnWay
<1>12. ViewEventsKept' /\ InLine(vdomRan, ViewWay, view.m.events, vdomCount.inputs)'
  BY <1>1, <1>6, <1>11, VDomEventsStay
<1> QED BY <1>7, <1>9, <1>10, <1>12 DEF VDomInv

\* An app that panics has run the first of the events of the request, and loses the rest.
LEMMA VDomPanicsInv ==
  ASSUME VDomInv, request # Absent, NEW ran \in 0 .. Len(request.events), NEW worked \in BOOLEAN,
         VDomPanics(ran, worked)
  PROVE  VDomInv'
<1> DEFINE w == IF worked /\ waveApp.effect THEN 1 ELSE 0
           v == waveApp.version + ran + w
           e == waveApp.effect /\ ~worked
           part == SubSeq(request.events, 1, ran)
<1>0. w \in Nat
  OBVIOUS
<1>1. /\ request \in Requests /\ request # Absent /\ request.at = "sent" /\ OnWay /\ waveApp.up
      /\ request.events \in Seq(Nat)
  BY VDomParts DEF VDomPanics, OnWay, Requests
<1>2. v \in Nat
  BY <1>0, <1>1, VDomParts
<1>3. e \in BOOLEAN
  BY VDomParts
<1>4. /\ waveApp' = [waveApp EXCEPT !.version = v, !.effect = e]
      /\ request' = [request EXCEPT !.at = "answered"] /\ vdomRan' = vdomRan \o part
      /\ vdomCount' = [vdomCount EXCEPT !.faults = vdomCount.faults + 1]
      /\ vdomOdd' = vdomOdd \cup {"failed"} /\ UNCHANGED <<link, view>>
  BY DEF VDomPanics
<1> HIDE DEF w, v, e
<1>5. waveApp' \in [up : BOOLEAN, version : Nat, effect : BOOLEAN]
  BY <1>2, <1>3, <1>4, VDomParts
<1>6. /\ request' \in Requests /\ request'.at = "answered" /\ request'.chunks = request.chunks
      /\ request'.coming = request.coming /\ request'.got = request.got /\ request'.head = request.head
  BY <1>1, <1>4 DEF Requests
<1>7. request' # Absent
  BY <1>6, RequestAssumption
<1>8. /\ vdomCount' \in [inputs : Nat, changes : Nat, effects : Nat, faults : Nat]
      /\ vdomCount'.inputs = vdomCount.inputs
  <2>1. /\ vdomCount \in [inputs : Nat, changes : Nat, effects : Nat, faults : Nat]
        /\ vdomCount' = [vdomCount EXCEPT !.faults = vdomCount.faults + 1]
    BY <1>4, VDomParts
  <2> QED BY ONLY <2>1
<1>9. part \in Seq(Nat)
  BY <1>1
<1>10. vdomRan' \in Seq(Nat)
  BY <1>4, <1>9, VDomParts, ConcatProperties
<1>11. VDomTypeOK'
  <2>1. UNCHANGED <<link, view>> /\ vdomOdd' \subseteq {"missed", "unforced", "failed", "cut"}
    BY <1>4, VDomParts
  <2> QED BY <1>5, <1>6, <1>8, <1>10, <2>1 DEF VDomInv, VDomTypeOK
<1>12. CycleOK(view'.m, request') /\ ViewAnswers' /\ WholeUpdates'
  BY <1>4, <1>6, <1>7, <1>1, VDomParts DEF CycleOK, ViewAnswers, WholeUpdates
<1>13. ViewFollows' /\ ViewEventsKept'
  BY <1>4 DEF ViewFollows, HearsOfApp, ViewEventsKept
<1>14. ViewWay = request.events /\ ViewWay' = <<>>
  BY <1>1, <1>6 DEF ViewWay, OnWay
<1>15. InLine(vdomRan', <<>>, view.m.events, vdomCount.inputs)
  <2>1. InLine(vdomRan, part, view.m.events, vdomCount.inputs)
    BY <1>1, <1>14, VDomParts, PartInLine
  <2> QED BY <1>4, <1>9, <2>1, VDomParts, RunInLine
<1> QED BY <1>4, <1>8, <1>11, <1>12, <1>13, <1>14, <1>15 DEF VDomInv

\* Every step keeps the invariant.
LEMMA VDomStepInv == VDomInv /\ [VDomNext]_vdomVars => VDomInv'
<1> SUFFICES ASSUME VDomInv, [VDomNext]_vdomVars PROVE VDomInv'
  OBVIOUS
<1>1. CASE VDomBackend
  BY <1>1, RouteInv, VDomEndsInv, VDomRenderInv DEF VDomBackend
<1>2. CASE ViewStep
  BY <1>2, VDomTimerInv, RouteDownInv, ChunkInv, RouteKnownInv, AsyncInitiationInv, VDomAnswerInv,
     VDomRenderedInv DEF ViewStep
<1>3. CASE VDomChange \/ AppEnds \/ CloseBlock \/ VDomRequestFails
  BY <1>3, VDomChangeInv, VDomEndsInv, CloseBlockInv, VDomFailsInv
<1>6. CASE request # Absent /\ \E ran \in 0 .. Len(request.events), worked \in BOOLEAN : VDomPanics(ran, worked)
  BY <1>6, VDomPanicsInv
<1>7. CASE \E n \in 0 .. MaxChunks, h, e \in BOOLEAN : AnswerCut(n, h, e)
  BY <1>7, AnswerCutInv
<1>4. ASSUME NEW due \in BOOLEAN, CtrlC(due) \/ \E kind \in {"quick", "slow"} : VDomInput(kind, due)
      PROVE  VDomInv'
  BY <1>4, CtrlCInv, VDomInputInv
<1>5. CASE UNCHANGED vdomVars
  <2>1. UNCHANGED <<waveApp, link, view, request, vdomCount, vdomRan, vdomOdd>>
    BY <1>5 DEF vdomVars
  <2> QED BY <2>1 DEF VDomInv, VDomTypeOK, CycleOK, ViewAnswers, ViewFollows, HearsOfApp, ViewRenews, OnWay,
                      WillSend, WholeUpdates, ViewEventsKept, ViewWay, InLine
<1> QED BY <1>1, <1>2, <1>3, <1>4, <1>5, <1>6, <1>7 DEF VDomNext

\* What follows from the invariant: at rest a view that follows its app shows its state.
LEMMA VDomInvAgrees == VDomInv => ViewAgrees
<1> SUFFICES ASSUME VDomInv PROVE ViewAgrees
  OBVIOUS
<1>1. ViewUpToDate
  <2> SUFFICES ASSUME link.nudges = 0, request = Absent, CycleIdle(view.m), ~view.version, HearsOfApp
               PROVE  view.root = waveApp.version /\ view.m.events = <<>> /\ ~waveApp.effect
    BY DEF ViewUpToDate, HearsOfApp
  <2>1. ~WillSend(view.m)
    BY VDomParts DEF CycleIdle, CycleOK, WillSend, Cycles
  <2>2. ~ViewRenews
    BY <2>1 DEF ViewRenews, OnWay
  <2> QED BY <2>1, <2>2, VDomParts DEF ViewFollows
<1>2. ViewEventsOnce
  <2>1. Rising(vdomRan)
    BY VDomParts DEF InLine
  <2>2. ToSet(ViewWay) \subseteq CarriedBy(request)
    BY RisingEmpty DEF ViewWay, OnWay, CarriedBy
  <2> QED BY <2>1, <2>2, VDomParts DEF ViewEventsOnce, ViewEventsKept
<1> QED BY <1>1, <1>2, VDomParts DEF ViewAgrees

\* The state of a view, of its app and of the link between them has its type.
THEOREM VDomTyped == VDomSpec => []VDomTypeOK
<1>1. VDomInv => VDomTypeOK
  BY DEF VDomInv
<1> QED BY <1>1, VDomInitInv, VDomStepInv, PTL DEF VDomSpec

\* A view and its app agree (ViewAgrees): as long as no answer is cut, at rest a view whose
\* app lives shows its state, made of whole updates; and the app runs every event once and
\* in order.
THEOREM ViewAgreesAlways == VDomSpec => []ViewAgrees
BY VDomInitInv, VDomStepInv, VDomInvAgrees, PTL DEF VDomSpec

-----------------------------------------------------------------------------
(* The page of a Tsunami app. *)

PageOnWay == req # Absent /\ ~req.answered
PageWay == IF PageOnWay THEN req.events ELSE <<>>

\* The notifier will still tell the page, or the page will hear it.
Telling == /\ notify.at = "select"
           /\ notify.armed \/ (notify.wake /\ notify.batch)
Nudged == \E i \in DOMAIN sse.q : sse.q[i].type = "asyncinitiation"

PageRenews == WillSend(fe.m) \/ PageOnWay \/ Telling \/ Nudged

\* The notifier's timer is armed only for a batch, a stream that is not open is empty, and
\* what comes to be shown is a modal.
NotifierOK == /\ notify.armed => notify.batch /\ notify.at = "select"
              /\ sse.at # "open" => sse.q = <<>>
              /\ Coming \subseteq Modals

\* Nothing got lost that would tell the page of a change, and modals come one by one.
PageHears == appOdd \cap {"unheard", "raced", "unforced", "failed", "restart"} = {}
ModalsHeard == appOdd \cap {"unheard modal", "overlap", "reload", "failed", "restart"} = {}

\* A page that hears of its app will ask again, or its answer or what it shows is the app's
\* state; it will send what is batched; and an effect waits only until a render.
PageFollows ==
  PageHears =>
    /\ \/ PageRenews
       \/ /\ (IF req = Absent THEN fe.root ELSE req.version) = app.version
          /\ (IF req = Absent THEN fe.serverId ELSE req.id) = app.id
    /\ fe.m.events # <<>> => WillSend(fe.m)
    /\ app.effect => \/ PageRenews \/ (req # Absent /\ req.hasWork)
                     \/ (fe.m.work /\ fe.version)

PageEventsKept ==
  appOdd \cap {"failed", "restart", "reload"} = {} =>
    1 .. appCount.inputs \subseteq ToSet(appRan) \cup ToSet(PageWay) \cup ToSet(fe.m.events)

\* Where a modal is.
Around(d) == d \in app.modals \/ d \in Coming \/ fe.modal = d \/ \E r \in results : r.id = d

\* Modals that come one after the other: there is one at a time, a result that is back has
\* closed it, and it is followed.
OneModal ==
  ModalsHeard =>
    /\ \A d, e \in Modals : Around(d) /\ Around(e) => d = e
    /\ \A r \in results : r.back => r.id \notin app.modals
    /\ \A d \in app.modals : fe.modal = d \/ d \in Coming

\* What the page shows and what it is sent is not newer than its app.
ShownNotNewer ==
  /\ fe.root = Absent <=> fe.serverId = Absent
  /\ fe.serverId # Absent => fe.serverId <= app.id
  /\ fe.serverId = app.id => fe.root <= app.version
  /\ req # Absent /\ req.answered =>
       req.id = app.id /\ req.version <= app.version /\ (fe.serverId = app.id => fe.root <= req.version)

AppInv ==
  /\ AppTypeOK /\ CycleOK(fe.m, req) /\ NotifierOK /\ PageFollows /\ PageEventsKept
  /\ InLine(appRan, PageWay, fe.m.events, appCount.inputs) /\ OneModal /\ ShownNotNewer

-----------------------------------------------------------------------------
(* The steps of a Tsunami app and its page. *)

PageStates == [m : Cycles, serverId : Nat \cup {Absent}, root : Nat \cup {Absent}, version : BOOLEAN,
               modal : Modals \cup {Absent}]
Apps == [id : Nat, version : Nat, effect : BOOLEAN, modals : SUBSET Modals]
Notifiers == [batch : BOOLEAN, wake : BOOLEAN, armed : BOOLEAN, at : {"select", "sent"}]
StreamEvents == [type : {"asyncinitiation", "showmodal"}, id : Modals \cup {Absent}]
Streams == [at : {"down", "open", "closed"}, q : Seq(StreamEvents)]
Results == [id : Modals, back : BOOLEAN]
AppCounts == [inputs : Nat, changes : Nat, effects : Nat, faults : Nat]

ComingIn(q) == {q[i].id : i \in {j \in DOMAIN q : q[j].type = "showmodal"}}
NudgedIn(q) == \E i \in DOMAIN q : q[i].type = "asyncinitiation"

\* The parts of the invariant, by name.
LEMMA AppParts ==
  ASSUME AppInv
  PROVE  /\ app \in Apps /\ notify \in Notifiers /\ sse \in Streams /\ fe \in PageStates
         /\ req \in PageRequests \cup {Absent} /\ results \subseteq Results /\ displayed \subseteq Modals
         /\ appCount \in AppCounts /\ appCount.inputs \in Nat /\ appRan \in Seq(Nat) /\ told \in Nat
         /\ fe.m \in Cycles /\ CycleOK(fe.m, req) /\ fe.m.events \in Seq(Nat) /\ PageWay \in Seq(Nat)
         /\ sse.q \in Seq(StreamEvents)
         /\ NotifierOK /\ PageFollows /\ PageEventsKept /\ OneModal /\ ShownNotNewer
         /\ InLine(appRan, PageWay, fe.m.events, appCount.inputs)
<1>1. /\ app \in Apps /\ notify \in Notifiers /\ sse \in Streams /\ fe \in PageStates
      /\ req \in PageRequests \cup {Absent} /\ results \subseteq Results /\ displayed \subseteq Modals
      /\ appCount \in AppCounts /\ appRan \in Seq(Nat) /\ told \in Nat
  BY DEF AppInv, AppTypeOK, Apps, Notifiers, Streams, StreamEvents, PageStates, Results, AppCounts
<1>2. fe.m \in Cycles /\ appCount.inputs \in Nat /\ sse.q \in Seq(StreamEvents)
  BY <1>1 DEF PageStates, AppCounts, Streams
<1>3. fe.m.events \in Seq(Nat)
  BY <1>2 DEF Cycles
<1>4. PageWay \in Seq(Nat)
  BY <1>1 DEF PageWay, PageOnWay, PageRequests
<1> QED BY <1>1, <1>2, <1>3, <1>4 DEF AppInv

\* The state has its type when its parts have.
LEMMA AppTypes ==
  ASSUME app \in Apps, notify \in Notifiers, sse \in Streams, fe \in PageStates,
         req \in PageRequests \cup {Absent}, results \subseteq Results, displayed \subseteq Modals,
         appCount \in AppCounts, appRan \in Seq(Nat), told \in Nat
  PROVE  AppTypeOK
BY DEF AppTypeOK, Apps, Notifiers, Streams, StreamEvents, PageStates, Results, AppCounts

\* Initially an update is queued.
LEMMA FreshPage ==
  /\ NewAppPage \in PageStates /\ CycleOK(NewAppPage.m, Absent) /\ NewAppPage.m.events = <<>>
  /\ WillSend(NewAppPage.m) /\ NewAppPage.serverId = Absent /\ NewAppPage.root = Absent
  /\ NewAppPage.modal = Absent
<1>1. PICK q : q = QueueUpdate(Fresh, "quick", FALSE)
  OBVIOUS
<1>2. q \in Cycles /\ CycleOK(q, Absent) /\ q.events = <<>> /\ WillSend(q)
  BY <1>1, FreshQueued
<1>3. NewAppPage = [m |-> q, serverId |-> Absent, root |-> Absent, version |-> FALSE, modal |-> Absent]
  BY <1>1 DEF NewAppPage
<1> QED BY <1>2, <1>3 DEF PageStates

LEMMA AppInitInv == AppInit => AppInv
<1> SUFFICES ASSUME AppInit PROVE AppInv
  OBVIOUS
<1>1. /\ app = [id |-> 1, version |-> 0, effect |-> FALSE, modals |-> {}]
      /\ notify = [batch |-> FALSE, wake |-> FALSE, armed |-> FALSE, at |-> "select"]
      /\ sse = [at |-> "down", q |-> <<>>] /\ fe = NewAppPage /\ req = Absent /\ results = {}
      /\ appCount = [inputs |-> 0, changes |-> 0, effects |-> 0, faults |-> 0]
      /\ displayed = {} /\ appRan = <<>> /\ told = 0 /\ appOdd = {}
  BY DEF AppInit, NewApp, QuietNotify, DownSse
<1>2. /\ app \in Apps /\ notify \in Notifiers /\ appCount \in AppCounts
  BY ONLY <1>1 DEF Apps, Notifiers, AppCounts
<1>3. sse \in Streams /\ sse.q = <<>>
  BY ONLY <1>1 DEF Streams
<1>4. AppTypeOK
  BY <1>1, <1>2, <1>3, FreshPage, AppTypes
<1>5. CycleOK(fe.m, req) /\ NotifierOK /\ ShownNotNewer
  <2>1. Coming = {}
    BY <1>3 DEF Coming
  <2> QED BY <1>1, <1>3, <2>1, FreshPage, PageRequestAssumption DEF NotifierOK, ShownNotNewer
<1>6. PageFollows
  BY <1>1, FreshPage DEF PageFollows, PageRenews
<1>7. PageWay = <<>> /\ fe.m.events = <<>> /\ appCount.inputs = 0
  BY <1>1, FreshPage DEF PageWay, PageOnWay
<1>8. PageEventsKept /\ InLine(appRan, PageWay, fe.m.events, appCount.inputs)
  BY <1>1, <1>7, RisingEmpty DEF InLine, PageEventsKept
<1>9. OneModal
  <2>1. Coming = {} /\ app.modals = {} /\ fe.modal = Absent
    BY <1>1, <1>3, FreshPage DEF Coming
  <2> QED BY <1>1, <2>1, PageRequestAssumption DEF OneModal, Around
<1> QED BY <1>4, <1>5, <1>6, <1>8, <1>9 DEF AppInv

\* An event at the end of the stream, and one that is taken from it.
LEMMA StreamAppended ==
  ASSUME NEW q \in Seq(StreamEvents), NEW e \in StreamEvents
  PROVE  /\ Append(q, e) \in Seq(StreamEvents)
         /\ ComingIn(q) \subseteq ComingIn(Append(q, e))
         /\ ComingIn(Append(q, e)) \subseteq ComingIn(q) \cup {e.id}
         /\ e.type = "asyncinitiation" => ComingIn(Append(q, e)) = ComingIn(q) /\ NudgedIn(Append(q, e))
         /\ e.type = "showmodal" => e.id \in ComingIn(Append(q, e))
         /\ NudgedIn(q) => NudgedIn(Append(q, e))
<1>1. PICK s : s = Append(q, e)
  OBVIOUS
<1>2. /\ s \in Seq(StreamEvents) /\ DOMAIN s = 1 .. Len(q) + 1 /\ DOMAIN q = 1 .. Len(q) /\ Len(q) \in Nat
      /\ \A i \in 1 .. Len(q) : s[i] = q[i]
      /\ s[Len(q) + 1] = e
  BY <1>1, AppendProperties
<1>3. \A i \in DOMAIN s : (i \in DOMAIN q /\ s[i] = q[i]) \/ s[i] = e
  BY <1>2
<1>4. \A i \in DOMAIN q : i \in DOMAIN s /\ s[i] = q[i]
  BY <1>2
<1>5. Len(q) + 1 \in DOMAIN s
  BY <1>2
<1>6. ComingIn(q) \subseteq ComingIn(s) /\ (NudgedIn(q) => NudgedIn(s))
  BY <1>4 DEF ComingIn, NudgedIn
<1>7. /\ ComingIn(s) \subseteq ComingIn(q) \cup {e.id}
      /\ e.type = "asyncinitiation" => ComingIn(s) \subseteq ComingIn(q)
  BY <1>3 DEF ComingIn
<1>8. /\ e.type = "showmodal" => e.id \in ComingIn(s)
      /\ e.type = "asyncinitiation" => NudgedIn(s)
  BY <1>2, <1>5 DEF ComingIn, NudgedIn
<1> QED BY <1>1, <1>2, <1>6, <1>7, <1>8

LEMMA StreamTaken ==
  ASSUME NEW q \in Seq(StreamEvents), q # <<>>
  PROVE  /\ Tail(q) \in Seq(StreamEvents) /\ Head(q) \in StreamEvents
         /\ ComingIn(Tail(q)) \subseteq ComingIn(q)
         /\ ComingIn(q) \subseteq ComingIn(Tail(q)) \cup {Head(q).id}
         /\ Head(q).type = "showmodal" => /\ Head(q).id \in ComingIn(q)
                                          /\ NudgedIn(q) => NudgedIn(Tail(q))
         /\ Head(q).type # "showmodal" => ComingIn(q) = ComingIn(Tail(q))
<1>1. PICK s : s = Tail(q)
  OBVIOUS
<1>2. PICK h : h = Head(q)
  OBVIOUS
<1>3. /\ s \in Seq(StreamEvents) /\ DOMAIN q = 1 .. Len(q) /\ Len(q) \in Nat /\ Len(q) > 0
      /\ Len(s) = Len(q) - 1 /\ DOMAIN s = 1 .. Len(q) - 1
      /\ \A i \in 1 .. Len(s) : s[i] = q[i + 1]
      /\ q[1] = h /\ h \in StreamEvents
  BY <1>1, <1>2, HeadTailProperties
<1>4. \A i \in DOMAIN q : (i - 1 \in DOMAIN s /\ q[i] = s[i - 1]) \/ q[i] = h
  <2> SUFFICES ASSUME NEW i \in DOMAIN q, q[i] # h PROVE i - 1 \in DOMAIN s /\ q[i] = s[i - 1]
    OBVIOUS
  <2>1. i \in Nat /\ i > 1 /\ i <= Len(q)
    BY <1>3
  <2>2. i - 1 \in 1 .. Len(s) /\ (i - 1) + 1 = i
    BY <1>3, <2>1
  <2> QED BY <1>3, <2>2
<1>5. \A i \in DOMAIN s : i + 1 \in DOMAIN q /\ s[i] = q[i + 1]
  BY <1>3
<1>6. 1 \in DOMAIN q
  BY <1>3
<1>7. ComingIn(s) \subseteq ComingIn(q)
  BY <1>5 DEF ComingIn
<1>8. /\ ComingIn(q) \subseteq ComingIn(s) \cup {h.id}
      /\ h.type # "showmodal" => ComingIn(q) \subseteq ComingIn(s)
      /\ h.type = "showmodal" /\ NudgedIn(q) => NudgedIn(s)
  BY <1>4 DEF ComingIn, NudgedIn
<1>9. h.type = "showmodal" => h.id \in ComingIn(q)
  BY <1>3, <1>6 DEF ComingIn
<1> QED BY <1>1, <1>2, <1>3, <1>7, <1>8, <1>9

\* A step that leaves the events where they are keeps them in line.
LEMMA AppEventsStay ==
  ASSUME AppInv, appRan' = appRan, PageWay' = PageWay, fe'.m.events = fe.m.events,
         appCount'.inputs = appCount.inputs, appOdd \subseteq appOdd'
  PROVE  PageEventsKept' /\ InLine(appRan, PageWay, fe.m.events, appCount.inputs)'
<1>1. appOdd' \cap {"failed", "restart", "reload"} = {} => appOdd \cap {"failed", "restart", "reload"} = {}
  OBVIOUS
<1> QED BY <1>1, AppParts DEF PageEventsKept

\* A step that leaves the modals where they are, or closes some.
LEMMA ModalsStay ==
  ASSUME AppInv, app'.modals \subseteq app.modals, Coming' = Coming, fe'.modal = fe.modal,
         results' = results, appOdd \subseteq appOdd'
  PROVE  OneModal'
<1>1. Coming' = Coming
  OBVIOUS
<1>2. ModalsHeard' => ModalsHeard
  BY DEF ModalsHeard
<1>3. \A d : Around(d)' => Around(d)
  BY <1>1 DEF Around
<1>4. OneModal
  BY AppParts
<1> QED BY <1>1, <1>2, <1>3, <1>4 DEF OneModal

\* A step that leaves the app and the request as they are: the page will send another
\* request after it, or owes no less than before.
LEMMA PageAloneInv ==
  ASSUME AppInv, UNCHANGED <<app, req, appRan>>, AppTypeOK', CycleOK(fe'.m, req), NotifierOK', OneModal',
         appCount'.inputs = appCount.inputs, appOdd \subseteq appOdd',
         fe'.m.events = fe.m.events, fe'.root = fe.root, fe'.serverId = fe.serverId,
         PageHears' =>
           \/ WillSend(fe'.m)
           \/ /\ WillSend(fe.m) => WillSend(fe'.m)
              /\ Telling => Telling' \/ Nudged'
              /\ Nudged => Nudged'
              /\ fe.m.work /\ fe.version => fe'.m.work /\ fe'.version
  PROVE  AppInv'
<1>1. PageFollows'
  <2> SUFFICES ASSUME PageHears'
               PROVE  /\ \/ PageRenews'
                         \/ /\ (IF req = Absent THEN fe.root ELSE req.version) = app.version
                            /\ (IF req = Absent THEN fe.serverId ELSE req.id) = app.id
                      /\ fe.m.events # <<>> => WillSend(fe'.m)
                      /\ app.effect => \/ PageRenews' \/ (req # Absent /\ req.hasWork)
                                       \/ (fe'.m.work /\ fe'.version)
    BY DEF PageFollows
  <2>1. CASE WillSend(fe'.m)
    BY <2>1 DEF PageRenews
  <2>2. CASE ~WillSend(fe'.m)
    <3>1. PageHears
      BY DEF PageHears
    <3>2. PageOnWay' = PageOnWay
      BY DEF PageOnWay
    <3>3. PageRenews => PageRenews'
      BY <2>2, <3>2 DEF PageRenews
    <3> QED BY <2>2, <3>1, <3>3, AppParts DEF PageFollows
  <2> QED BY <2>1, <2>2
<1>2. PageWay' = PageWay
  BY DEF PageWay, PageOnWay
<1>3. PageEventsKept' /\ InLine(appRan, PageWay, fe.m.events, appCount.inputs)'
  BY <1>2, AppEventsStay
<1>4. ShownNotNewer'
  BY AppParts DEF ShownNotNewer
<1> QED BY <1>1, <1>3, <1>4 DEF AppInv

\* A step of the notifier: the stream gets at most a nudge.
LEMMA NotifierInv ==
  ASSUME AppInv, UNCHANGED <<app, fe, req, results, appCount, displayed, appRan>>,
         notify' \in Notifiers, sse' \in Streams, told' \in Nat, NotifierOK', Coming' = Coming,
         appOdd \subseteq appOdd', PageHears' => (Telling => Telling' \/ Nudged') /\ (Nudged => Nudged')
  PROVE  AppInv'
<1>1. AppTypeOK'
  BY AppParts DEF AppTypeOK, Apps, Notifiers, Streams, StreamEvents, PageStates, Results, AppCounts
<1>2. OneModal'
  BY ModalsStay
<1>3. CycleOK(fe'.m, req)
  BY AppParts
<1> QED BY <1>1, <1>2, <1>3, PageAloneInv

\* The notifier wakes up, and its timer fires; the batch is closed after that.
LEMMA WakeInv == AppInv /\ Wake => AppInv'
<1> SUFFICES ASSUME AppInv, Wake PROVE AppInv'
  OBVIOUS
<1>1. /\ notify.at = "select" /\ notify.wake
      /\ notify' = [notify EXCEPT !.wake = FALSE, !.armed = notify.batch]
      /\ UNCHANGED <<app, sse, fe, req, results, appCount, displayed, appRan, told, appOdd>>
  BY DEF Wake
<1>2. /\ notify' \in Notifiers /\ notify'.armed = notify.batch /\ notify'.batch = notify.batch
      /\ notify'.at = "select"
  BY <1>1, AppParts DEF Notifiers
<1>3. Coming' = Coming /\ Nudged' = Nudged
  BY <1>1 DEF Coming, Nudged
<1>4. NotifierOK' /\ (Telling => Telling')
  BY <1>1, <1>2, <1>3, AppParts DEF NotifierOK, Telling
<1>5. sse' \in Streams /\ told' \in Nat
  BY <1>1, AppParts
<1> QED BY <1>1, <1>2, <1>3, <1>4, <1>5, NotifierInv

LEMMA FireInv == AppInv /\ Fire => AppInv'
<1> SUFFICES ASSUME AppInv, Fire PROVE AppInv'
  OBVIOUS
<1>1. /\ notify.at = "select" /\ notify.armed /\ sse' = Stream(Nudge)
      /\ notify' = [notify EXCEPT !.armed = FALSE, !.at = "sent"]
      /\ told' = app.version /\ appOdd' = appOdd \cup Unheard("unheard")
      /\ UNCHANGED <<app, fe, req, results, appCount, displayed, appRan>>
  BY DEF Fire
<1>2. notify' \in Notifiers /\ ~notify'.armed
  BY <1>1, AppParts DEF Notifiers
<1>3. told' \in Nat
  BY <1>1, AppParts DEF Apps
<1>4. CASE sse.at = "open"
  <2>1. PICK n : n = Nudge
    OBVIOUS
  <2>2. n \in StreamEvents /\ n.type = "asyncinitiation"
    BY <2>1 DEF Nudge, StreamEvents
  <2>3. PICK s : s = Append(sse.q, n)
    OBVIOUS
  <2>4. /\ s \in Seq(StreamEvents) /\ ComingIn(s) = ComingIn(sse.q) /\ NudgedIn(s)
    BY <2>2, <2>3, AppParts, StreamAppended
  <2>5. sse' = [sse EXCEPT !.q = s]
    BY <1>1, <1>4, <2>1, <2>3 DEF Stream
  <2>6. sse' \in Streams /\ sse'.q = s /\ sse'.at = "open"
    BY <1>4, <2>4, <2>5, AppParts DEF Streams
  <2>7. Coming' = Coming /\ Nudged'
    BY <2>4, <2>6 DEF Coming, Nudged, ComingIn, NudgedIn
  <2>8. NotifierOK'
    BY <1>2, <2>6, <2>7, AppParts DEF NotifierOK
  <2> QED BY <1>1, <1>2, <1>3, <2>6, <2>7, <2>8, NotifierInv
<1>5. CASE sse.at # "open"
  <2>1. sse' = sse /\ "unheard" \in appOdd'
    BY <1>1, <1>5 DEF Stream, Unheard
  <2>2. Coming' = Coming
    BY <2>1 DEF Coming
  <2>3. NotifierOK'
    BY <1>2, <2>1, <2>2, AppParts DEF NotifierOK
  <2>4. ~PageHears'
    BY <2>1 DEF PageHears
  <2>5. sse' \in Streams
    BY <2>1, AppParts
  <2> QED BY <1>1, <1>2, <1>3, <2>2, <2>3, <2>4, <2>5, NotifierInv
<1> QED BY <1>4, <1>5

LEMMA CloseBatchInv == AppInv /\ CloseBatch => AppInv'
<1> SUFFICES ASSUME AppInv, CloseBatch PROVE AppInv'
  OBVIOUS
<1>1. /\ notify.at = "sent" /\ notify' = [notify EXCEPT !.batch = FALSE, !.at = "select"]
      /\ UNCHANGED <<app, sse, fe, req, results, appCount, displayed, appRan, told, appOdd>>
  BY DEF CloseBatch
<1>2. ~notify.armed /\ ~Telling
  BY <1>1, AppParts DEF NotifierOK, Telling
<1>3. notify' \in Notifiers /\ ~notify'.armed
  BY <1>1, <1>2, AppParts DEF Notifiers
<1>4. Coming' = Coming /\ Nudged' = Nudged
  BY <1>1 DEF Coming, Nudged
<1>5. NotifierOK'
  BY <1>1, <1>3, <1>4, AppParts DEF NotifierOK
<1>6. sse' \in Streams /\ told' \in Nat
  BY <1>1, AppParts
<1> QED BY <1>1, <1>2, <1>3, <1>4, <1>5, <1>6, NotifierInv

\* The stream is connected, or breaks: what was in it is lost.
LEMMA ConnectInv == AppInv /\ Connect => AppInv'
<1> SUFFICES ASSUME AppInv, Connect PROVE AppInv'
  OBVIOUS
<1>1. /\ sse.at = "down" /\ sse' = [sse EXCEPT !.at = "open"]
      /\ UNCHANGED <<app, notify, fe, req, results, appCount, displayed, appRan, told, appOdd>>
  BY DEF Connect
<1>2. sse' \in Streams /\ sse'.q = sse.q /\ sse'.at = "open"
  BY <1>1, AppParts DEF Streams
<1>3. Coming' = Coming /\ Nudged' = Nudged
  BY <1>2 DEF Coming, Nudged
<1>4. NotifierOK' /\ (Telling => Telling')
  BY <1>1, <1>2, <1>3, AppParts DEF NotifierOK, Telling
<1>5. notify' \in Notifiers /\ told' \in Nat
  BY <1>1, AppParts
<1> QED BY <1>1, <1>2, <1>3, <1>4, <1>5, NotifierInv

LEMMA CountFault ==
  ASSUME AppInv, AppFault
  PROVE  appCount' \in AppCounts /\ appCount'.inputs = appCount.inputs
<1>1. appCount \in AppCounts /\ appCount' = [appCount EXCEPT !.faults = appCount.faults + 1]
  BY AppParts DEF AppFault
<1> QED BY ONLY <1>1 DEF AppCounts

LEMMA BreakInv == AppInv /\ Break => AppInv'
<1> SUFFICES ASSUME AppInv, Break PROVE AppInv'
  OBVIOUS
<1>1. /\ AppFault
      /\ appOdd' = IF sse.q # <<>> THEN appOdd \cup {"unheard", "unheard modal"} ELSE appOdd
      /\ UNCHANGED <<app, notify, fe, req, results, displayed, appRan, told>>
  BY DEF Break
<1>2. PICK at \in {"down", "closed"} : sse' = [at |-> at, q |-> <<>>]
  BY DEF Break
<1>3. sse' \in Streams /\ sse'.q = <<>>
  BY <1>2 DEF Streams
<1>4. Coming' = {} /\ ~Nudged'
  BY <1>3 DEF Coming, Nudged
<1>5. NotifierOK'
  BY <1>1, <1>3, <1>4, AppParts DEF NotifierOK
<1>6. appCount' \in AppCounts /\ appCount'.inputs = appCount.inputs
  BY <1>1, CountFault
<1>7. AppTypeOK'
  BY <1>1, <1>3, <1>6, AppParts
     DEF AppTypeOK, Apps, Notifiers, Streams, StreamEvents, PageStates, Results, AppCounts
<1>8. CASE sse.q # <<>>
  <2>1. ~PageHears' /\ ~ModalsHeard'
    BY <1>1, <1>8 DEF PageHears, ModalsHeard
  <2>2. OneModal'
    BY <2>1 DEF OneModal
  <2>3. CycleOK(fe'.m, req) /\ appOdd \subseteq appOdd'
    BY <1>1, AppParts
  <2> QED BY <1>1, <1>5, <1>6, <1>7, <2>1, <2>2, <2>3, PageAloneInv
<1>9. CASE sse.q = <<>>
  <2>1. Coming = {} /\ ~Nudged
    BY <1>9 DEF Coming, Nudged
  <2>2. appOdd' = appOdd
    BY <1>1, <1>9
  <2>3. OneModal'
    BY <1>1, <1>4, <2>1, <2>2, ModalsStay
  <2>4. CycleOK(fe'.m, req) /\ Telling' = Telling
    BY <1>1, AppParts DEF Telling
  <2> QED BY <1>1, <1>5, <1>6, <1>7, <2>1, <2>2, <2>3, <2>4, PageAloneInv
<1> QED BY <1>8, <1>9

\* A full channel drops the last event of the stream.
LEMMA StreamFullInv == AppInv /\ StreamFull => AppInv'
<1> SUFFICES ASSUME AppInv, StreamFull PROVE AppInv'
  OBVIOUS
<1> DEFINE front == Front(sse.q)
<1>1. /\ AppFault /\ sse.q # <<>> /\ sse' = [sse EXCEPT !.q = front]
      /\ appOdd' = appOdd \cup {"unheard", "unheard modal"}
      /\ UNCHANGED <<app, notify, fe, req, results, displayed, appRan, told>>
  BY DEF StreamFull
<1>2. sse.q \in Seq(StreamEvents) /\ sse \in Streams
  BY AppParts
<1>3. /\ front \in Seq(StreamEvents) /\ DOMAIN front \subseteq DOMAIN sse.q
      /\ \A i \in DOMAIN front : front[i] = sse.q[i]
  <2>1. PICK q : q = sse.q
    OBVIOUS
  <2>4. q \in Seq(StreamEvents) /\ q # <<>>
    BY <1>1, <1>2, <2>1
  <2>2. q \in Seq(StreamEvents) /\ Len(q) \in Nat /\ Len(q) > 0 /\ DOMAIN q = 1 .. Len(q)
    BY ONLY <2>4, EmptySeq
  <2>3. /\ SubSeq(q, 1, Len(q) - 1) \in Seq(StreamEvents)
        /\ DOMAIN SubSeq(q, 1, Len(q) - 1) = 1 .. (Len(q) - 1)
        /\ \A i \in 1 .. (Len(q) - 1) : SubSeq(q, 1, Len(q) - 1)[i] = q[i]
    BY ONLY <2>2
  <2> QED BY <2>1, <2>2, <2>3 DEF Front
<1> HIDE DEF front
<1>4. sse' \in Streams /\ sse'.q = front /\ sse'.at = sse.at
  BY <1>1, <1>2, <1>3 DEF Streams
<1>5. Coming' \subseteq Coming
  BY <1>3, <1>4 DEF Coming
<1>6. NotifierOK'
  <2>1. sse.at = "open"
    BY <1>1, AppParts DEF NotifierOK
  <2> QED BY <1>1, <1>4, <1>5, <2>1, AppParts DEF NotifierOK
<1>7. appCount' \in AppCounts /\ appCount'.inputs = appCount.inputs
  BY <1>1, CountFault
<1>8. AppTypeOK'
  BY <1>1, <1>4, <1>7, AppParts
     DEF AppTypeOK, Apps, Notifiers, Streams, StreamEvents, PageStates, Results, AppCounts
<1>9. ~PageHears' /\ ~ModalsHeard'
  BY <1>1 DEF PageHears, ModalsHeard
<1>10. OneModal' /\ CycleOK(fe'.m, req) /\ appOdd \subseteq appOdd'
  BY <1>1, <1>9, AppParts DEF OneModal
<1> QED BY <1>1, <1>6, <1>7, <1>8, <1>9, <1>10, PageAloneInv

\* The page with another update cycle.
LEMMA PageCycle ==
  ASSUME AppInv, NEW j \in Cycles, fe' = [fe EXCEPT !.m = j]
  PROVE  /\ fe' \in PageStates /\ fe'.m = j /\ fe'.root = fe.root /\ fe'.serverId = fe.serverId
         /\ fe'.version = fe.version /\ fe'.modal = fe.modal
  BY AppParts DEF PageStates

\* Steps of modals: the stream, the page and the results change.
LEMMA ModalsAloneInv ==
  ASSUME AppInv, UNCHANGED <<notify, sse, req, appCount, displayed, appRan, told, appOdd>>,
         app' \in Apps, app'.version = app.version, app'.id = app.id, app'.effect = app.effect,
         fe' \in PageStates, fe'.m = fe.m, fe'.root = fe.root, fe'.serverId = fe.serverId,
         fe'.version = fe.version, results' \subseteq Results, OneModal'
  PROVE  AppInv'
<1>1. AppTypeOK'
  BY AppParts DEF AppTypeOK, Apps, Notifiers, Streams, StreamEvents, PageStates, Results, AppCounts
<1>2. CycleOK(fe'.m, req') /\ ShownNotNewer'
  BY AppParts DEF ShownNotNewer
<1>3. Coming' = Coming /\ Nudged' = Nudged /\ Telling' = Telling /\ PageOnWay' = PageOnWay
  BY DEF Coming, Nudged, Telling, PageOnWay
<1>4. NotifierOK'
  BY <1>3, AppParts DEF NotifierOK
<1>5. PageFollows'
  BY <1>3, AppParts DEF PageFollows, PageRenews, PageHears
<1>6. PageWay' = PageWay
  BY <1>3 DEF PageWay
<1>7. PageEventsKept' /\ InLine(appRan, PageWay, fe.m.events, appCount.inputs)'
  BY <1>6, AppEventsStay
<1> QED BY <1>1, <1>2, <1>4, <1>5, <1>7 DEF AppInv

\* The page sends the result of the modal it shows; the app closes it; the page clears it.
LEMMA SendModalResultInv == AppInv /\ SendModalResult => AppInv'
<1> SUFFICES ASSUME AppInv, SendModalResult PROVE AppInv'
  OBVIOUS
<1>1. PICK r : r = [id |-> fe.modal, back |-> FALSE]
  OBVIOUS
<1>2. /\ fe.modal # Absent /\ results' = results \cup {r}
      /\ UNCHANGED <<app, notify, sse, fe, req, appCount, displayed, appRan, told, appOdd>>
  BY <1>1 DEF SendModalResult
<1>3. r \in Results /\ r.id = fe.modal /\ ~r.back
  BY <1>1, <1>2, AppParts DEF PageStates, Results
<1>4. results' \subseteq Results
  BY <1>2, <1>3, AppParts
<1>5. OneModal'
  <2>1. Coming' = Coming /\ ModalsHeard' = ModalsHeard
    BY <1>2 DEF Coming, ModalsHeard
  <2>2. \A d : Around(d)' => Around(d)
    BY <1>2, <1>3, <2>1 DEF Around
  <2> QED BY <1>2, <1>3, <2>1, <2>2, AppParts DEF OneModal
<1> QED BY <1>2, <1>4, <1>5, AppParts, ModalsAloneInv

LEMMA CloseModalInv ==
  ASSUME AppInv, NEW r \in results, CloseModal(r)
  PROVE  AppInv'
<1>1. r \in Results /\ ~r.back
  BY AppParts DEF CloseModal
<1>2. PICK b : b = [r EXCEPT !.back = TRUE]
  OBVIOUS
<1>3. b \in Results /\ b.id = r.id /\ b.back
  BY <1>1, <1>2 DEF Results
<1>4. /\ results' = (results \ {r}) \cup {b} /\ app' = [app EXCEPT !.modals = app.modals \ {r.id}]
      /\ UNCHANGED <<notify, sse, fe, req, appCount, displayed, appRan, told, appOdd>>
  BY <1>2 DEF CloseModal
<1>5. /\ app' \in Apps /\ app'.version = app.version /\ app'.id = app.id /\ app'.effect = app.effect
      /\ app'.modals = app.modals \ {r.id}
  BY <1>4, AppParts DEF Apps
<1>6. results' \subseteq Results
  BY <1>3, <1>4, AppParts
<1>7. OneModal'
  <2>1. Coming' = Coming /\ ModalsHeard' = ModalsHeard
    BY <1>4 DEF Coming, ModalsHeard
  <2>2. \A d : Around(d)' => Around(d)
    BY <1>3, <1>4, <1>5, <2>1 DEF Around
  <2>3. \A s \in results' : s.back => s.id \notin app'.modals \/ s \in results
    BY <1>3, <1>4, <1>5
  <2> QED BY <1>4, <1>5, <2>1, <2>2, <2>3, AppParts DEF OneModal
<1> QED BY <1>4, <1>5, <1>6, <1>7, AppParts, ModalsAloneInv

LEMMA ModalResultSentInv ==
  ASSUME AppInv, NEW r \in results, ModalResultSent(r)
  PROVE  AppInv'
<1>1. /\ r.back /\ r \in Results /\ results' = results \ {r} /\ fe' = [fe EXCEPT !.modal = Absent]
      /\ UNCHANGED <<app, notify, sse, req, appCount, displayed, appRan, told, appOdd>>
  BY AppParts DEF ModalResultSent
<1>2. /\ fe' \in PageStates /\ fe'.m = fe.m /\ fe'.root = fe.root /\ fe'.serverId = fe.serverId
      /\ fe'.version = fe.version /\ fe'.modal = Absent
  BY <1>1, AppParts DEF PageStates
<1>3. results' \subseteq Results
  BY <1>1, AppParts
<1>4. OneModal'
  <2> SUFFICES ASSUME ModalsHeard
               PROVE  /\ \A d, e \in Modals : Around(d)' /\ Around(e)' => d = e
                      /\ \A s \in results' : s.back => s.id \notin app.modals
                      /\ \A d \in app.modals : d \in Coming
    <3>1. Coming' = Coming /\ ModalsHeard' = ModalsHeard
      BY <1>1 DEF Coming, ModalsHeard
    <3> QED BY <1>1, <3>1 DEF OneModal
  <2>1. Coming' = Coming
    BY <1>1 DEF Coming
  <2>2. \A d \in Modals : Around(d)' => Around(d)
    BY <1>1, <1>2, <2>1, PageRequestAssumption DEF Around
  <2>3. /\ \A d, e \in Modals : Around(d) /\ Around(e) => d = e
        /\ \A s \in results : s.back => s.id \notin app.modals
        /\ \A d \in app.modals : fe.modal = d \/ d \in Coming
    BY AppParts DEF OneModal
  <2>4. ASSUME NEW d \in app.modals PROVE d \in Coming
    <3>1. d \in Modals /\ r.id \in Modals
      BY <1>1, AppParts DEF Apps, Results
    <3>2. Around(r.id) /\ Around(d)
      BY <2>4 DEF Around
    <3>3. d = r.id
      BY <2>3, <3>1, <3>2
    <3> QED BY <1>1, <2>3, <2>4, <3>3
  <2> QED BY <1>1, <2>2, <2>3, <2>4
<1> QED BY <1>1, <1>2, <1>3, <1>4, AppParts, ModalsAloneInv

\* The page hears a nudge, or shows a modal.
LEMMA HearInv ==
  ASSUME AppInv, NEW due \in BOOLEAN, Hear(due)
  PROVE  AppInv'
<1>1. PICK s : s = Tail(sse.q)
  OBVIOUS
<1>2. PICK h : h = Head(sse.q)
  OBVIOUS
<1>3. /\ sse.q # <<>> /\ sse' = [sse EXCEPT !.q = s]
      /\ fe' = IF h.type = "showmodal" THEN [fe EXCEPT !.modal = h.id]
               ELSE [fe EXCEPT !.m = QueueUpdate(fe.m, "quick", due)]
      /\ UNCHANGED <<app, notify, req, results, appCount, displayed, appRan, told, appOdd>>
  BY <1>1, <1>2 DEF Hear
<1>4. /\ s \in Seq(StreamEvents) /\ h \in StreamEvents
      /\ ComingIn(s) \subseteq ComingIn(sse.q) /\ ComingIn(sse.q) \subseteq ComingIn(s) \cup {h.id}
      /\ h.type = "showmodal" => h.id \in ComingIn(sse.q) /\ (NudgedIn(sse.q) => NudgedIn(s))
      /\ h.type # "showmodal" => ComingIn(sse.q) = ComingIn(s)
  BY <1>1, <1>2, <1>3, AppParts, StreamTaken
<1>5. sse' \in Streams /\ sse'.q = s /\ sse'.at = sse.at
  BY <1>3, <1>4, AppParts DEF Streams
<1>6. /\ Coming = ComingIn(sse.q) /\ Coming' = ComingIn(s)
      /\ Nudged = NudgedIn(sse.q) /\ Nudged' = NudgedIn(s)
  BY <1>5 DEF Coming, ComingIn, Nudged, NudgedIn
<1>7. NotifierOK'
  BY <1>3, <1>4, <1>5, <1>6, AppParts DEF NotifierOK
<1>8. CASE h.type = "showmodal"
  <2>1. h.id \in Modals
    BY <1>4, <1>6, <1>8, AppParts DEF NotifierOK
  <2>2. fe' = [fe EXCEPT !.modal = h.id]
    BY <1>3, <1>8
  <2>3. /\ fe' \in PageStates /\ fe'.m = fe.m /\ fe'.root = fe.root /\ fe'.serverId = fe.serverId
        /\ fe'.version = fe.version /\ fe'.modal = h.id
    BY <2>1, <2>2, AppParts DEF PageStates
  <2>4. AppTypeOK'
    BY <1>3, <1>5, <2>3, AppParts
       DEF AppTypeOK, Apps, Notifiers, Streams, StreamEvents, PageStates, Results, AppCounts
  <2>5. CycleOK(fe'.m, req) /\ Telling' = Telling
    BY <1>3, <2>3, AppParts DEF Telling
  <2>6. OneModal'
    <3> SUFFICES ASSUME ModalsHeard
                 PROVE  /\ \A d, e \in Modals : Around(d)' /\ Around(e)' => d = e
                        /\ \A r \in results : r.back => r.id \notin app.modals
                        /\ \A d \in app.modals : h.id = d \/ d \in Coming'
      BY <1>3, <2>3 DEF OneModal, ModalsHeard
    <3>1. /\ \A d, e \in Modals : Around(d) /\ Around(e) => d = e
          /\ \A r \in results : r.back => r.id \notin app.modals
          /\ \A d \in app.modals : fe.modal = d \/ d \in Coming
      BY AppParts DEF OneModal
    <3>2. h.id \in Coming /\ Coming' \subseteq Coming
      BY <1>4, <1>6, <1>8
    <3>3. \A d \in Modals : Around(d)' => Around(d)
      BY <1>3, <2>3, <3>2 DEF Around
    <3>4. Around(h.id) /\ \A d \in app.modals : d \in Modals /\ Around(d)
      BY <3>2, AppParts DEF Around, Apps
    <3>5. \A d \in app.modals : h.id = d
      BY <2>1, <3>1, <3>4
    <3> QED BY <3>1, <3>3, <3>5
  <2> QED BY <1>3, <1>4, <1>6, <1>7, <1>8, <2>3, <2>4, <2>5, <2>6, PageAloneInv
<1>9. CASE h.type # "showmodal"
  <2>1. PICK k : k = "quick"
    OBVIOUS
  <2>2. PICK j : j = QueueUpdate(fe.m, k, due)
    OBVIOUS
  <2>3. /\ j \in Cycles /\ CycleOK(j, req) /\ WillSend(j) /\ j.events = fe.m.events
    BY <2>1, <2>2, AppParts, QueueQueues
  <2>4. fe' = [fe EXCEPT !.m = j]
    BY <1>3, <1>9, <2>1, <2>2
  <2>5. /\ fe' \in PageStates /\ fe'.m = j /\ fe'.root = fe.root /\ fe'.serverId = fe.serverId
        /\ fe'.version = fe.version /\ fe'.modal = fe.modal
    BY <2>3, <2>4, PageCycle
  <2>6. AppTypeOK'
    BY <1>3, <1>5, <2>5, AppParts
       DEF AppTypeOK, Apps, Notifiers, Streams, StreamEvents, PageStates, Results, AppCounts
  <2>7. Coming' = Coming
    BY <1>4, <1>6, <1>9
  <2>8. OneModal'
    BY <1>3, <2>5, <2>7, ModalsStay
  <2> QED BY <1>3, <1>7, <2>3, <2>5, <2>6, <2>8, PageAloneInv
<1> QED BY <1>8, <1>9

\* The rendering of an update sees the work of the backend.
LEMMA AppRenderedInv ==
  ASSUME AppInv, NEW due \in BOOLEAN, AppRendered(due)
  PROVE  AppInv'
<1>1. PICK j : j = RenderDone(fe.m, due)
  OBVIOUS
<1>2. /\ j \in Cycles /\ CycleOK(j, req) /\ j.pending = fe.m.pending /\ j.immediate = fe.m.immediate
      /\ j.events = fe.m.events /\ (fe.m.work \/ fe.m.queued # "none" => j.queued # "none")
  BY <1>1, AppParts, WorkRenews
<1>3. /\ fe' = [fe EXCEPT !.version = FALSE, !.m = j]
      /\ UNCHANGED <<app, notify, sse, req, results, appCount, displayed, appRan, told, appOdd>>
  BY <1>1 DEF AppRendered
<1>4. /\ fe' \in PageStates /\ fe'.m = j /\ fe'.root = fe.root /\ fe'.serverId = fe.serverId
      /\ fe'.modal = fe.modal
  BY <1>2, <1>3, AppParts DEF PageStates
<1>5. AppTypeOK'
  BY <1>3, <1>4, AppParts
     DEF AppTypeOK, Apps, Notifiers, Streams, StreamEvents, PageStates, Results, AppCounts
<1>6. Coming' = Coming /\ Nudged' = Nudged /\ Telling' = Telling
  BY <1>3 DEF Coming, Nudged, Telling
<1>7. NotifierOK' /\ OneModal'
  BY <1>3, <1>4, <1>6, AppParts, ModalsStay DEF NotifierOK
<1>8. (WillSend(fe.m) => WillSend(j)) /\ (fe.m.work => WillSend(j))
  BY <1>2 DEF WillSend
<1> QED BY <1>2, <1>3, <1>4, <1>5, <1>6, <1>7, <1>8, PageAloneInv

\* A change of the app wakes the notifier, or races with it.
LEMMA AppChangeInv == AppInv /\ AppChange => AppInv'
<1> SUFFICES ASSUME AppInv, AppChange PROVE AppInv'
  OBVIOUS
<1>1. /\ appCount' = [appCount EXCEPT !.changes = appCount.changes + 1]
      /\ app' = [app EXCEPT !.version = app.version + 1]
      /\ notify' = [notify EXCEPT !.batch = TRUE, !.wake = TRUE]
      /\ appOdd' = IF notify.at = "sent" THEN appOdd \cup {"raced"} ELSE appOdd
      /\ UNCHANGED <<sse, fe, req, results, displayed, appRan, told>>
  BY DEF AppChange
<1>2. appCount' \in AppCounts /\ appCount'.inputs = appCount.inputs
  <2>1. appCount \in AppCounts
    BY AppParts
  <2> QED BY ONLY <1>1, <2>1 DEF AppCounts
<1>3. /\ app' \in Apps /\ app'.version = app.version + 1 /\ app'.id = app.id
      /\ app'.modals = app.modals /\ app.version \in Nat /\ app.id \in Nat
  <2>1. app \in Apps
    BY AppParts
  <2> QED BY ONLY <1>1, <2>1 DEF Apps
<1>4. /\ notify' \in Notifiers /\ notify'.batch /\ notify'.wake /\ notify'.at = notify.at
      /\ notify'.armed = notify.armed
  BY <1>1, AppParts DEF Notifiers
<1>5. AppTypeOK'
  BY <1>1, <1>2, <1>3, <1>4, AppParts
     DEF AppTypeOK, Apps, Notifiers, Streams, StreamEvents, PageStates, Results, AppCounts
<1>6. Coming' = Coming
  BY <1>1 DEF Coming
<1>7. CycleOK(fe'.m, req') /\ NotifierOK'
  BY <1>1, <1>4, <1>6, AppParts DEF NotifierOK
<1>8. PageFollows'
  <2> SUFFICES ASSUME PageHears' PROVE PageRenews' /\ (fe.m.events # <<>> => WillSend(fe.m))
    BY <1>1 DEF PageFollows
  <2>1. PageHears /\ notify.at # "sent"
    BY <1>1 DEF PageHears
  <2>2. notify.at = "select"
    BY <2>1, AppParts DEF Notifiers
  <2>3. Telling'
    BY <1>4, <2>2 DEF Telling
  <2> QED BY <2>1, <2>3, AppParts DEF PageRenews, PageFollows
<1>9. PageWay' = PageWay
  BY <1>1 DEF PageWay, PageOnWay
<1>10. PageEventsKept' /\ InLine(appRan, PageWay, fe.m.events, appCount.inputs)'
  BY <1>1, <1>2, <1>9, AppEventsStay
<1>11. OneModal'
  BY <1>1, <1>3, <1>6, ModalsStay
<1>12. ShownNotNewer'
  <2>1. fe.serverId = app.id => fe.root \in Nat
    BY <1>3, AppParts, PageRequestAssumption DEF ShownNotNewer, PageStates
  <2>2. req # Absent => req.version \in Nat
    BY AppParts DEF PageRequests
  <2>3. ShownNotNewer
    BY AppParts
  <2> QED BY <1>1, <1>3, <2>1, <2>2, <2>3 DEF ShownNotNewer
<1> QED BY <1>5, <1>7, <1>8, <1>10, <1>11, <1>12 DEF AppInv

\* The app runs the events of a request and renders itself.
LEMMA AppRenderInv ==
  ASSUME AppInv, NEW b \in BOOLEAN, AppRender(b)
  PROVE  AppInv'
<1>1. PICK v : v = app.version + Len(req.events) + (IF app.effect THEN 1 ELSE 0)
  OBVIOUS
<1>2. PICK o : o = IF req.resync THEN {} ELSE app.modals
  OBVIOUS
<1>3. /\ req # Absent /\ ~req.answered /\ req \in PageRequests
      /\ appCount' = [appCount EXCEPT !.effects = IF b THEN appCount.effects + 1 ELSE appCount.effects]
      /\ app' = [app EXCEPT !.version = v, !.effect = b, !.modals = o]
      /\ req' = [req EXCEPT !.answered = TRUE, !.id = app.id, !.version = v, !.hasWork = b]
      /\ appRan' = appRan \o req.events
      /\ UNCHANGED <<notify, sse, fe, results, displayed, told, appOdd>>
  BY <1>1, <1>2, AppParts DEF AppRender
<1>4. /\ app.version \in Nat /\ app.id \in Nat /\ Len(req.events) \in Nat /\ v \in Nat
      /\ app.version <= v /\ o \subseteq app.modals /\ app.modals \subseteq Modals
  BY <1>1, <1>2, <1>3, AppParts DEF Apps, PageRequests
<1>5. /\ app' \in Apps /\ app'.version = v /\ app'.id = app.id /\ app'.effect = b /\ app'.modals = o
  BY <1>3, <1>4, AppParts DEF Apps
<1>6. /\ req' \in PageRequests /\ req'.answered /\ req'.id = app.id /\ req'.version = v /\ req'.hasWork = b
  BY <1>3, <1>4 DEF PageRequests
<1>7. req' # Absent
  BY <1>6, PageRequestAssumption
<1>8. appCount' \in AppCounts /\ appCount'.inputs = appCount.inputs
  <2>1. PICK n : n = IF b THEN appCount.effects + 1 ELSE appCount.effects
    OBVIOUS
  <2>2. n \in Nat /\ appCount \in AppCounts /\ appCount' = [appCount EXCEPT !.effects = n]
    BY <1>3, <2>1, AppParts DEF AppCounts
  <2> QED BY ONLY <2>2 DEF AppCounts
<1>9. PageWay = req.events /\ PageWay' = <<>>
  BY <1>3, <1>6 DEF PageWay, PageOnWay
<1>10. /\ InLine(appRan', <<>>, fe.m.events, appCount.inputs)
       /\ ToSet(appRan') = ToSet(appRan) \cup ToSet(req.events)
       /\ appRan' \in Seq(Nat)
  <2>1. PICK w : w = req.events
    OBVIOUS
  <2>2. /\ w \in Seq(Nat) /\ InLine(appRan, w, fe.m.events, appCount.inputs) /\ appRan' = appRan \o w
        /\ appRan \in Seq(Nat) /\ fe.m.events \in Seq(Nat)
    BY <1>3, <1>9, <2>1, AppParts
  <2>3. InLine(appRan', <<>>, fe.m.events, appCount.inputs) /\ ToSet(appRan') = ToSet(appRan) \cup ToSet(w)
    BY <2>2, RunInLine
  <2>4. appRan' \in Seq(Nat)
    BY <2>2, ConcatProperties
  <2> QED BY <2>1, <2>3, <2>4
<1>11. AppTypeOK'
  BY <1>3, <1>5, <1>6, <1>8, <1>10, AppParts
     DEF AppTypeOK, Apps, Notifiers, Streams, StreamEvents, PageStates, Results, AppCounts
<1>12. Coming' = Coming
  BY <1>3 DEF Coming
<1>13. CycleOK(fe'.m, req') /\ NotifierOK'
  BY <1>3, <1>7, <1>12, AppParts DEF NotifierOK, CycleOK
<1>14. PageFollows'
  <2> SUFFICES ASSUME PageHears' PROVE fe.m.events # <<>> => WillSend(fe.m)
    BY <1>3, <1>5, <1>6, <1>7 DEF PageFollows
  <2>1. PageHears
    BY <1>3 DEF PageHears
  <2> QED BY <2>1, AppParts DEF PageFollows
<1>15. InLine(appRan, PageWay, fe.m.events, appCount.inputs)'
  BY <1>3, <1>8, <1>9, <1>10
<1>16. PageEventsKept'
  <2>1. ToSet(<<>>) = {}
    BY RisingEmpty
  <2> QED BY <1>3, <1>8, <1>9, <1>10, <2>1, AppParts DEF PageEventsKept
<1>17. OneModal'
  BY <1>3, <1>4, <1>5, <1>12, ModalsStay
<1>18. ShownNotNewer'
  <2>1. fe.serverId = app.id => fe.root \in Nat
    BY <1>4, AppParts, PageRequestAssumption DEF ShownNotNewer, PageStates
  <2>2. ShownNotNewer
    BY AppParts
  <2> QED BY <1>3, <1>4, <1>5, <1>6, <2>1, <2>2 DEF ShownNotNewer
<1> QED BY <1>11, <1>13, <1>14, <1>15, <1>16, <1>17, <1>18 DEF AppInv

\* A modal is shown; it is alone unless it overlaps.
LEMMA ShowModalInv ==
  ASSUME AppInv, NEW d \in Modals, ShowModal(d)
  PROVE  AppInv'
<1>1. PICK e : e = [type |-> "showmodal", id |-> d]
  OBVIOUS
<1>2. e \in StreamEvents /\ e.type = "showmodal" /\ e.id = d
  BY <1>1 DEF StreamEvents
<1>3. /\ displayed' = displayed \cup {d} /\ app' = [app EXCEPT !.modals = app.modals \cup {d}]
      /\ sse' = Stream(e) /\ appOdd \subseteq appOdd'
      /\ UNCHANGED <<notify, fe, req, results, appCount, appRan, told>>
  BY <1>1 DEF ShowModal
<1>4. /\ app' \in Apps /\ app'.version = app.version /\ app'.id = app.id /\ app'.effect = app.effect
      /\ app'.modals = app.modals \cup {d}
  BY <1>3, AppParts DEF Apps
<1>5. /\ sse' \in Streams /\ Coming' \subseteq Coming \cup {d} /\ (Nudged => Nudged')
      /\ sse.at = "open" => d \in Coming'
      /\ sse'.at # "open" => sse'.q = <<>>
  <2>1. CASE sse.at = "open"
    <3>1. PICK s : s = Append(sse.q, e)
      OBVIOUS
    <3>2. /\ s \in Seq(StreamEvents) /\ ComingIn(s) \subseteq ComingIn(sse.q) \cup {d}
          /\ d \in ComingIn(s) /\ (NudgedIn(sse.q) => NudgedIn(s))
      BY <1>2, <3>1, AppParts, StreamAppended
    <3>3. sse' = [sse EXCEPT !.q = s]
      BY <1>3, <2>1, <3>1 DEF Stream
    <3>4. sse' \in Streams /\ sse'.q = s /\ sse'.at = "open"
      BY <2>1, <3>2, <3>3, AppParts DEF Streams
    <3> QED BY <3>2, <3>4 DEF Coming, Nudged, ComingIn, NudgedIn
  <2>2. CASE sse.at # "open"
    <3>1. sse' = sse
      BY <1>3, <2>2 DEF Stream
    <3>2. Coming' = Coming /\ Nudged' = Nudged
      BY <3>1 DEF Coming, Nudged
    <3> QED BY <2>2, <3>1, <3>2, AppParts DEF NotifierOK
  <2> QED BY <2>1, <2>2
<1>6. displayed' \subseteq Modals
  BY <1>3, AppParts
<1>7. AppTypeOK'
  BY <1>3, <1>4, <1>5, <1>6, AppParts
     DEF AppTypeOK, Apps, Notifiers, Streams, StreamEvents, PageStates, Results, AppCounts
<1>8. CycleOK(fe'.m, req') /\ NotifierOK'
  BY <1>3, <1>5, AppParts DEF NotifierOK
<1>9. PageFollows'
  <2>1. PageHears' => PageHears
    BY <1>3 DEF PageHears
  <2>2. PageRenews => PageRenews'
    BY <1>3, <1>5 DEF PageRenews, PageOnWay, Telling
  <2> QED BY <1>3, <1>4, <2>1, <2>2, AppParts DEF PageFollows
<1>10. PageWay' = PageWay
  BY <1>3 DEF PageWay, PageOnWay
<1>11. PageEventsKept' /\ InLine(appRan, PageWay, fe.m.events, appCount.inputs)'
  BY <1>3, <1>10, AppEventsStay
<1>12. OneModal'
  <2> SUFFICES ASSUME ModalsHeard'
               PROVE  /\ \A c, f \in Modals : Around(c)' /\ Around(f)' => c = f
                      /\ \A r \in results' : r.back => r.id \notin app'.modals
                      /\ \A c \in app'.modals : fe'.modal = c \/ c \in Coming'
    BY DEF OneModal
  <2>1. app.modals = {} /\ fe.modal = Absent /\ results = {} /\ Coming = {}
    BY DEF ShowModal, ModalsHeard
  <2>2. sse.at = "open"
    BY DEF ShowModal, ModalsHeard, Unheard
  <2>3. app'.modals = {d} /\ Coming' = {d} /\ results' = {} /\ fe'.modal = Absent
    BY <1>3, <1>4, <1>5, <2>1, <2>2
  <2>4. \A c \in Modals : Around(c)' => c = d
    BY <2>3, PageRequestAssumption DEF Around
  <2> QED BY <2>3, <2>4
<1>13. ShownNotNewer'
  BY <1>3, <1>4, AppParts DEF ShownNotNewer
<1> QED BY <1>7, <1>8, <1>9, <1>11, <1>12, <1>13 DEF AppInv

\* An input goes to the end of the batch, and an update is queued for it.
LEMMA AppInputInv ==
  ASSUME AppInv, NEW kind \in {"quick", "slow"}, NEW due \in BOOLEAN, AppInput(kind, due)
  PROVE  AppInv'
<1>1. PICK n : n = appCount.inputs
  OBVIOUS
<1>2. PICK m : m = fe.m
  OBVIOUS
<1>3. m \in Cycles /\ CycleOK(m, req) /\ n \in Nat /\ m.events \in Seq(Nat)
  BY <1>1, <1>2, AppParts
<1>4. PICK s : s = Append(m.events, n + 1)
  OBVIOUS
<1>5. s \in Seq(Nat)
  BY <1>3, <1>4, AppendProperties
<1>6. PICK k : k = Batch(m, n + 1)
  OBVIOUS
<1>7. k = [m EXCEPT !.events = s]
  BY <1>4, <1>6 DEF Batch
<1>8. k \in Cycles /\ CycleOK(k, req) /\ k.events = s
  BY <1>3, <1>5, <1>7 DEF Cycles, CycleOK
<1>9. PICK j : j = QueueUpdate(k, kind, due)
  OBVIOUS
<1>10. j \in Cycles /\ CycleOK(j, req) /\ WillSend(j) /\ j.events = s
  BY <1>8, <1>9, QueueQueues
<1>11. /\ fe' = [fe EXCEPT !.m = j] /\ appCount' = [appCount EXCEPT !.inputs = n + 1]
       /\ UNCHANGED <<app, notify, sse, req, results, displayed, appRan, told, appOdd>>
  BY <1>1, <1>2, <1>6, <1>9 DEF AppInput
<1>12. /\ fe' \in PageStates /\ fe'.m = j /\ fe'.root = fe.root /\ fe'.serverId = fe.serverId
       /\ fe'.version = fe.version /\ fe'.modal = fe.modal
  BY <1>10, <1>11, PageCycle
<1>13. appCount' \in AppCounts /\ appCount'.inputs = n + 1
  <2>1. appCount \in AppCounts
    BY AppParts
  <2> QED BY ONLY <1>3, <1>11, <2>1 DEF AppCounts
<1>14. AppTypeOK'
  BY <1>11, <1>12, <1>13, AppParts
     DEF AppTypeOK, Apps, Notifiers, Streams, StreamEvents, PageStates, Results, AppCounts
<1>15. Coming' = Coming
  BY <1>11 DEF Coming
<1>16. CycleOK(fe'.m, req') /\ NotifierOK' /\ OneModal' /\ ShownNotNewer'
  BY <1>10, <1>11, <1>12, <1>15, AppParts, ModalsStay DEF NotifierOK, ShownNotNewer
<1>17. PageFollows'
  BY <1>10, <1>12 DEF PageFollows, PageRenews
<1>18. PageWay' = PageWay
  BY <1>11 DEF PageWay, PageOnWay
<1>19. InLine(appRan, PageWay, s, n + 1) /\ ToSet(s) = ToSet(m.events) \cup {n + 1}
  <2>1. PICK e : e = m.events
    OBVIOUS
  <2>2. /\ InLine(appRan, PageWay, e, n) /\ e \in Seq(Nat) /\ s = Append(e, n + 1)
        /\ appRan \in Seq(Nat) /\ PageWay \in Seq(Nat)
    BY <1>1, <1>2, <1>4, <2>1, AppParts
  <2>3. InLine(appRan, PageWay, s, n + 1) /\ ToSet(s) = ToSet(e) \cup {n + 1}
    BY ONLY <1>3, <2>2, EventInLine
  <2> QED BY <2>1, <2>3
<1>20. InLine(appRan, PageWay, fe.m.events, appCount.inputs)'
  BY <1>10, <1>11, <1>12, <1>13, <1>18, <1>19
<1>21. PageEventsKept'
  <2>1. 1 .. (n + 1) = (1 .. n) \cup {n + 1}
    BY <1>3
  <2> QED BY <1>1, <1>2, <1>10, <1>11, <1>12, <1>13, <1>18, <1>19, <2>1, AppParts DEF PageEventsKept
<1> QED BY <1>14, <1>16, <1>17, <1>20, <1>21 DEF AppInv

\* A timer sends the batch, unless a request is pending.
LEMMA AppTimerInv ==
  ASSUME AppInv, NEW kind \in {"quick", "slow"}, AppTimer(kind)
  PROVE  AppInv'
<1>1. PICK m : m = fe.m
  OBVIOUS
<1>2. m \in Cycles /\ CycleOK(m, req) /\ Armed(m, kind)
  BY <1>1, AppParts DEF AppTimer
<1>3. PICK k : k = Fired(m, kind)
  OBVIOUS
<1>4. /\ k \in Cycles /\ CycleOK(k, req) /\ k.queued = "none"
      /\ k.pending = m.pending /\ k.immediate = m.immediate /\ k.resync = m.resync
      /\ k.events = m.events /\ k.work = m.work
  BY <1>2, <1>3, TimerFires
<1>5. UNCHANGED <<app, notify, sse, results, appCount, displayed, appRan, told>>
  BY DEF AppTimer
<1>6. Coming' = Coming /\ Nudged' = Nudged /\ Telling' = Telling
  BY <1>5 DEF Coming, Nudged, Telling
<1>7. k.pending \in BOOLEAN
  BY <1>4 DEF Cycles
<1>8. CASE k.pending
  <2>1. PICK i \in BOOLEAN : i = (k.immediate \/ kind = "quick")
    OBVIOUS
  <2>2. PICK j : j = [k EXCEPT !.immediate = i]
    OBVIOUS
  <2>3. /\ fe' = [fe EXCEPT !.m = Refused(k, kind)] /\ UNCHANGED req
        /\ appOdd' = IF kind = "slow" THEN appOdd \cup {"unforced"} ELSE appOdd
    BY <1>1, <1>3, <1>8 DEF AppTimer
  <2>4. Refused(k, kind) = j
    BY <2>1, <2>2 DEF Refused
  <2>5. j \in Cycles /\ CycleOK(j, req) /\ j.pending = k.pending /\ j.immediate = i
        /\ j.events = k.events
    BY <1>4, <2>1, <2>2 DEF Cycles, CycleOK
  <2>6. /\ fe' \in PageStates /\ fe'.m = j /\ fe'.root = fe.root /\ fe'.serverId = fe.serverId
        /\ fe'.version = fe.version /\ fe'.modal = fe.modal
    BY <2>3, <2>4, <2>5, PageCycle
  <2>7. AppTypeOK'
    BY <1>5, <2>3, <2>6, AppParts
       DEF AppTypeOK, Apps, Notifiers, Streams, StreamEvents, PageStates, Results, AppCounts
  <2>8. NotifierOK' /\ OneModal' /\ appOdd \subseteq appOdd'
    BY <1>5, <1>6, <2>3, <2>6, AppParts, ModalsStay DEF NotifierOK
  <2>9. PageHears' => WillSend(j)
    BY <1>8, <2>1, <2>3, <2>5 DEF PageHears, WillSend
  <2> QED BY <1>1, <1>4, <1>5, <2>3, <2>5, <2>6, <2>7, <2>8, <2>9, PageAloneInv
<1>9. CASE ~k.pending
  <2>1. PICK j : j = RequestSent(k)
    OBVIOUS
  <2>2. /\ fe' = [fe EXCEPT !.m = j] /\ appOdd' = appOdd
        /\ req' = [resync |-> k.resync, events |-> k.events, answered |-> FALSE, id |-> 0,
                   version |-> 0, hasWork |-> FALSE]
    BY <1>1, <1>3, <1>9, <2>1 DEF AppTimer
  <2>3. j = [k EXCEPT !.pending = TRUE, !.immediate = FALSE, !.resync = FALSE, !.events = <<>>]
    BY <2>1 DEF RequestSent
  <2>4. req = Absent
    BY <1>4, <1>9 DEF CycleOK
  <2>5. j \in Cycles /\ j.queued = k.queued /\ j.pending = TRUE /\ j.events = <<>>
    <3>1. PICK e : e = <<>>
      OBVIOUS
    <3>2. j = [k EXCEPT !.pending = TRUE, !.immediate = FALSE, !.resync = FALSE, !.events = e]
      BY <2>3, <3>1
    <3>3. e \in Seq(Nat)
      BY <3>1
    <3>4. j \in Cycles /\ j.queued = k.queued /\ j.pending = TRUE /\ j.events = e
      BY ONLY <1>4, <3>2, <3>3 DEF Cycles
    <3> QED BY <3>1, <3>4
  <2>6. req' \in PageRequests /\ ~req'.answered /\ req'.events = k.events
    <3>1. k.resync \in BOOLEAN /\ k.events \in Seq(Nat)
      BY <1>4 DEF Cycles
    <3> QED BY <2>2, <3>1 DEF PageRequests
  <2>7. req' # Absent
    BY <2>6, PageRequestAssumption
  <2>8. /\ fe' \in PageStates /\ fe'.m = j /\ fe'.root = fe.root /\ fe'.serverId = fe.serverId
        /\ fe'.version = fe.version /\ fe'.modal = fe.modal
    BY <2>2, <2>5, PageCycle
  <2>9. AppTypeOK'
    BY <1>5, <2>6, <2>8, AppParts
       DEF AppTypeOK, Apps, Notifiers, Streams, StreamEvents, PageStates, Results, AppCounts
  <2>10. CycleOK(fe'.m, req')
    BY <1>4, <2>5, <2>7, <2>8 DEF CycleOK
  <2>11. NotifierOK' /\ OneModal'
    BY <1>5, <1>6, <2>2, <2>8, AppParts, ModalsStay DEF NotifierOK
  <2>12. PageOnWay'
    BY <2>6, <2>7 DEF PageOnWay
  <2>13. PageFollows'
    BY <2>5, <2>8, <2>12 DEF PageFollows, PageRenews
  <2>14. PageWay = <<>> /\ PageWay' = fe.m.events /\ fe'.m.events = <<>>
    BY <1>1, <1>4, <2>4, <2>5, <2>6, <2>8, <2>12 DEF PageWay, PageOnWay
  <2>15. InLine(appRan, PageWay, fe.m.events, appCount.inputs)'
    BY <1>5, <2>14, AppParts, BatchInLine
  <2>16. PageEventsKept'
    BY <1>5, <2>2, <2>14, AppParts, RisingEmpty DEF PageEventsKept
  <2>17. ShownNotNewer'
    BY <1>5, <2>6, <2>8, AppParts DEF ShownNotNewer
  <2> QED BY <2>9, <2>10, <2>11, <2>13, <2>15, <2>16, <2>17 DEF AppInv
<1> QED BY <1>8, <1>9

\* The page shows the answer, and sends the next request when one is asked for; the answer of
\* an app that has been started again resets the page.
LEMMA AppAnswerInv ==
  ASSUME AppInv, NEW due \in BOOLEAN, AppAnswer(due)
  PROVE  AppInv'
<1>1. /\ req \in PageRequests /\ req # Absent /\ req.answered
      /\ req' = Absent /\ UNCHANGED <<app, notify, results, appCount, displayed, appRan, told>>
      /\ fe' = [HandleBackendUpdate(fe, req) EXCEPT !.m = SettleRequest(HandleBackendUpdate(fe, req).m, due)]
      /\ sse' = IF Again(fe, req) \/ sse.at = "closed" THEN DownSse ELSE sse
      /\ appOdd' = appOdd \cup (IF Again(fe, req) THEN {"restart"} ELSE {})
  BY AppParts DEF AppAnswer
<1>2. PICK m : m = IF Again(fe, req) THEN ResetCycle(fe.m) ELSE fe.m
  OBVIOUS
<1>3. /\ m \in Cycles /\ CycleOK(m, req) /\ m.events \in {<<>>, fe.m.events}
      /\ ~Again(fe, req) => m = fe.m
  <2>1. CASE Again(fe, req)
    <3>1. m = [Fresh EXCEPT !.quick = fe.m.quick, !.slow = fe.m.slow, !.pending = fe.m.pending]
      BY <1>2, <2>1 DEF ResetCycle
    <3>2. PICK e : e = <<>>
      OBVIOUS
    <3>3. PICK f : f = Fresh
      OBVIOUS
    <3>4. f = [queued |-> "none", quick |-> 0, slow |-> 0, pending |-> FALSE, immediate |-> FALSE,
               resync |-> TRUE, events |-> e, work |-> FALSE] /\ e \in Seq(Nat)
      BY <3>2, <3>3 DEF Fresh
    <3>5. f \in Cycles /\ f.queued = "none" /\ f.events = e
      BY ONLY <3>4 DEF Cycles
    <3>6. m = [f EXCEPT !.quick = fe.m.quick, !.slow = fe.m.slow, !.pending = fe.m.pending]
      BY <3>1, <3>3
    <3>7. fe.m.quick \in Nat /\ fe.m.slow \in Nat /\ fe.m.pending \in BOOLEAN
      BY AppParts DEF Cycles
    <3>8. m \in Cycles /\ m.queued = "none" /\ m.events = e /\ m.pending = fe.m.pending
      BY ONLY <3>5, <3>6, <3>7 DEF Cycles
    <3> QED BY <2>1, <3>2, <3>8, AppParts DEF CycleOK
  <2>2. CASE ~Again(fe, req)
    BY <1>2, <2>2, AppParts
  <2> QED BY <2>1, <2>2
<1>4. PICK w \in BOOLEAN : w = (m.work \/ req.hasWork)
  OBVIOUS
<1>5. PICK k : k = [m EXCEPT !.work = w]
  OBVIOUS
<1>6. k = NoteWork(m, req.hasWork)
  BY <1>4, <1>5 DEF NoteWork
<1>7. /\ k \in Cycles /\ CycleOK(k, req) /\ k.queued = m.queued /\ k.events = m.events
      /\ k.immediate = m.immediate /\ k.pending = m.pending /\ k.work = w
  BY <1>3, <1>5 DEF Cycles, CycleOK
<1>8. PICK j : j = SettleRequest(k, due)
  OBVIOUS
<1>9. /\ j \in Cycles /\ CycleOK(j, Absent) /\ j.events = k.events /\ j.work = k.work
      /\ k.queued # "none" \/ k.immediate => WillSend(j)
  BY <1>7, <1>8, RequestSettles
<1>10. PICK p : p = HandleBackendUpdate(fe, req)
  OBVIOUS
<1>11. p = [fe EXCEPT !.serverId = req.id, !.root = req.version, !.version = TRUE, !.m = k]
  BY <1>2, <1>6, <1>10 DEF HandleBackendUpdate
<1>12. req.id \in Nat /\ req.version \in Nat
  BY <1>1 DEF PageRequests
<1>13. /\ p \in PageStates /\ p.m = k /\ p.serverId = req.id /\ p.root = req.version /\ p.version = TRUE
       /\ p.modal = fe.modal
  BY <1>7, <1>11, <1>12, AppParts DEF PageStates
<1>14. fe' = [p EXCEPT !.m = j]
  BY <1>1, <1>8, <1>10, <1>13
<1>15. /\ fe' \in PageStates /\ fe'.m = j /\ fe'.serverId = req.id /\ fe'.root = req.version
       /\ fe'.version = TRUE /\ fe'.modal = fe.modal
  BY <1>9, <1>13, <1>14 DEF PageStates
<1>16. sse' \in Streams /\ (sse'.at # "open" => sse'.q = <<>>) /\ (sse'.q = sse.q \/ Again(fe, req))
       /\ (sse'.q = sse.q \/ sse'.q = <<>>)
  <2>1. CASE sse' = DownSse
    <3>1. DownSse \in Streams /\ DownSse.q = <<>>
      BY DEF DownSse, Streams
    <3> QED BY <1>1, <2>1, <3>1, AppParts DEF NotifierOK
  <2>2. CASE sse' = sse
    BY <2>2, AppParts DEF NotifierOK
  <2> QED BY <1>1, <2>1, <2>2
<1>17. AppTypeOK'
  BY <1>1, <1>15, <1>16, AppParts
     DEF AppTypeOK, Apps, Notifiers, Streams, StreamEvents, PageStates, Results, AppCounts
<1>18. CycleOK(fe'.m, req')
  BY <1>1, <1>9, <1>15
<1>19. Coming' \subseteq Coming
  BY <1>16 DEF Coming
<1>20. NotifierOK'
  BY <1>1, <1>16, <1>19, AppParts DEF NotifierOK
<1>21. ShownNotNewer'
  BY <1>1, <1>12, <1>15, AppParts, PageRequestAssumption DEF ShownNotNewer
<1>22. PageWay = <<>> /\ PageWay' = <<>>
  BY <1>1 DEF PageWay, PageOnWay
<1>23. InLine(appRan, PageWay, fe.m.events, appCount.inputs)'
  BY <1>1, <1>3, <1>7, <1>9, <1>15, <1>22, AppParts, LossInLine
<1>24. CASE Again(fe, req)
  <2>1. "restart" \in appOdd'
    BY <1>1, <1>24
  <2>2. PageFollows' /\ PageEventsKept' /\ OneModal'
    BY <2>1 DEF PageFollows, PageHears, PageEventsKept, OneModal, ModalsHeard
  <2> QED BY <1>17, <1>18, <1>20, <1>21, <1>23, <2>2 DEF AppInv
<1>25. CASE ~Again(fe, req)
  <2>1. /\ appOdd' = appOdd /\ sse'.q = sse.q /\ m = fe.m
    BY <1>1, <1>3, <1>16, <1>25
  <2>2. Coming' = Coming /\ Nudged' = Nudged /\ Telling' = Telling
    BY <1>1, <2>1 DEF Coming, Nudged, Telling
  <2>3. OneModal'
    BY <1>1, <1>15, <2>1, <2>2, ModalsStay
  <2>4. fe'.m.events = fe.m.events
    BY <1>7, <1>9, <1>15, <2>1
  <2>5. PageEventsKept'
    BY <1>1, <1>22, <2>1, <2>4, AppEventsStay
  <2>6. PageFollows'
    <3> SUFFICES ASSUME PageHears'
                 PROVE  /\ PageRenews' \/ (fe'.root = app.version /\ fe'.serverId = app.id)
                        /\ fe'.m.events # <<>> => WillSend(fe'.m)
                        /\ app.effect => PageRenews' \/ (fe'.m.work /\ fe'.version)
      BY <1>1 DEF PageFollows
    <3>1. PageHears
      BY <2>1 DEF PageHears
    <3>2. WillSend(fe.m) => WillSend(fe'.m)
      BY <1>7, <1>9, <1>15, <2>1 DEF WillSend
    <3>3. PageRenews => PageRenews'
      BY <1>1, <2>2, <3>2 DEF PageRenews, PageOnWay
    <3>4. fe'.m.work = w /\ fe'.version
      BY <1>7, <1>9, <1>15
    <3> QED BY <1>1, <1>4, <1>15, <2>1, <2>4, <3>1, <3>2, <3>3, <3>4, AppParts DEF PageFollows
  <2> QED BY <1>17, <1>18, <1>20, <1>21, <1>23, <2>3, <2>5, <2>6 DEF AppInv
<1> QED BY <1>24, <1>25

\* A request that fails, or whose app goes, is not sent again.
LEMMA RequestLost ==
  ASSUME AppInv, NEW p, p = [fe EXCEPT !.m = RequestEnded(fe.m)]
  PROVE  /\ p \in PageStates /\ CycleOK(p.m, Absent) /\ p.m.events = fe.m.events
         /\ p.root = fe.root /\ p.serverId = fe.serverId
<1>1. PICK j : j = RequestEnded(fe.m)
  OBVIOUS
<1>2. j \in Cycles /\ CycleOK(j, Absent) /\ j.events = fe.m.events
  BY <1>1, AppParts DEF RequestEnded, Cycles, CycleOK
<1>3. p = [fe EXCEPT !.m = j]
  BY <1>1
<1> QED BY <1>2, <1>3, AppParts DEF PageStates

\* After a failed request, a restart or a reload nothing is owed but the types, the order of
\* the events and that what is shown is not newer than the app.
LEMMA FaultInv ==
  ASSUME AppInv, appCount' \in AppCounts, appCount'.inputs = appCount.inputs,
         app' \in Apps, notify' \in Notifiers, sse' \in Streams, fe' \in PageStates, req' = Absent,
         results' \subseteq Results, UNCHANGED <<displayed, appRan>>, told' \in Nat,
         CycleOK(fe'.m, Absent), NotifierOK', ShownNotNewer',
         fe'.m.events = fe.m.events \/ fe'.m.events = <<>>,
         "failed" \in appOdd' \/ ("reload" \in appOdd' /\ (PageHears' => WillSend(fe'.m)))
  PROVE  AppInv'
<1>1. AppTypeOK'
  BY AppParts DEF AppTypeOK, Apps, Notifiers, Streams, StreamEvents, PageStates, Results, AppCounts
<1>2. PageFollows' /\ PageEventsKept' /\ OneModal'
  BY DEF PageFollows, PageRenews, PageHears, PageEventsKept, OneModal, ModalsHeard
<1>3. PageWay' = <<>>
  BY DEF PageWay, PageOnWay
<1>4. InLine(appRan, PageWay, fe.m.events, appCount.inputs)'
  BY <1>3, AppParts, LossInLine
<1> QED BY <1>1, <1>2, <1>4 DEF AppInv

LEMMA AppFailsInv == AppInv /\ AppRequestFails => AppInv'
<1> SUFFICES ASSUME AppInv, AppRequestFails PROVE AppInv'
  OBVIOUS
<1>1. /\ AppFault /\ req' = Absent /\ fe' = [fe EXCEPT !.m = RequestEnded(fe.m)]
      /\ appOdd' = appOdd \cup {"failed"}
      /\ UNCHANGED <<app, notify, sse, results, displayed, appRan, told>>
  BY DEF AppRequestFails
<1>2. /\ fe' \in PageStates /\ CycleOK(fe'.m, Absent) /\ fe'.m.events = fe.m.events
      /\ fe'.root = fe.root /\ fe'.serverId = fe.serverId
  BY <1>1, RequestLost
<1>3. NotifierOK'
  BY <1>1, AppParts DEF NotifierOK, Coming
<1>4. ShownNotNewer'
  BY <1>1, <1>2, AppParts DEF ShownNotNewer
<1> QED BY <1>1, <1>2, <1>3, <1>4, AppParts, CountFault, FaultInv

LEMMA RestartInv == AppInv /\ Restart => AppInv'
<1> SUFFICES ASSUME AppInv, Restart PROVE AppInv'
  OBVIOUS
<1>1. /\ AppFault /\ app' = NewApp(app.id + 1) /\ notify' = QuietNotify /\ told' = 0
      /\ sse' = (IF sse.at = "open" THEN DownSse ELSE sse)
      /\ results' = {[r EXCEPT !.back = TRUE] : r \in results} /\ req' = Absent
      /\ fe' = (IF req = Absent THEN fe ELSE [fe EXCEPT !.m = RequestEnded(fe.m)])
      /\ appOdd' = appOdd \cup {"failed"} /\ UNCHANGED <<displayed, appRan>>
  BY DEF Restart
<1>2. app.id \in Nat
  BY AppParts DEF Apps
<1>3. app' \in Apps /\ app'.id = app.id + 1
  BY <1>1, <1>2 DEF NewApp, Apps
<1>4. notify' \in Notifiers /\ ~notify'.armed
  BY <1>1 DEF QuietNotify, Notifiers
<1>5. sse' \in Streams /\ sse'.q = <<>>
  <2>1. DownSse \in Streams /\ DownSse.q = <<>>
    BY DEF DownSse, Streams
  <2> QED BY <1>1, <2>1, AppParts DEF NotifierOK
<1>6. NotifierOK'
  BY <1>4, <1>5 DEF NotifierOK, Coming
<1>7. /\ fe' \in PageStates /\ CycleOK(fe'.m, Absent) /\ fe'.m.events = fe.m.events
      /\ fe'.root = fe.root /\ fe'.serverId = fe.serverId
  <2>1. CASE req = Absent
    BY <1>1, <2>1, AppParts
  <2>2. CASE req # Absent
    BY <1>1, <2>2, RequestLost
  <2> QED BY <2>1, <2>2
<1>8. results' \subseteq Results
  <2>1. \A r \in results : [r EXCEPT !.back = TRUE] \in Results
    BY AppParts DEF Results
  <2> QED BY <1>1, <2>1
<1>9. ShownNotNewer'
  <2>1. fe.serverId # Absent => fe.serverId \in Nat
    BY AppParts DEF PageStates
  <2>2. fe.serverId # app.id + 1
    BY <1>2, <2>1, AppParts, PageRequestAssumption DEF ShownNotNewer
  <2> QED BY <1>1, <1>2, <1>3, <1>7, <2>1, <2>2, AppParts DEF ShownNotNewer
<1>10. told' \in Nat /\ "failed" \in appOdd'
  BY <1>1
<1> QED BY <1>1, <1>3, <1>4, <1>5, <1>6, <1>7, <1>8, <1>9, <1>10, CountFault, FaultInv

LEMMA ReloadInv == AppInv /\ Reload => AppInv'
<1> SUFFICES ASSUME AppInv, Reload PROVE AppInv'
  OBVIOUS
<1>1. /\ AppFault /\ fe' = NewAppPage /\ sse' = DownSse /\ req' = Absent /\ results' = {}
      /\ appOdd' = appOdd \cup {"reload"} /\ UNCHANGED <<app, notify, displayed, appRan, told>>
  BY DEF Reload
<1>2. /\ fe' \in PageStates /\ CycleOK(fe'.m, Absent) /\ fe'.m.events = <<>> /\ WillSend(fe'.m)
      /\ fe'.root = Absent /\ fe'.serverId = Absent
  BY <1>1, FreshPage
<1>3. sse' \in Streams /\ sse'.q = <<>>
  BY <1>1 DEF DownSse, Streams
<1>4. NotifierOK'
  BY <1>1, <1>3, AppParts DEF NotifierOK, Coming
<1>5. ShownNotNewer'
  BY <1>1, <1>2, AppParts, PageRequestAssumption DEF ShownNotNewer, Apps
<1>6. results' \subseteq Results /\ "reload" \in appOdd' /\ app' \in Apps /\ notify' \in Notifiers
      /\ told' \in Nat
  BY <1>1, AppParts
<1> QED BY <1>1, <1>2, <1>3, <1>4, <1>5, <1>6, CountFault, FaultInv

\* Every step keeps the invariant.
LEMMA AppStepInv == AppInv /\ [AppNext]_appVars => AppInv'
<1> SUFFICES ASSUME AppInv, [AppNext]_appVars PROVE AppInv'
  OBVIOUS
<1>1. CASE AppStep
  BY <1>1, WakeInv, FireInv, CloseBatchInv, AppRenderInv DEF AppStep
<1>2. CASE PageStep
  BY <1>2, AppAnswerInv, AppRenderedInv, HearInv DEF PageStep
<1>3. CASE Timers
  BY <1>3, AppTimerInv DEF Timers
<1>4. CASE ModalStep
  BY <1>4, CloseModalInv, ModalResultSentInv DEF ModalStep
<1>5. CASE AppChange \/ SendModalResult \/ Connect
  BY <1>5, AppChangeInv, SendModalResultInv, ConnectInv
<1>6. ASSUME NEW d \in Modals, ShowModal(d) PROVE AppInv'
  BY <1>6, ShowModalInv
<1>7. ASSUME NEW kind \in {"quick", "slow"}, NEW due \in BOOLEAN, AppInput(kind, due) PROVE AppInv'
  BY <1>7, AppInputInv
<1>8. CASE AppRequestFails \/ Break \/ StreamFull \/ Restart \/ Reload
  BY <1>8, AppFailsInv, BreakInv, StreamFullInv, RestartInv, ReloadInv
<1>9. CASE UNCHANGED appVars
  <2>1. UNCHANGED <<app, notify, sse, fe, req, results, appCount, displayed, appRan, told, appOdd>>
    BY <1>9 DEF appVars
  <2>2. Coming' = Coming /\ Nudged' = Nudged /\ Telling' = Telling
    BY <2>1 DEF Coming, Nudged, Telling
  <2>3. AppTypeOK' /\ CycleOK(fe'.m, req) /\ NotifierOK' /\ OneModal'
    BY <2>1, <2>2, AppParts, ModalsStay DEF AppInv, AppTypeOK, NotifierOK
  <2> QED BY <2>1, <2>2, <2>3, PageAloneInv
<1> QED BY <1>1, <1>2, <1>3, <1>4, <1>5, <1>6, <1>7, <1>8, <1>9 DEF AppNext

\* What follows from the invariant.
LEMMA AppInvAgrees == AppInv => AppAgrees
<1> SUFFICES ASSUME AppInv PROVE AppAgrees
  OBVIOUS
<1>1. AppUpToDate
  <2> SUFFICES ASSUME QuietApp, QuietPage, PageHears
               PROVE  fe.root = app.version /\ fe.serverId = app.id /\ fe.m.events = <<>> /\ ~app.effect
    BY DEF AppUpToDate, PageHears
  <2>1. ~WillSend(fe.m)
    BY AppParts DEF QuietPage, CycleIdle, CycleOK, WillSend, Cycles
  <2>2. ~PageRenews
    BY <2>1 DEF PageRenews, PageOnWay, Telling, Nudged, QuietApp, QuietNotify
  <2> QED BY <2>1, <2>2, AppParts DEF PageFollows, QuietApp, QuietPage
<1>2. RunInOrder
  BY AppParts DEF RunInOrder, InLine
<1>3. NoEventLost
  <2>1. ToSet(PageWay) \subseteq CarriedBy(req)
    BY RisingEmpty DEF PageWay, PageOnWay, CarriedBy
  <2> QED BY <2>1, AppParts DEF NoEventLost, PageEventsKept
<1>4. ModalFollowed
  BY AppParts DEF OneModal, ModalsHeard, ModalFollowed
<1> QED BY <1>1, <1>2, <1>3, <1>4 DEF AppAgrees

\* What the page shows of one app only gets newer.
LEMMA ShownGrows ==
  AppInv /\ [AppNext]_appVars =>
    (fe.root # Absent /\ fe'.root # Absent /\ fe.serverId = fe'.serverId => fe'.root >= fe.root)
<1> SUFFICES ASSUME AppInv, [AppNext]_appVars, fe.root # Absent, fe'.root # Absent,
                    fe.serverId = fe'.serverId
             PROVE  fe'.root >= fe.root
  OBVIOUS
<1>1. fe.root \in Nat
  BY AppParts DEF PageStates
<1>2. CASE fe'.root = fe.root
  BY <1>1, <1>2
<1>3. ASSUME NEW due \in BOOLEAN, AppAnswer(due) PROVE fe'.root >= fe.root
  <2>1. PICK h : h = HandleBackendUpdate(fe, req)
    OBVIOUS
  <2>2. /\ req \in PageRequests /\ req # Absent /\ req.answered
        /\ fe' = [h EXCEPT !.m = SettleRequest(h.m, due)]
    BY <1>3, <2>1, AppParts DEF AppAnswer
  <2>3. PICK k : h = [fe EXCEPT !.serverId = req.id, !.root = req.version, !.version = TRUE, !.m = k]
    BY <2>1 DEF HandleBackendUpdate
  <2>4. fe'.serverId = req.id /\ fe'.root = req.version
    BY <2>2, <2>3, AppParts DEF PageStates
  <2>5. req.version \in Nat
    BY <2>2 DEF PageRequests
  <2> QED BY <1>1, <2>2, <2>4, <2>5, AppParts DEF ShownNotNewer
<1>4. CASE Reload
  BY <1>4, FreshPage DEF Reload
<1>5. CASE ~Reload /\ ~\E due \in BOOLEAN : AppAnswer(due)
  <2>1. fe'.root = fe.root
    <3>1. CASE UNCHANGED appVars
      BY <3>1 DEF appVars
    <3>2. CASE AppStep \/ AppChange \/ SendModalResult \/ Connect \/ Break \/ StreamFull
               \/ \E d \in Modals : ShowModal(d)
      BY <3>2 DEF AppStep, Wake, Fire, CloseBatch, AppRender, AppChange, SendModalResult, Connect, Break,
                  StreamFull, ShowModal
    <3>3. CASE Timers
      BY <3>3, AppParts DEF Timers, AppTimer, PageStates
    <3>4. CASE PageStep
      BY <1>5, <3>4, AppParts DEF PageStep, AppRendered, Hear, PageStates
    <3>5. CASE ModalStep
      BY <3>5, AppParts DEF ModalStep, CloseModal, ModalResultSent, PageStates
    <3>6. ASSUME NEW kind \in {"quick", "slow"}, NEW due \in BOOLEAN, AppInput(kind, due) PROVE fe'.root = fe.root
      BY <3>6, AppParts DEF AppInput, PageStates
    <3>7. CASE AppRequestFails \/ Restart
      BY <3>7, AppParts DEF AppRequestFails, Restart, PageStates
    <3> QED BY <1>5, <3>1, <3>2, <3>3, <3>4, <3>5, <3>6, <3>7 DEF AppNext
  <2> QED BY <1>2, <2>1
<1> QED BY <1>3, <1>4, <1>5

\* The state of a Tsunami app, of its notifier, its stream and its page has its type.
THEOREM AppTyped == AppSpec => []AppTypeOK
<1>1. AppInv => AppTypeOK
  BY DEF AppInv
<1> QED BY <1>1, AppInitInv, AppStepInv, PTL DEF AppSpec

\* A page and its Tsunami app agree (AppAgrees): at rest the page shows the app's state, the app
\* runs every event once and in order, and an open modal is on its way to the page or on it.
THEOREM AppAgreesAlways == AppSpec => []AppAgrees
BY AppInitInv, AppStepInv, AppInvAgrees, PTL DEF AppSpec

\* What the page shows of one app never goes back to an earlier state (NeverBack).
THEOREM AppNeverGoesBack == AppSpec => NeverBack
<1>1. AppInv /\ [AppNext]_appVars =>
        [fe.root # Absent /\ fe'.root # Absent /\ fe.serverId = fe'.serverId => fe'.root >= fe.root]_appVars
  BY ShownGrows
<1> QED BY <1>1, AppInitInv, AppStepInv, PTL DEF AppSpec, NeverBack
=============================================================================
