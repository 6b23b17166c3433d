-------------------------- MODULE WaveObjectStore --------------------------
(***************************************************************************)
(* A page's copies of the backend's objects (frontend/app/store/wos.ts).   *)
(*                                                                         *)
(* The page fetches an object the first time that it is asked for it, and  *)
(* then follows it by updates. These come by two ways that are not ordered *)
(* with each other: as events over the web socket, which the backend       *)
(* publishes when a command is done or later, and in the answers of the    *)
(* page's own calls over HTTP. The versions that the database counts tell  *)
(* which of two updates is newer; the answer of a fetch and a local write  *)
(* are stored whatever their version.                                      *)
(*                                                                         *)
(* A subscription lasts: the page's web socket does not break.  Updates    *)
(* while it is broken are lost to the page, which subscribes again and     *)
(* fetches nothing again.                                                  *)
(***************************************************************************)
EXTENDS Naturals, Sequences, FiniteSets

CONSTANTS Objects,
          None,
          MaxWrites,     \* bound: changes, by the backend and by the page
          MaxStoreCalls,    \* bound: calls over HTTP
          MaxStoreFailures  \* bound: calls that fail

\* None is no entry of the cache.
NoneIsNoEntry ==
  None \notin [value : [version : Nat, content : Nat], loading : BOOLEAN, pending : Nat]
ASSUME StoreAssumption == NoneIsNoEntry

VARIABLES
  db,          \* the database: [version, content] of each object, Null once it is deleted
  publishing,  \* updates that commands are about to publish
  events,      \* events on their way to the page
  storeCalls,  \* calls under way: [id, kind, o, base, val, ans]
  cache,       \* waveObjectValueCache: [value, loading, pending], None where there is none
  sub,         \* the page's subscription: none, sent, made
  writes,      \* number of changes; a content is the number of its change
  storeMade,   \* number of calls; a call's id is its number
  storeFailures,
  storeOdd     \* history: objects of which a fetch was overtaken, a change was not heard,
               \* a local write met another change, or a call failed

storeVars == <<db, publishing, events, storeCalls, cache, sub, writes, storeMade, storeFailures, storeOdd>>

Null == [version |-> 0, content |-> 0]
Updated(o, val) == [type |-> "update", o |-> o, val |-> val]
Deleted(o) == [type |-> "delete", o |-> o, val |-> Null]
ToRead(o) == [type |-> "read", o |-> o, val |-> Null]

Unanswered == [type |-> "none"]
StoreRequest(kind, o, base, val) ==
  [id |-> storeMade + 1, kind |-> kind, o |-> o, base |-> base, val |-> val, ans |-> Unanswered]

StoreInit ==
  /\ db = [o \in Objects |-> [version |-> 1, content |-> 0]]
  /\ publishing = {} /\ events = <<>> /\ storeCalls = {}
  /\ cache = [o \in Objects |-> None]
  /\ sub = "none"
  /\ writes = 0 /\ storeMade = 0 /\ storeFailures = 0
  /\ storeOdd = {}

(***************************************************************************)
(* The store                                                               *)
(***************************************************************************)
\* getWaveObjectValue, createWaveValueObject: an object is fetched once.
Entry(o) == IF cache[o] # None THEN cache[o] ELSE [value |-> Null, loading |-> TRUE, pending |-> storeMade + 1]
getWaveObjectValue(o) ==
  IF cache[o] # None THEN UNCHANGED <<storeCalls, storeMade>>
  ELSE /\ storeMade < MaxStoreCalls
       /\ storeCalls' = storeCalls \union {StoreRequest("fetch", o, 0, Null)}
       /\ storeMade' = storeMade + 1

Loaded(entry, val) == [entry EXCEPT !.value = val, !.loading = FALSE]

\* mutation: the version is not compared
updatedEntryAlways(entry, u) == Loaded(entry, u.val)

updatedEntry(entry, u) ==
  IF u.type = "update" /\ entry.value # Null /\ entry.value.version >= u.val.version
  THEN entry ELSE Loaded(entry, u.val)

\* An update that brings a deleted object back.
Revives(entry, u) == u.type = "update" /\ entry.value = Null /\ ~entry.loading

\* What is under way may be older than a local write that it then overwrites.
UnderWay(o) ==
  \/ \E c \in storeCalls : c.kind # "push" /\ c.o = o
  \/ \E u \in publishing : u.o = o
  \/ \E i \in 1 .. Len(events) : events[i].o = o

\* A local write that is not in the database yet may be overwritten by what is.
Pushing(o) == \E c \in storeCalls : c.kind = "push" /\ c.o = o

\* What a fetch found is older than what is stored.
Overtaken(entry, val) ==
  /\ ~entry.loading
  /\ \/ val.version < entry.value.version
     \/ val.version = entry.value.version /\ val.content # entry.value.content
     \/ entry.value = Null /\ val # Null

(***************************************************************************)
(* The page                                                                *)
(***************************************************************************)
\* initGlobalWaveEventSubs; the backend makes the subscription when the
\* message gets there.
initGlobalWaveEventSubs ==
  /\ sub = "none" /\ sub' = "sent"
  /\ UNCHANGED <<db, publishing, events, storeCalls, cache, writes, storeMade, storeFailures, storeOdd>>

EventSub ==
  /\ sub = "sent" /\ sub' = "made"
  /\ UNCHANGED <<db, publishing, events, storeCalls, cache, writes, storeMade, storeFailures, storeOdd>>

\* getObjectValue, loadAndPinWaveObject, getWaveObjectAtom
Want(o) ==
  /\ sub # "none" /\ cache[o] = None
  /\ getWaveObjectValue(o)
  /\ cache' = [cache EXCEPT ![o] = Entry(o)]
  /\ UNCHANGED <<db, publishing, events, sub, writes, storeFailures, storeOdd>>

\* Of an object that is not stored yet it is Want.
reloadWaveObject(o) ==
  /\ cache[o] # None /\ storeMade < MaxStoreCalls
  /\ storeCalls' = storeCalls \union {StoreRequest("reload", o, 0, Null)}
  /\ storeMade' = storeMade + 1
  /\ UNCHANGED <<db, publishing, events, cache, sub, writes, storeFailures, storeOdd>>

\* callBackendService with a command that changes o
callBackendService(o) ==
  /\ sub # "none" /\ storeMade < MaxStoreCalls
  /\ storeCalls' = storeCalls \union {StoreRequest("change", o, 0, Null)}
  /\ storeMade' = storeMade + 1
  /\ UNCHANGED <<db, publishing, events, cache, sub, writes, storeFailures, storeOdd>>

\* With pushToServer; the version stays that of the value that is replaced.
setObjectValue(o) ==
  /\ cache[o] # None /\ cache[o].value # Null
  /\ writes < MaxWrites /\ storeMade < MaxStoreCalls
  /\ LET val == [cache[o].value EXCEPT !.content = writes + 1]
     IN /\ cache' = [cache EXCEPT ![o] = Loaded(@, val)]
        /\ storeCalls' = storeCalls \union {StoreRequest("push", o, cache[o].value.content, val)}
  /\ writes' = writes + 1
  /\ storeMade' = storeMade + 1
  /\ storeOdd' = storeOdd \union {x \in {o} : UnderWay(x)}
  /\ UNCHANGED <<db, publishing, events, sub, storeFailures>>

\* handleWaveEvent, updateWaveObject
HandleEvent ==
  /\ events # <<>>
  /\ LET u == Head(events) IN
     /\ getWaveObjectValue(u.o)
     /\ cache' = [cache EXCEPT ![u.o] = updatedEntry(Entry(u.o), u)]
     /\ storeOdd' = storeOdd \union {o \in {u.o} : Pushing(o) \/ Revives(Entry(o), u)}
  /\ events' = Tail(events)
  /\ UNCHANGED <<db, publishing, sub, writes, storeFailures>>

\* The answer of a fetch or of reloadWaveObject
FetchAnswered(c) ==
  /\ c \in storeCalls /\ c.ans.type = "value"
  /\ LET entry == cache[c.o]
         stored == c.kind = "reload" \/ entry.pending = c.id
         left == IF c.kind = "fetch" THEN [entry EXCEPT !.pending = 0] ELSE entry
     IN /\ cache' = [cache EXCEPT ![c.o] = IF stored THEN Loaded(left, c.ans.val) ELSE entry]
        /\ storeOdd' = storeOdd \union {o \in {c.o} : stored /\ (Pushing(o) \/ Overtaken(entry, c.ans.val))}
  /\ storeCalls' = storeCalls \ {c}
  /\ UNCHANGED <<db, publishing, events, sub, writes, storeMade, storeFailures>>

\* The answer of a call with its updates: updateWaveObjects
CallAnswered(c) ==
  /\ c \in storeCalls /\ c.ans.type = "update"
  /\ cache[c.o] # None \/ storeMade < MaxStoreCalls
  /\ LET u == Updated(c.o, c.ans.val) IN
     /\ cache' = [cache EXCEPT ![c.o] = updatedEntry(Entry(c.o), u)]
     /\ storeOdd' = storeOdd \union {o \in {c.o} : Revives(Entry(o), u)}
  /\ IF cache[c.o] # None THEN storeCalls' = storeCalls \ {c} /\ UNCHANGED storeMade
     ELSE storeCalls' = (storeCalls \ {c}) \union {StoreRequest("fetch", c.o, 0, Null)} /\ storeMade' = storeMade + 1
  /\ UNCHANGED <<db, publishing, events, sub, writes, storeFailures>>

\* A call fails before the backend has it, or its answer is lost.
StoreCallFails(c) ==
  /\ c \in storeCalls /\ storeFailures < MaxStoreFailures
  /\ storeFailures' = storeFailures + 1
  /\ storeCalls' = storeCalls \ {c}
  /\ storeOdd' = storeOdd \union {o \in {c.o} : c.kind \in {"fetch", "push"} \/ c.ans.type = "update"}
  /\ UNCHANGED <<db, publishing, events, cache, sub, writes, storeMade>>

(***************************************************************************)
(* The backend                                                             *)
(***************************************************************************)
Exists(o) == db[o] # Null
AnswerCall(c, type, val) == storeCalls' = (storeCalls \ {c}) \union {[c EXCEPT !.ans = [type |-> type, val |-> val]]}

\* DBUpdate
DBUpdate(o, content) == db' = [db EXCEPT ![o] = [version |-> @.version + 1, content |-> content]]

\* A command of another client: what it publishes is what it committed
\* (SendUpdateEvents) or what it reads again later (SendWaveObjUpdate).
Change(o, again) ==
  /\ Exists(o) /\ writes < MaxWrites
  /\ writes' = writes + 1
  /\ DBUpdate(o, writes + 1)
  /\ publishing' = publishing \union {IF again THEN ToRead(o) ELSE Updated(o, db'[o])}
  /\ UNCHANGED <<events, storeCalls, cache, sub, storeMade, storeFailures, storeOdd>>

ReadAgain(u) ==
  /\ u \in publishing /\ u.type = "read"
  /\ publishing' = (publishing \ {u}) \union (IF Exists(u.o) THEN {Updated(u.o, db[u.o])} ELSE {})
  /\ UNCHANGED <<db, events, storeCalls, cache, sub, writes, storeMade, storeFailures, storeOdd>>

Delete(o) ==
  /\ Exists(o)
  /\ db' = [db EXCEPT ![o] = Null]
  /\ publishing' = publishing \union {Deleted(o)}
  /\ UNCHANGED <<events, storeCalls, cache, sub, writes, storeMade, storeFailures, storeOdd>>

\* Broker.Publish: without a subscription the page does not hear of it.
Publish(u) ==
  /\ u \in publishing /\ u.type # "read"
  /\ publishing' = publishing \ {u}
  /\ events' = IF sub = "made" THEN Append(events, u) ELSE events
  /\ storeOdd' = storeOdd \union {o \in {u.o} : sub # "made" /\ cache[o] # None}
  /\ UNCHANGED <<db, storeCalls, cache, sub, writes, storeMade, storeFailures>>

\* ObjectService.GetObject
GetObject(c) ==
  /\ c \in storeCalls /\ c.kind \in {"fetch", "reload"} /\ c.ans = Unanswered
  /\ AnswerCall(c, "value", db[c.o])
  /\ UNCHANGED <<db, publishing, events, cache, sub, writes, storeMade, storeFailures, storeOdd>>

\* A service that returns its updates; some publish them, too.
HandleChange(c, publishes) ==
  /\ c \in storeCalls /\ c.kind = "change" /\ c.ans = Unanswered
  /\ Exists(c.o) /\ writes < MaxWrites
  /\ writes' = writes + 1
  /\ DBUpdate(c.o, writes + 1)
  /\ AnswerCall(c, "update", db'[c.o])
  /\ publishing' = IF publishes THEN publishing \union {Updated(c.o, db'[c.o])} ELSE publishing
  /\ UNCHANGED <<events, cache, sub, storeMade, storeFailures, storeOdd>>

\* ObjectService.UpdateObject without returnUpdates. The version that the
\* page changed is not compared with that of the database; and what a fetch
\* has found before is stored after it.
UpdateObject(c) ==
  /\ c \in storeCalls /\ c.kind = "push"
  /\ IF Exists(c.o) THEN DBUpdate(c.o, c.val.content) ELSE UNCHANGED db
  /\ storeOdd' = storeOdd \union {o \in {c.o} : db[o].content # c.base \/ \E d \in storeCalls : d.o = o /\ d.ans.type = "value"}
  /\ storeCalls' = storeCalls \ {c}
  /\ UNCHANGED <<publishing, events, cache, sub, writes, storeMade, storeFailures>>

\* A change of an object that is gone fails.
Refuse(c) ==
  /\ c \in storeCalls /\ c.kind = "change" /\ c.ans = Unanswered /\ ~Exists(c.o)
  /\ storeCalls' = storeCalls \ {c}
  /\ UNCHANGED <<db, publishing, events, cache, sub, writes, storeMade, storeFailures, storeOdd>>

StoreNext ==
  \/ initGlobalWaveEventSubs \/ EventSub \/ HandleEvent
  \/ \E o \in Objects :
       \/ Want(o) \/ reloadWaveObject(o) \/ callBackendService(o) \/ setObjectValue(o) \/ Delete(o)
       \/ \E again \in BOOLEAN : Change(o, again)
  \/ \E c \in storeCalls :
       \/ FetchAnswered(c) \/ CallAnswered(c) \/ StoreCallFails(c) \/ GetObject(c) \/ UpdateObject(c) \/ Refuse(c)
       \/ \E publishes \in BOOLEAN : HandleChange(c, publishes)
  \/ \E u \in publishing : ReadAgain(u) \/ Publish(u)

StoreSpec == StoreInit /\ [][StoreNext]_storeVars

-----------------------------------------------------------------------------
(* Properties *)

\* With nothing under way what the page shows of an object is what the database
\* has, by whichever way and in whatever order the updates came.
ObjectsCurrent ==
  publishing = {} /\ events = <<>> /\ storeCalls = {} =>
    \A o \in Objects : cache[o] = None \/ o \in storeOdd \/
      (~cache[o].loading /\ cache[o].value.content = db[o].content)
=============================================================================
