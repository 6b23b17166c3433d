---------------------------- MODULE LayoutModel ----------------------------
(***************************************************************************)
(* The layout of one tab in the page (frontend/layout/lib/layoutModel.ts), *)
(* the backend's copy of it, and the tab's blocks.                         *)
(*                                                                         *)
(* The page changes the tree when the user acts and when the backend has   *)
(* queued actions for it (blocks made or closed with wsh).  It closes a    *)
(* block by taking its leaf away and then asking the backend to delete it; *)
(* while it works off queued actions it waits for each such answer, so     *)
(* that the user, and a second run over a newer queue, act in between.     *)
(* 100 ms after a change it saves the tree, which also empties the queue.  *)
(*                                                                         *)
(* JavaScript runs to completion: as long as a run over queued actions is  *)
(* not waiting for the backend, nothing but it moves (Quiet).              *)
(*                                                                         *)
(* One save is under way at a time: the backend answers it before the      *)
(* timer of the next change runs out.  The code does not wait for the      *)
(* answer; two saves that overlap and overtake each other are left out.    *)
(***************************************************************************)
EXTENDS LayoutTree

CONSTANTS UserOps,      \* the kinds of user actions that a configuration explores
          BackendOps,   \* the kinds of actions that the backend queues in it
          MaxActions,   \* bound: actions the backend queues
          MaxReloads,   \* bound: page loads after the first
          MaxFailures   \* bound: DeleteBlock calls that fail

VARIABLES
  m,          \* the page: [root, focused, magnified, stack, ephemeral, leafs]
  drag,       \* pendingTreeAction
  runs,       \* processPendingBackendActions in progress: [todo, wait, orphans]
  processed,  \* processedActionIds
  tab,        \* blockids of the page's copy of the tab
  mounted,    \* displayContainerRef.current
  timer,      \* persistDebounceTimer
  saving,     \* an UpdateObject under way, a value for db
  db,         \* the backend's layout object: [root, focused, magnified, pend]
  events,     \* its updates on their way to the page: [pend, tab]
  blocks,     \* the blocks of the tab, in the backend
  deleting,   \* DeleteBlock calls under way
  queued,     \* number of actions queued; an action's id is its number
  used,       \* blocks created so far
  loads, failures,
  astray      \* history: blocks of actions that the page gave up, moved by a stale
              \* drag, replaced, closed last, lost to a page load, or swept
              \* by a cleanup while ephemeral or not yet inserted

vars == <<m, drag, runs, processed, tab, mounted, timer, saving, db, events,
          blocks, deleting, queued, used, loads, failures, astray>>
bounds == <<loads, failures>>

Waiting(run) == run.wait # None
Quiet == \A i \in DOMAIN runs : Waiting(runs[i])

(***************************************************************************)
(* updateTree                                                              *)
(***************************************************************************)
EphemeralSeq(mm) == IF mm.ephemeral = None THEN <<>> ELSE <<mm.ephemeral>>
leafOrder(mm) ==
  LET single == mm.root # None /\ IsLeaf(mm.root)
  IN (IF single THEN <<>> ELSE EphemeralSeq(mm)) \o LeafSeq(mm.root)
       \o (IF single THEN EphemeralSeq(mm) ELSE <<>>)

focusedNodeId(mm) == IF mm.stack = <<>> THEN None ELSE mm.stack[1]

\* The stack of earlier focused leaves without those that are gone.
Pruned(stack, leaves) ==
  FoldLeft(LAMBDA ids, id : IF id \in ToSet(leaves) \ ToSet(ids) THEN Append(ids, id) ELSE ids, <<>>, stack)

\* A changed focus goes onto the stack; a lost one is taken from it, or is
\* the first leaf.
Refocused(mm, stack, leaves) ==
  LET lost  == mm.focused = None
      found == IF ~lost THEN mm.focused ELSE IF stack \o leaves = <<>> THEN None ELSE Head(stack \o leaves)
  IN [mm EXCEPT !.focused = found,
                !.stack = <<found>> \o (IF lost /\ stack # <<>> THEN Tail(stack) ELSE stack)]

\* mutation: leaves that are gone stay on the stack
validateFocusedNodeUnpruned(mm) ==
  IF mm.focused = focusedNodeId(mm) THEN mm ELSE Refocused(mm, mm.stack, leafOrder(mm))

validateFocusedNode(mm) ==
  IF mm.focused = focusedNodeId(mm) THEN mm
  ELSE Refocused(mm, Pruned(mm.stack, leafOrder(mm)), leafOrder(mm))

validateMagnifiedNode(mm) ==
  IF Len(leafOrder(mm)) = 1 THEN [mm EXCEPT !.magnified = None] ELSE mm

BalancedTree(mm) == IF mm.root = None THEN mm ELSE [mm EXCEPT !.root = balanceNode(@)]
LeafsSet(mm) == [mm EXCEPT !.leafs = ToSet(leafOrder(mm))]
Validated(mm) == LeafsSet(validateMagnifiedNode(validateFocusedNode(mm)))

updateTree(mm, balance) ==
  IF ~mounted THEN mm ELSE Validated(IF balance THEN BalancedTree(mm) ELSE mm)

\* The ids of groups are random in the code; here they are numbered in the
\* order of the walk after every change, and 0 stands for one that is gone.
Number(root, id) ==
  LET walk == walkNodes(root)
      pos  == CHOOSE j \in DOMAIN walk : walk[j].id = id
  IN IF id \in Blocks THEN id
     ELSE IF id \notin IdsOf(root) THEN 0
     ELSE Cardinality({j \in 1 .. pos : ~IsLeaf(walk[j])})
RECURSIVE Renumber(_, _)
Renumber(root, node) ==
  [node EXCEPT !.id = Number(root, node.id),
               !.kids = Once([i \in DOMAIN node.kids |-> Renumber(root, node.kids[i])])]

Renumbered(mm) == IF mm.root = None THEN mm ELSE [mm EXCEPT !.root = Renumber(mm.root, mm.root)]

\* The page's tree becomes mm's, and drag p.
Named(mm, p) ==
  IF p = None THEN None ELSE [p EXCEPT !.ids = [i \in DOMAIN p.ids |-> Number(mm.root, p.ids[i])]]
Becomes(mm, p) == m' = Renumbered(mm) /\ drag' = Named(mm, p)

\* treeReducer(action): with setState the tree is put in order and saved.
Reduce(mm) == Becomes(updateTree(mm, TRUE), drag) /\ timer' = TRUE

(***************************************************************************)
(* closeNode, newEphemeralNode                                             *)
(***************************************************************************)
Closable(mm, id) == id \in LeavesOf(mm.root) \union ({mm.ephemeral} \ {None})
Closed(mm, id) ==
  IF id \notin IdsOf(mm.root)
  THEN updateTree([mm EXCEPT !.ephemeral = None, !.focused = None], FALSE)
  ELSE LET plain == IF mm.magnified = id THEN updateTree(magnifyNodeToggle(mm, id), TRUE) ELSE mm
       IN updateTree(deleteNode(plain, id), TRUE)

LastLeaf(mm, id) == IF mm.root # None /\ mm.root.id = id THEN {id} ELSE {}

\* The one before is closed; before the page is mounted there is no
\* container to measure and the call throws half-way.
NewEphemeral(mm, block) ==
  LET single == IF mm.ephemeral = None THEN mm ELSE Closed(mm, mm.ephemeral)
      shown  == [single EXCEPT !.ephemeral = block]
  IN IF mounted THEN updateTree(focusNode(shown, block), TRUE) ELSE shown
Replaced(mm) == {mm.ephemeral} \ {None}

(***************************************************************************)
(* Queued actions                                                          *)
(***************************************************************************)
NewRun(actions) == [todo |-> actions, wait |-> None, orphans |-> {}]
NamedBlocks(actions) == {actions[i].block : i \in DOMAIN actions} \ {None}

Splits == [splitleft |-> "row", splitright |-> "row", splitup |-> "column", splitdown |-> "column"]

\* What a queued action makes of the page's tree.  A target is looked up
\* among the leafs of the last updateTree.  Replace and split ignore the
\* action's focus.
Applied(mm, a) ==
  CASE a.kind = "insert" -> insertNode(mm, a.block, FALSE, a.focused)
    [] a.kind = "insertatindex" -> insertNodeAtIndex(mm, a.block, a.indexarr, a.focused)
    [] a.kind = "clear" -> clearTree(mm)
    [] a.kind = "replace" -> replaceNode(mm, a.target, a.block, FALSE)
    [] a.kind \in DOMAIN Splits -> splitNode(mm, Splits[a.kind], a.target, a.block, a.kind \in {"splitleft", "splitup"}, FALSE)

Targeted == {"replace"} \union DOMAIN Splits
CreateKinds == {"insert", "insertephemeral"} \union Targeted

\* The actions that the page has received or the backend has sent it and
\* that it has not yet carried out.
Outstanding ==
  LET lists == {runs[i].todo : i \in DOMAIN runs} \union {events[i].pend : i \in DOMAIN events}
  IN {a \in UNION {ToSet(l) : l \in lists} : a.id \notin processed}

\* One turn of the loop in processPendingBackendActions.
Skip(i) ==
  /\ runs[i].todo # <<>> /\ runs[i].wait = None /\ runs[i].orphans = {}
  /\ Head(runs[i].todo).id \in processed
  /\ runs' = [runs EXCEPT ![i].todo = Tail(@)]
  /\ UNCHANGED <<m, drag, processed, timer, deleting, astray>>

Take(i, a) ==
  /\ runs[i].todo # <<>> /\ runs[i].wait = None /\ runs[i].orphans = {}
  /\ a = Head(runs[i].todo) /\ a.id \notin processed
  /\ processed' = processed \union {a.id}

HandleTree(i, a) ==
  /\ Take(i, a) /\ a.kind \notin {"delete", "cleanup", "insertephemeral"}
  /\ LET found == a.kind \in Targeted => a.target \in m.leafs
         done  == a.kind \in Targeted => a.target \in m.leafs \intersect LeavesOf(m.root)
     IN /\ Becomes(IF found THEN Applied(m, a) ELSE m, drag)
        /\ astray' = astray \union (IF ~done THEN {a.block, a.target} ELSE {})
                            \union (IF a.kind = "replace" THEN {a.target} ELSE {})
                            \union (IF a.kind = "clear" THEN LeavesOf(m.root) ELSE {})
  /\ runs' = [runs EXCEPT ![i].todo = Tail(@)]
  /\ UNCHANGED <<timer, deleting>>

HandleDelete(i, a) ==
  /\ Take(i, a) /\ a.kind = "delete"
  /\ IF a.block \in m.leafs /\ Closable(m, a.block)
     THEN /\ Becomes(Closed(m, a.block), drag)
          /\ timer' = TRUE
          /\ deleting' = deleting \union {a.block}
          /\ runs' = [runs EXCEPT ![i].todo = Tail(@), ![i].wait = a.block]
          /\ astray' = astray \union LastLeaf(m, a.block)
     ELSE /\ runs' = [runs EXCEPT ![i].todo = Tail(@)]
          /\ astray' = astray \union {a.block}
          /\ UNCHANGED <<m, drag, timer, deleting>>

HandleEphemeral(i, a) ==
  /\ Take(i, a) /\ a.kind = "insertephemeral"
  /\ Becomes(NewEphemeral(m, a.block), drag)
  /\ deleting' = deleting \union Replaced(m)
  /\ IF mounted
     THEN /\ runs' = [runs EXCEPT ![i].todo = Tail(@)]
          /\ timer' = TRUE
          /\ UNCHANGED astray
     ELSE /\ runs' = RemoveAt(runs, i)
          /\ astray' = astray \union NamedBlocks(Tail(runs[i].todo))
          /\ UNCHANGED timer

\* cleanupOrphanedBlocks: the blocks of the tab that the tree does not show
\* are deleted one after the other, once onNodeDelete is registered.
HandleCleanup(i, a) ==
  LET orphans == IF m.root = None \/ ~mounted THEN {} ELSE tab \ LeavesOf(m.root)
  IN /\ Take(i, a) /\ a.kind = "cleanup"
     /\ runs' = [runs EXCEPT ![i].todo = Tail(@), ![i].orphans = orphans]
     /\ astray' = astray \union (orphans \intersect ({m.ephemeral} \union {x.block : x \in Outstanding}))
     /\ UNCHANGED <<m, drag, timer, deleting>>

DeleteOrphan(i, b) ==
  /\ runs[i].wait = None /\ b \in runs[i].orphans
  /\ runs' = [runs EXCEPT ![i].wait = b, ![i].orphans = @ \ {b}]
  /\ deleting' = deleting \union {b}
  /\ UNCHANGED <<m, drag, processed, timer, astray>>

\* mutation: the new tree is not saved
FinishUnsaved(i) ==
  /\ runs[i] = NewRun(<<>>)
  /\ Becomes(updateTree(m, TRUE), drag)
  /\ runs' = RemoveAt(runs, i)
  /\ UNCHANGED <<processed, timer, deleting, astray>>

Finish(i) ==
  /\ runs[i] = NewRun(<<>>)
  /\ Reduce(m)
  /\ runs' = RemoveAt(runs, i)
  /\ UNCHANGED <<processed, deleting, astray>>

RunStep ==
  /\ \E i \in DOMAIN runs :
       \/ Skip(i) \/ Finish(i) \/ \E b \in runs[i].orphans : DeleteOrphan(i, b)
       \/ \E a \in ToSet(runs[i].todo) :
            HandleTree(i, a) \/ HandleDelete(i, a) \/ HandleEphemeral(i, a) \/ HandleCleanup(i, a)
  /\ UNCHANGED <<tab, mounted, saving, db, events, blocks, queued, used, bounds>>

\* onBackendUpdate
BackendUpdate ==
  /\ Quiet /\ events # <<>>
  /\ tab' = Head(events).tab
  /\ events' = Tail(events)
  /\ runs' = IF Head(events).pend = <<>> THEN runs ELSE Append(runs, NewRun(Head(events).pend))
  /\ UNCHANGED <<m, drag, processed, mounted, timer, saving, db, blocks, deleting,
                 queued, used, bounds, astray>>

\* The answers to DeleteBlock; of a block that is gone it succeeds too.
DeleteAnswered(b, ok) ==
  /\ Quiet /\ b \in deleting
  /\ deleting' = deleting \ {b}
  /\ IF ok
     THEN /\ blocks' = blocks \ {b}
          /\ tab' = tab \ {b}
          /\ runs' = [i \in DOMAIN runs |-> IF runs[i].wait = b THEN [runs[i] EXCEPT !.wait = None] ELSE runs[i]]
          /\ UNCHANGED <<failures, astray>>
     ELSE /\ failures < MaxFailures /\ failures' = failures + 1
          /\ runs' = SelectSeq(runs, LAMBDA r : r.wait # b)
          /\ astray' = astray \union {b} \union
               UNION {NamedBlocks(runs[i].todo) : i \in {j \in DOMAIN runs : runs[j].wait = b}}
          /\ UNCHANGED <<blocks, tab>>
  /\ UNCHANGED <<m, drag, processed, mounted, timer, saving, db, events, queued, used, loads>>

(***************************************************************************)
(* The user                                                                *)
(***************************************************************************)
User(op) == op \in UserOps /\ Quiet /\ mounted
backendVars == <<saving, db, events, queued, failures, loads>>
idle == <<runs, processed, mounted, backendVars>>

\* A new block's id is arbitrary: the ids are taken in one order.
Fresh(b, taken) == b \in Blocks \ taken /\ b = CHOOSE x \in Blocks \ taken : TRUE

NewBlock(b) ==
  /\ Fresh(b, used)
  /\ used' = used \union {b}
  /\ blocks' = blocks \union {b}
  /\ tab' = tab \union {b}

\* createBlock
Create(b, magnified) ==
  /\ User("create") /\ (magnified => "magnify" \in UserOps) /\ NewBlock(b)
  /\ Reduce(insertNode(m, b, magnified, TRUE))
  /\ UNCHANGED <<deleting, astray, idle>>

CreateEphemeral(b) ==
  /\ User("ephemeral") /\ NewBlock(b)
  /\ Becomes(NewEphemeral(m, b), drag)
  /\ timer' = TRUE
  /\ deleting' = deleting \union Replaced(m)
  /\ UNCHANGED <<astray, idle>>

addEphemeralNodeToLayout ==
  /\ User("ephemeral") /\ m.ephemeral # None
  /\ LET plain == IF m.magnified # None /\ m.root # None THEN magnifyNodeToggle(m, m.magnified) ELSE m
     IN Reduce(insertNode([plain EXCEPT !.ephemeral = None], m.ephemeral, FALSE, FALSE))
  /\ UNCHANGED <<tab, blocks, deleting, used, astray, idle>>

\* createBlockSplitHorizontally, createBlockSplitVertically
CreateSplit(b) ==
  /\ User("split") /\ NewBlock(b)
  /\ \E target \in LeavesOf(m.root), flex \in Flex, before \in BOOLEAN :
       Reduce(splitNode(m, flex, target, b, before, TRUE))
  /\ UNCHANGED <<deleting, astray, idle>>

\* replaceBlock; the old block is deleted 300 ms later.
ReplaceBlock(b) ==
  /\ User("replace") /\ NewBlock(b)
  /\ \E target \in LeavesOf(m.root), focus \in BOOLEAN :
       /\ Reduce(replaceNode(m, target, b, focus))
       /\ deleting' = deleting \union {target}
       /\ astray' = astray \union {target}
  /\ UNCHANGED idle

Close(b) ==
  /\ User("close") /\ Closable(m, b)
  /\ Becomes(Closed(m, b), drag)
  /\ timer' = TRUE
  /\ deleting' = deleting \union {b}
  /\ astray' = astray \union LastLeaf(m, b)
  /\ UNCHANGED <<tab, blocks, used, idle>>

Focus(b) ==
  /\ User("focus") /\ Closable(m, b) /\ focusedNodeId(m) # b
  /\ Reduce(focusNode(m, b))
  /\ UNCHANGED <<tab, blocks, deleting, used, astray, idle>>

Magnify(b) ==
  /\ User("magnify") /\ b \in LeavesOf(m.root)
  /\ Reduce(magnifyNodeToggle(m, b))
  /\ UNCHANGED <<tab, blocks, deleting, used, astray, idle>>

\* A drag over a leaf computes the move (again: first ClearDrag, here);
\* outside the leaves it is cleared.
Hover(b) ==
  /\ User("drag") /\ drag = None /\ b \in LeavesOf(m.root) /\ m.magnified # b
  /\ LET tree == updateTree(m, TRUE)
     IN /\ m' = Renumbered(tree)
        /\ \E target \in m.leafs \ {b}, dir \in Directions :
             drag' = Named(tree, computeMoveNode(m, target, b, dir))
  /\ timer' = TRUE
  /\ UNCHANGED <<tab, blocks, deleting, used, astray, idle>>

ClearDrag ==
  /\ User("drag") /\ drag # None
  /\ Becomes(updateTree(m, TRUE), None)
  /\ timer' = TRUE
  /\ UNCHANGED <<tab, blocks, deleting, used, astray, idle>>

\* onResizeMove: the two neighbours of a handle
ResizeMove(parent, i) ==
  /\ User("resize") /\ parent \in NodesOf(m.root) /\ i \in 1 .. Len(parent.kids) - 1
  /\ Becomes(updateTree(updateTree(m, TRUE), FALSE),
             [type |-> "resize", ids |-> <<parent.kids[i].id, parent.kids[i + 1].id>>])
  /\ timer' = TRUE
  /\ UNCHANGED <<tab, blocks, deleting, used, astray, idle>>

\* CommitPendingAction, from onDrop and onResizeEnd.  A node that is gone by
\* now makes moveNode, swapNode and resizeNode throw, and what was pending
\* stays so; only the moved leaf itself may be missing.
Committed(t, p) ==
  CASE p.type = "move" -> moveNode(t, p)
    [] p.type = "swap" -> IF t.root.id \in ToSet(p.ids) THEN t ELSE swapNode(t, p.ids[1], p.ids[2])
    [] p.type = "resize" -> t
Throws(t, p) ==
  /\ ~ ToSet(p.ids) \subseteq IdsOf(t.root)
  /\ ~ (p.type = "swap" /\ t.root # None /\ t.root.id \in ToSet(p.ids))
Commit ==
  /\ (User("drag") \/ User("resize")) /\ drag # None /\ ~Throws(m, drag)
  /\ LET once == updateTree(Committed(m, drag), TRUE) IN Becomes(updateTree(once, TRUE), None)
  /\ timer' = TRUE
  /\ astray' = astray \union (IF drag.type = "move" THEN {drag.node.id} \ LeavesOf(m.root) ELSE {})
  /\ UNCHANGED <<tab, blocks, deleting, used, idle>>

UserStep ==
  \/ \E b \in Blocks :
       \/ \E flag \in BOOLEAN : Create(b, flag)
       \/ CreateEphemeral(b) \/ CreateSplit(b) \/ ReplaceBlock(b)
       \/ Close(b) \/ Focus(b) \/ Magnify(b) \/ Hover(b)
  \/ addEphemeralNodeToLayout \/ ClearDrag \/ Commit
  \/ \E parent \in NodesOf(m.root) : \E i \in DOMAIN parent.kids : ResizeMove(parent, i)

(***************************************************************************)
(* Saving, loading, and the backend                                        *)
(***************************************************************************)
persistToBackend ==
  /\ "save" \in BackendOps /\ Quiet /\ timer /\ saving = None
  /\ timer' = FALSE
  /\ saving' = [root |-> m.root, focused |-> m.focused, magnified |-> m.magnified, pend |-> <<>>]
  /\ UNCHANGED <<m, drag, runs, processed, tab, mounted, db, events, blocks, deleting,
                 queued, used, bounds, astray>>

Saved ==
  /\ saving # None
  /\ db' = saving
  /\ saving' = None
  /\ UNCHANGED <<m, drag, runs, processed, tab, mounted, timer, events, blocks, deleting,
                 queued, used, bounds, astray>>

\* QueueLayoutAction and the update event
Queue(actions, tabNow) ==
  /\ queued' = queued + Len(actions)
  /\ db' = [db EXCEPT !.pend = @ \o actions]
  /\ events' = Append(events, [pend |-> db.pend \o actions, tab |-> tabNow])

Action(n, kind, block, target, focused) ==
  [id |-> queued + n, kind |-> kind, block |-> block, target |-> target, focused |-> focused]

\* wsh: CreateBlockCommand, with a replaced block deleted first
WshCreate(b, kind, target) ==
  /\ kind \in BackendOps \intersect CreateKinds /\ queued < MaxActions /\ Fresh(b, used)
  /\ kind \in Targeted <=> target # None
  /\ target # None => target \in blocks
  /\ used' = used \union {b}
  /\ blocks' = (blocks \union {b}) \ (IF kind = "replace" THEN {target} ELSE {})
  /\ Queue(<<Action(1, kind, b, target, kind = "insert")>>, blocks')
  /\ UNCHANGED <<m, drag, runs, processed, tab, mounted, timer, saving, deleting, bounds, astray>>

\* ApplyPortableLayout, for a new tab
ApplyPortableLayout(b, c) ==
  /\ "insertatindex" \in BackendOps /\ queued = 0 /\ used = {} /\ Fresh(b, {}) /\ Fresh(c, {b})
  /\ used' = {b, c}
  /\ blocks' = {b, c}
  /\ Queue(<<Action(1, "clear", None, None, FALSE),
             Action(2, "insertatindex", b, None, TRUE) @@ [indexarr |-> <<0>>],
             Action(3, "insertatindex", c, None, FALSE) @@ [indexarr |-> <<1, 1>>]>>, {b, c})
  /\ UNCHANGED <<m, drag, runs, processed, tab, mounted, timer, saving, deleting, bounds, astray>>

\* wsh: DeleteBlockCommand
WshDelete(b) ==
  /\ "delete" \in BackendOps /\ queued < MaxActions /\ b \in blocks
  /\ blocks' = blocks \ {b}
  /\ Queue(<<Action(1, "delete", b, None, FALSE)>>, blocks')
  /\ UNCHANGED <<m, drag, runs, processed, tab, mounted, timer, saving, deleting, used, bounds, astray>>

\* onTreeStateAtomUpdated and registerTileLayout, which has the backend
\* queue a cleanup.  Both are effects: the run over the actions that were
\* found when the page was loaded is over before them.
Mount ==
  /\ ~mounted /\ Quiet
  /\ mounted' = TRUE
  /\ m' = Renumbered(Validated(BalancedTree(m)))
  /\ IF "cleanup" \in BackendOps THEN Queue(<<Action(1, "cleanup", None, None, FALSE)>>, blocks)
     ELSE UNCHANGED <<queued, db, events>>
  /\ UNCHANGED <<drag, runs, processed, tab, timer, saving, blocks, deleting, used, bounds, astray>>

Shown == LeavesOf(m.root) \union ({m.ephemeral} \ {None})

\* What the object in the database says wrongly of the blocks: changes that
\* were not saved, actions carried out but still queued, and queued actions
\* that a save has overwritten.
Lost ==
  LET saved == LeavesOf(db.root) \union NamedBlocks(db.pend)
  IN (blocks \ saved) \union (saved \ (blocks \ deleting))
       \union ({db.focused, db.magnified} \ (LeavesOf(db.root) \union {None}))

\* The page is closed and loaded again: initializeFromWaveObject
Reload ==
  /\ Quiet /\ loads < MaxReloads
  /\ loads' = loads + 1
  /\ m' = [root |-> db.root, focused |-> db.focused, magnified |-> db.magnified,
           stack |-> <<>>, ephemeral |-> None, leafs |-> {}]
  /\ drag' = None /\ processed' = {} /\ tab' = blocks /\ timer' = FALSE /\ mounted' = FALSE
  /\ events' = <<>>
  /\ runs' = IF db.pend = <<>> THEN <<>> ELSE <<NewRun(db.pend)>>
  /\ astray' = astray \union Lost
  /\ UNCHANGED <<saving, db, blocks, deleting, queued, used, failures>>

BackendStep ==
  \/ \E b \in Blocks : WshDelete(b) \/ \E ok \in BOOLEAN : DeleteAnswered(b, ok)
  \/ \E b \in Blocks, kind \in BackendOps, target \in Blocks \union {None} : WshCreate(b, kind, target)
  \/ \E b, c \in Blocks : ApplyPortableLayout(b, c)
  \/ BackendUpdate \/ persistToBackend \/ Saved \/ Mount \/ Reload

Init ==
  /\ m = [root |-> None, focused |-> None, magnified |-> None, stack |-> <<>>, ephemeral |-> None, leafs |-> {}]
  /\ db = [root |-> None, focused |-> None, magnified |-> None, pend |-> <<>>]
  /\ drag = None /\ runs = <<>> /\ processed = {} /\ tab = {} /\ mounted = FALSE
  /\ timer = FALSE /\ saving = None /\ events = <<>>
  /\ blocks = {} /\ deleting = {} /\ queued = 0 /\ used = {} /\ loads = 0 /\ failures = 0 /\ astray = {}

Next == RunStep \/ UserStep \/ BackendStep
Spec == Init /\ [][Next]_vars

\* Promises and timers run, effects are applied, and the backend answers.
\* (The first two are WF_vars(RunStep) and WF_vars(Mount) with their
\* enabling conditions written out, which TLC would take long to find.)
Fairness ==
  /\ []<>Quiet \/ []<><<RunStep>>_vars
  /\ []<>(mounted \/ ~Quiet) \/ []<><<Mount>>_vars
  /\ WF_vars(BackendUpdate) /\ WF_vars(persistToBackend) /\ WF_vars(Saved)
  /\ \A b \in Blocks : WF_vars(DeleteAnswered(b, TRUE))
FairSpec == Spec /\ Fairness

(***************************************************************************)
(* Properties                                                              *)
(***************************************************************************)
AtRest == runs = <<>> /\ mounted

IsTree(node) ==
  /\ Cardinality(IdsOf(node)) = Len(walkNodes(node))
  /\ \A n \in NodesOf(node) : n.flex \in Flex /\ (IsLeaf(n) <=> n.kids = <<>>)

\* The page's state is well formed: node ids are unique and exactly the
\* leaves have no children; focus, magnification and stack name blocks.
TypeOK ==
  /\ m.root # None => IsTree(m.root)
  /\ {m.focused, m.magnified, m.ephemeral} \subseteq Blocks \union {None}
  /\ ToSet(m.stack) \subseteq Blocks \union {None}
  /\ m.leafs \subseteq Blocks
  /\ mounted \in BOOLEAN /\ timer \in BOOLEAN
  /\ blocks \union tab \union deleting \union astray \subseteq used

\* balanceNode's promise: groups alternate between row and column, only the
\* root may have a single child, which is a group, and there is nothing left
\* to balance.
Balanced ==
  AtRest /\ m.root # None =>
    /\ \A n \in NodesOf(m.root) : \A i \in DOMAIN n.kids :
         /\ n.kids[i].flex # n.flex
         /\ Len(n.kids) = 1 => n = m.root /\ ~IsLeaf(n.kids[1])
    /\ balanceNode(m.root) = m.root

\* Every block of the tab is shown, being closed, or about to be shown.
BlocksShown ==
  Quiet => \A b \in blocks \ (astray \union deleting \union Shown) : \E a \in Outstanding : a.block = b

\* Every leaf shows a block that exists, is being closed, or whose removal
\* the page is about to be told.
NoGhostLeaf ==
  Quiet => \A b \in Shown \ (blocks \union astray \union deleting) :
    \E a \in Outstanding : b \in {a.block, a.target}

\* The stack of focused nodes and the tree state agree on the focus, and it
\* is shown.
FocusAgrees ==
  AtRest => /\ m.focused = focusedNodeId(m)
            /\ m.focused \in Shown \union astray \union {None}
            /\ m.focused = None /\ m.stack # <<>> => Shown = {}

\* Only a leaf is magnified, and only beside another one.
MagnifiedShown ==
  AtRest /\ m.magnified # None => m.magnified \in astray \/ (m.magnified \in Shown /\ Cardinality(Shown) > 1)

\* b lies on the dir side of target: the group that parts them runs in that
\* direction and has them in that order; without outer edges nothing is between.
Beside(root, b, target, dir) ==
  LET order == LeafSeq(root)
      at(x) == CHOOSE i \in DOMAIN order : order[i] = x
  IN /\ \E n \in NodesOf(root) :
          /\ ~IsLeaf(n) /\ n.flex = (IF AlongColumn(dir) THEN "column" ELSE "row")
          /\ \E i, j \in DOMAIN n.kids :
               /\ IF Behind(dir) THEN j < i ELSE i < j
               /\ b \in LeavesOf(n.kids[i]) /\ target \in LeavesOf(n.kids[j])
     /\ ~Outer(dir) => at(b) - at(target) \in {-1, 1}

\* Whatever leaf is dropped on whatever edge of another one, it ends up on
\* that side of it (a drop that computeMoveNode ignores finds it there).
DropLands ==
  AtRest /\ drag = None =>
    \A b \in LeavesOf(m.root) : \A target \in LeavesOf(m.root) \ {b}, dir \in Directions \ {"center"} :
      LET a == computeMoveNode(m, target, b, dir)
      IN Beside(IF a = None THEN m.root ELSE balanceNode(moveNode(m, a).root), b, target, dir)

\* Once nothing more is queued the page comes to rest, and the database then
\* has the page's tree and an empty queue.
Settles ==
  <>[](/\ mounted /\ runs = <<>> /\ events = <<>> /\ saving = None
       /\ db.root = m.root /\ db.pend = <<>>)

\* The getter's comment (layoutModel.ts:898): "The id of the focused node in
\* the layout."
FocusInLayout == AtRest /\ m.focused # None => m.focused \in Shown

\* The service's description (services.ts:57): "queue a layout action to
\* cleanup orphaned blocks in the tab".  A block that the page shows is not
\* orphaned.
CleanupSparesShown == \A i \in DOMAIN runs : runs[i].orphans \intersect Shown = {}
=============================================================================
