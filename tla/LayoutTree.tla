----------------------------- MODULE LayoutTree -----------------------------
(***************************************************************************)
(* The tree operations of frontend/layout/lib/layoutNode.ts and            *)
(* layoutTree.ts.  A tab's layout is a tree whose groups arrange their     *)
(* children in a row or a column and whose leaves show one block each.     *)
(*                                                                         *)
(* The code mutates objects; here an operation returns the new tree.  A    *)
(* node is [id, flex, kids].  The code gives the node of a new block a     *)
(* random id and keeps that id with the block when nodes are wrapped or    *)
(* collapsed, so a leaf's id is its block; groups are numbered.  Sizes are *)
(* left out: no operation below decides anything by them.                  *)
(***************************************************************************)
EXTENDS Integers, Sequences, FiniteSets, SequencesExt

CONSTANTS Blocks,       \* the blocks that leaves show
          None,         \* undefined
          MaxChildren   \* DEFAULT_MAX_CHILDREN

Flex == {"row", "column"}
reverseFlexDirection(f) == IF f = "row" THEN "column" ELSE "row"

IsLeaf(node) == node.id \in Blocks
newLayoutNode(block) == [id |-> block, flex |-> "row", kids |-> <<>>]
Group(id, flex, kids) == [id |-> id, flex |-> flex, kids |-> kids]

\* (TLC computes the elements of a concatenation once, those of a function
\* expression at every use.)
Once(kids) == kids \o <<>>

\* walkNodes: the nodes of a tree, in the order in which they are visited
RECURSIVE walkNodes(_)
walkNodes(node) ==
  IF node = None THEN <<>>
  ELSE <<node>> \o FlattenSeq([i \in DOMAIN node.kids |-> walkNodes(node.kids[i])])

NodesOf(root) == ToSet(walkNodes(root))
IdsOf(root) == LET walk == walkNodes(root) IN {walk[i].id : i \in DOMAIN walk}
LeafSeq(root) ==
  LET leaves == SelectSeq(walkNodes(root), IsLeaf) IN [i \in DOMAIN leaves |-> leaves[i].id]
LeavesOf(root) == IdsOf(root) \cap Blocks
NewGroupId(root) == CHOOSE g \in 1 .. Len(walkNodes(root)) + 1 : g \notin IdsOf(root)

FirstNode(walk, Test(_)) ==
  LET found == SelectSeq(walk, Test) IN IF found = <<>> THEN None ELSE Head(found)
findNode(root, id) == FirstNode(walkNodes(root), LAMBDA n : n.id = id)
findParent(root, id) ==
  FirstNode(walkNodes(root), LAMBDA n : \E i \in DOMAIN n.kids : n.kids[i].id = id)
IndexIn(parent, id) == CHOOSE i \in DOMAIN parent.kids : parent.kids[i].id = id

\* The assignments through object references: every node whose id is in the
\* domain of new is replaced.
RECURSIVE Assign(_, _)
Assign(root, new) ==
  IF root.id \in DOMAIN new THEN new[root.id]
  ELSE [root EXCEPT !.kids = Once([i \in DOMAIN root.kids |-> Assign(root.kids[i], new)])]
Put(root, id, node) == Assign(root, [x \in {id} |-> node])

\* A leaf becomes a group of itself.  (The branch for a node that has
\* children is never taken: both callers ask for a node without any.)
addIntermediateNode(node, fresh) ==
  Group(fresh, node.flex, <<[node EXCEPT !.flex = reverseFlexDirection(node.flex)]>>)

\* Index from 0, as in the code.
addChildAt(node, idx, child, fresh) ==
  LET parent == IF IsLeaf(node) THEN addIntermediateNode(node, fresh) ELSE node
      toAdd  == IF child.flex # parent.flex THEN <<child>>
                ELSE IF ~IsLeaf(child) THEN child.kids
                ELSE <<[child EXCEPT !.flex = reverseFlexDirection(parent.flex)]>>
      at     == IF idx > Len(parent.kids) THEN Len(parent.kids) ELSE idx
  IN [parent EXCEPT !.kids = SubSeq(@, 1, at) \o toAdd \o SubSeq(@, at + 1, Len(@))]

\* mutation: the search for the child always starts at the front
removeChildFirst(parent, id, startingIndex) ==
  LET found == {i \in DOMAIN parent.kids : parent.kids[i].id = id}
  IN IF found = {} THEN parent
     ELSE [parent EXCEPT !.kids = RemoveAt(@, CHOOSE i \in found : \A j \in found : i <= j)]

\* indexOf with a starting index, and splice
removeChild(parent, id, startingIndex) ==
  LET found == {i \in DOMAIN parent.kids : i > startingIndex /\ parent.kids[i].id = id}
  IN IF found = {} THEN parent
     ELSE [parent EXCEPT !.kids = RemoveAt(@, CHOOSE i \in found : \A j \in found : i <= j)]

\* Before its children are visited a node turns those whose direction is its
\* own, takes over the children of an only grandchild and drops empty groups;
\* afterwards a group of one leaf becomes that leaf.
RECURSIVE balanceNode(_)
balanceNode(node) ==
  LET corrected(child) ==
        LET c == IF child.flex = node.flex
                 THEN [child EXCEPT !.flex = reverseFlexDirection(node.flex)] ELSE child
        IN IF Len(c.kids) = 1 /\ ~IsLeaf(c.kids[1]) THEN c.kids[1].kids
           ELSE IF ~IsLeaf(c) /\ c.kids = <<>> THEN <<>>
           ELSE <<c>>
      before == FlattenSeq([i \in DOMAIN node.kids |-> corrected(node.kids[i])])
      after  == Once([i \in DOMAIN before |-> balanceNode(before[i])])
  IN IF Len(after) = 1 /\ IsLeaf(after[1])
     THEN [node EXCEPT !.id = after[1].id, !.kids = <<>>]
     ELSE [node EXCEPT !.kids = after]

\* The first node that has room, by depth ^ (index + max), ties in the order
\* in which the candidates are listed.
RECURSIVE insertLocHelper(_, _)
insertLocHelper(node, depth) ==
  IF IsLeaf(node) THEN [id |-> node.id, index |-> 1, depth |-> depth]
  ELSE LET own  == IF Len(node.kids) < MaxChildren
                   THEN <<[id |-> node.id, index |-> Len(node.kids), depth |-> depth]>> ELSE <<>>
           locs == own \o [i \in DOMAIN node.kids |-> insertLocHelper(Reverse(node.kids)[i], depth + 1)]
           key(l) == l.depth ^ (l.index + MaxChildren)
       IN locs[CHOOSE i \in DOMAIN locs : \A j \in DOMAIN locs :
                 key(locs[i]) < key(locs[j]) \/ (key(locs[i]) = key(locs[j]) /\ i <= j)]
findNextInsertLocation(root) == insertLocHelper(root, 1)

\* indexArr is not empty: the backend sends none without an index.
RECURSIVE findInsertLocationFromIndexArr(_, _)
findInsertLocationFromIndexArr(node, indexArr) ==
  LET len == IF IsLeaf(node) THEN 1 ELSE Len(node.kids)
      i0  == Head(indexArr)
      nextIndex == IF i0 < 0 THEN len - (IF i0 < -len THEN -len ELSE i0)
                   ELSE IF i0 > len - 1 THEN len - 1 ELSE i0
  IN IF Len(indexArr) = 1 \/ IsLeaf(node) THEN [id |-> node.id, index |-> nextIndex]
     ELSE findInsertLocationFromIndexArr(node.kids[nextIndex + 1], Tail(indexArr))

(***************************************************************************)
(* layoutTree.ts.  A tree state t has the fields root, focused and         *)
(* magnified.                                                              *)
(***************************************************************************)
Directions == {"top", "right", "bottom", "left",
               "outertop", "outerright", "outerbottom", "outerleft", "center"}
AlongColumn(dir) == dir \in {"top", "outertop", "bottom", "outerbottom"}
Behind(dir) == dir \in {"bottom", "outerbottom", "right", "outerright"}
Outer(dir) == dir \in {"outertop", "outerbottom", "outerleft", "outerright"}

\* Where a drop on a leaf puts the dragged leaf: beside the leaf's group when
\* an outer edge crosses it, in a new group around the leaf, or beside it.
\* The overlay offers leaves only, so with a second leaf to move the target
\* is never the root: insertAtRoot is not produced.
computeMoveNode(t, nodeId, toMoveId, dir) ==
  LET node        == findNode(t.root, nodeId)
      toMove      == findNode(t.root, toMoveId)
      parent      == findParent(t.root, nodeId)
      grandparent == findParent(t.root, parent.id)
      oldParent   == findParent(t.root, toMoveId)
      along == node.flex = (IF AlongColumn(dir) THEN "column" ELSE "row")
      after == IF Behind(dir) THEN 1 ELSE 0
      move == IF Outer(dir) /\ along /\ grandparent # None
              THEN [parentId |-> grandparent.id, index |-> IndexIn(grandparent, parent.id) - 1 + after]
              ELSE IF along THEN [parentId |-> nodeId, index |-> after]
              ELSE [parentId |-> parent.id, index |-> IndexIn(parent, nodeId) - 1 + after]
      oldIndex == IndexIn(oldParent, toMoveId) - 1
  IN IF node = None \/ toMove = None THEN None
     ELSE IF dir = "center"
     THEN IF t.root.id \in {nodeId, toMoveId} THEN None
          ELSE [type |-> "swap", ids |-> <<nodeId, toMoveId>>]
     ELSE IF move.parentId = oldParent.id /\ move.index \in {oldIndex, oldIndex + 1} THEN None
     ELSE [type |-> "move", ids |-> <<move.parentId>>, index |-> move.index, node |-> toMove]

\* The node is added first and then taken out of its old parent; under one
\* parent the search for the old place starts behind the new one.
moveNode(t, action) ==
  LET id        == action.node.id
      inTree    == findNode(t.root, id)
      node      == IF inTree = None THEN action.node ELSE inTree
      parent    == findNode(t.root, action.ids[1])
      oldParent == findParent(t.root, id)
      sameParent == oldParent # None /\ oldParent.id = parent.id
      startingIndex == IF sameParent /\ IndexIn(parent, id) - 1 >= action.index
                       THEN action.index + 1 ELSE 0
      added     == Put(t.root, parent.id, addChildAt(parent, action.index, node, NewGroupId(t.root)))
  IN [t EXCEPT !.root =
        IF oldParent = None THEN added
        ELSE Put(added, oldParent.id, removeChild(findNode(added, oldParent.id), id, startingIndex))]

Inserted(t, location, block, magnified, focused) ==
  LET node   == newLayoutNode(block)
      target == findNode(t.root, location.id)
      taken  == focused \/ (magnified /\ t.root # None)
  IN [t EXCEPT
        !.root = IF @ = None THEN node
                 ELSE Put(@, target.id, addChildAt(target, location.index, node, NewGroupId(@))),
        !.focused = IF taken THEN block ELSE @,
        !.magnified = IF magnified /\ t.root # None THEN block ELSE @]

insertNode(t, block, magnified, focused) ==
  Inserted(t, IF t.root = None THEN None ELSE findNextInsertLocation(t.root), block, magnified, focused)

insertNodeAtIndex(t, block, indexArr, focused) ==
  LET loc == findInsertLocationFromIndexArr(t.root, indexArr)
  IN Inserted(t, IF t.root = None THEN None ELSE [loc EXCEPT !.index = @ + 1], block, FALSE, focused)

\* Both nodes have a parent, otherwise the call throws (see LayoutModel).
swapNode(t, id1, id2) ==
  [t EXCEPT !.root = Assign(@, [x \in {id1, id2} |-> findNode(@, IF x = id1 THEN id2 ELSE id1)])]

\* Without a root the focus stays; so does the magnification in any case.
deleteNode(t, id) ==
  LET parent == findParent(t.root, id)
  IN IF t.root = None THEN t
     ELSE IF t.root.id = id THEN [t EXCEPT !.root = None]
     ELSE IF parent = None THEN t
     ELSE [t EXCEPT !.root = Put(@, parent.id, removeChild(parent, id, 0)),
                    !.focused = IF @ = id THEN None ELSE @]

focusNode(t, id) == [t EXCEPT !.focused = id]

magnifyNodeToggle(t, id) ==
  IF t.root.id = id THEN t
  ELSE IF t.magnified = id THEN [t EXCEPT !.magnified = None]
  ELSE [t EXCEPT !.magnified = id, !.focused = id]

clearTree(t) == [t EXCEPT !.root = None, !.focused = None, !.magnified = None]

replaceNode(t, targetId, block, focused) ==
  IF targetId \notin IdsOf(t.root) THEN t
  ELSE [t EXCEPT !.root = Put(@, targetId, newLayoutNode(block)),
                 !.focused = IF focused THEN block ELSE @]

\* mutation: the new node takes the target's place in its group
splitNodeReplaces(t, flex, targetId, block, before, focused) ==
  LET target == findNode(t.root, targetId)
      parent == findParent(t.root, targetId)
      new    == newLayoutNode(block)
      pair   == IF before THEN <<new, target>> ELSE <<target, new>>
  IN IF target = None THEN t
     ELSE [t EXCEPT
            !.root = IF parent # None /\ parent.flex = flex
                     THEN Put(@, parent.id, [parent EXCEPT !.kids[IndexIn(parent, targetId)] = new])
                     ELSE Put(@, targetId, Group(NewGroupId(@), flex, pair)),
            !.focused = IF focused THEN block ELSE @]

\* splitHorizontal (flex "row") and splitVertical (flex "column"): beside the
\* target when its group has that direction, otherwise in a new group.
splitNode(t, flex, targetId, block, before, focused) ==
  LET target == findNode(t.root, targetId)
      parent == findParent(t.root, targetId)
      new    == newLayoutNode(block)
      pair   == IF before THEN <<new, target>> ELSE <<target, new>>
      at     == IndexIn(parent, targetId) - (IF before THEN 1 ELSE 0)
  IN IF target = None THEN t
     ELSE [t EXCEPT
            !.root = IF parent # None /\ parent.flex = flex
                     THEN Put(@, parent.id, [parent EXCEPT !.kids = InsertAt(@, at + 1, new)])
                     ELSE Put(@, targetId, Group(NewGroupId(@), flex, pair)),
            !.focused = IF focused THEN block ELSE @]
=============================================================================
