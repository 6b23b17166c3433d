------------------------------ MODULE MCWindow ------------------------------
(***************************************************************************)
(* Small instances of what a desktop window shows: the layout of a tab and *)
(* the tab views of the windows.                                           *)
(*                                                                         *)
(* As in MCMessages a behaviour is one of one component, scene says which, *)
(* and the instances share the variables x1, x2, ...  WaveWindow, which    *)
(* has proofs, is extended, with the constants of MCWindow.cfg; while      *)
(* another scene is on it stays where it starts.                           *)
(***************************************************************************)
EXTENDS WaveWindow

CONSTANTS b1, b2, b3, b4, w1, w2, home, work, spare, t1, t2, t3, t4, t5

VARIABLES scene, x1, x2, x3, x4, x5, x6, x7, x8, x9, x10,
          x11, x12, x13, x14, x15, x16, x17

xs == <<x1, x2, x3, x4, x5, x6, x7, x8, x9, x10,
        x11, x12, x13, x14, x15, x16, x17>>
vars == <<scene, windowVars, xs>>

\* (The sets have names so that TLC computes them once.)
FourBlocks == {b1, b2, b3, b4}
ThreeBlocks == {b1, b2, b3}
DragOps == {"create", "drag"}
UserOps == {"create", "close", "focus", "magnify", "ephemeral", "split", "replace"}
QueuedOps == {"drag"}
QueuedActions == {"insert", "insertatindex", "delete", "splitright", "splitdown", "replace"}
FailsOps == {"close", "resize"}
FailsActions == {"insert", "delete"}
LoadOps == {"create"}
LoadActions == {"insert", "delete", "splitleft", "insertephemeral", "save", "cleanup"}

\* Every tree of up to four blocks that creating and dragging can build.
Drag == INSTANCE LayoutModel WITH
  Blocks <- FourBlocks, MaxChildren <- 2, UserOps <- DragOps, BackendOps <- {},
  MaxActions <- 0, MaxReloads <- 0, MaxFailures <- 0,
  m <- x1, drag <- x2, runs <- x3, processed <- x4, tab <- x5, mounted <- x6,
  timer <- x7, saving <- x8, db <- x9, events <- x10, blocks <- x11, deleting <- x12,
  queued <- x13, used <- x14, loads <- x15, failures <- x16, astray <- x17

\* All that a user does with up to three blocks.
AllUses == INSTANCE LayoutModel WITH
  Blocks <- ThreeBlocks, MaxChildren <- 2, UserOps <- UserOps, BackendOps <- {},
  MaxActions <- 0, MaxReloads <- 0, MaxFailures <- 0,
  m <- x1, drag <- x2, runs <- x3, processed <- x4, tab <- x5, mounted <- x6,
  timer <- x7, saving <- x8, db <- x9, events <- x10, blocks <- x11, deleting <- x12,
  queued <- x13, used <- x14, loads <- x15, failures <- x16, astray <- x17

\* Actions the backend queues, met by a drag and by a deletion that fails.
Queued == INSTANCE LayoutModel WITH
  Blocks <- ThreeBlocks, MaxChildren <- 2, UserOps <- QueuedOps,
  BackendOps <- QueuedActions, MaxActions <- 3, MaxReloads <- 0, MaxFailures <- 1,
  m <- x1, drag <- x2, runs <- x3, processed <- x4, tab <- x5, mounted <- x6,
  timer <- x7, saving <- x8, db <- x9, events <- x10, blocks <- x11, deleting <- x12,
  queued <- x13, used <- x14, loads <- x15, failures <- x16, astray <- x17

\* Four inserts and deletes come while the user closes and resizes; a deletion fails.
Fails == INSTANCE LayoutModel WITH
  Blocks <- ThreeBlocks, MaxChildren <- 2, UserOps <- FailsOps,
  BackendOps <- FailsActions, MaxActions <- 4, MaxReloads <- 0, MaxFailures <- 1,
  m <- x1, drag <- x2, runs <- x3, processed <- x4, tab <- x5, mounted <- x6,
  timer <- x7, saving <- x8, db <- x9, events <- x10, blocks <- x11, deleting <- x12,
  queued <- x13, used <- x14, loads <- x15, failures <- x16, astray <- x17

\* A page load between queued actions, cleanups, saves and their answers.
Load == INSTANCE LayoutModel WITH
  Blocks <- ThreeBlocks, MaxChildren <- 2, UserOps <- LoadOps,
  BackendOps <- LoadActions, MaxActions <- 2, MaxReloads <- 1, MaxFailures <- 0,
  m <- x1, drag <- x2, runs <- x3, processed <- x4, tab <- x5, mounted <- x6,
  timer <- x7, saving <- x8, db <- x9, events <- x10, blocks <- x11, deleting <- x12,
  queued <- x13, used <- x14, loads <- x15, failures <- x16, astray <- x17

\* Workspace home has the tabs t1 and t2, work has t3, spare has t5; t4 may be created.
\* Window w1 shows home, and w2 shows work where there are two from the start.
TabsHeld == [s \in {home, work, spare} |-> CASE s = home -> <<t1, t2>> [] s = work -> <<t3>> [] s = spare -> <<t5>>]
FreeHome == [w \in {w1, w2} |-> IF w = w1 THEN home ELSE None]
TwoHomes == [w \in {w1, w2} |-> IF w = w1 THEN home ELSE work]

\* One window, whose cache holds one view: tabs are shown, created and closed.
UsesTabs == \/ \E w \in Windows, t \in Tabs : SetActiveTab(w, t) \/ CloseTab(w, t)
            \/ \E w \in Windows : CreateTab(w) \/ Close(w)
            \/ ClearTabCache
CacheInit == WindowInit /\ db.win = FreeHome /\ db.named = {home, work}
Cache == (UsesTabs \/ Others) /\ failures' = 0

\* A workspace is switched, opened in a second window or deleted; a call may fail.
UsesWorkspaces == \/ \E w \in Windows, t \in Tabs : SetActiveTab(w, t)
                  \/ \E w \in Windows, s \in {home, work} : SwitchWorkspace(w, s) \/ DeleteWorkspace(w, s)
SwitchInit == WindowInit /\ db.win = FreeHome /\ db.named = {work}
Switch == UsesWorkspaces \/ Others

\* Two windows share the cache: one is closed while its view is made.
UsesTwo == \/ \E w \in Windows, s \in Workspaces : SwitchWorkspace(w, s)
           \/ \E w \in Windows : Close(w)
PairInit == WindowInit /\ db.win = TwoHomes /\ db.named = {home, work}
Pair == (UsesTwo \/ Others) /\ ops' <= 2 /\ failures' = 0

\* A window leaves its workspace for the spare one and is still asked for a tab of it,
\* or is closed while it creates one; meanwhile the other window goes there.
Leaves == \/ ops = 0 /\ SwitchWorkspace(w1, spare)
          \/ ops = 1 /\ SetActiveTab(w1, t1)
          \/ ops = 2 /\ SwitchWorkspace(w2, home)
Ends == \/ ops = 0 /\ CreateTab(w1)
        \/ ops = 1 /\ Close(w1)
        \/ ops = 2 /\ SwitchWorkspace(w2, home)
LeaveInit == WindowInit /\ db.win = TwoHomes /\ db.named = Workspaces
Leave == (Leaves \/ Others) /\ failures' = 0
End == (Ends \/ Others) /\ failures' = 0

-----------------------------------------------------------------------------
Blank == /\ x1 = None /\ x2 = None /\ x3 = None /\ x4 = None /\ x5 = None /\ x6 = None
         /\ x7 = None /\ x8 = None /\ x9 = None /\ x10 = None /\ x11 = None /\ x12 = None
         /\ x13 = None /\ x14 = None /\ x15 = None /\ x16 = None /\ x17 = None

Init ==
  \/ scene = "drag" /\ Drag!Init /\ CacheInit
  \/ scene = "user" /\ AllUses!Init /\ CacheInit
  \/ scene = "queued" /\ Queued!Init /\ CacheInit
  \/ scene = "fails" /\ Fails!Init /\ CacheInit
  \/ scene = "load" /\ Load!Init /\ CacheInit
  \/ scene = "cache" /\ CacheInit /\ Blank
  \/ scene = "switch" /\ SwitchInit /\ Blank
  \/ scene = "pair" /\ PairInit /\ Blank
  \/ scene \in {"leave", "end"} /\ LeaveInit /\ Blank

Next ==
  \/ scene = "drag" /\ Drag!Next /\ UNCHANGED <<scene, windowVars>>
  \/ scene = "user" /\ AllUses!Next /\ UNCHANGED <<scene, windowVars>>
  \/ scene = "queued" /\ Queued!Next /\ UNCHANGED <<scene, windowVars>>
  \/ scene = "fails" /\ Fails!Next /\ UNCHANGED <<scene, windowVars>>
  \/ scene = "load" /\ Load!Next /\ UNCHANGED <<scene, windowVars>>
  \/ scene = "cache" /\ Cache /\ UNCHANGED <<scene, xs>>
  \/ scene = "switch" /\ Switch /\ UNCHANGED <<scene, xs>>
  \/ scene = "pair" /\ Pair /\ UNCHANGED <<scene, xs>>
  \/ scene = "leave" /\ Leave /\ UNCHANGED <<scene, xs>>
  \/ scene = "end" /\ End /\ UNCHANGED <<scene, xs>>

Spec == Init /\ [][Next]_vars

-----------------------------------------------------------------------------
(* Properties: those of the windows are stated in WaveWindow. *)

\* Every block of the tab is shown, being closed or about to be shown, and every
\* leaf shows a block that exists, is being closed or is about to go.
BlocksShown ==
  /\ scene = "fails" => Fails!BlocksShown /\ Fails!NoGhostLeaf
  /\ scene = "load" => Load!BlocksShown /\ Load!NoGhostLeaf
  /\ scene = "queued" => Queued!NoGhostLeaf

\* The stack of focused nodes and the tree agree on a focus that is shown, and
\* only a leaf beside another one is magnified.
FocusAgrees ==
  /\ scene = "user" => AllUses!FocusAgrees /\ AllUses!MagnifiedShown
  /\ scene = "queued" => Queued!FocusAgrees

\* Whatever leaf is dropped on whatever edge of another one ends up on that side
\* of it, and balanceNode leaves nothing to balance.
DropLands == scene = "drag" => Drag!DropLands /\ Drag!Balanced
=============================================================================
