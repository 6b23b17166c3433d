---------------------------- MODULE MCAgreement ----------------------------
(***************************************************************************)
(* Small instances of the components in which two records of one thing     *)
(* have to agree: what a connection is and what was done for it, an        *)
(* agent's requests and the calls that wait for them, the routes, calls    *)
(* and subscriptions of a page and of the backend, open requests and their *)
(* routes, and a page's copies of objects, files and secrets.              *)
(*                                                                         *)
(* As in MCMessages a behaviour is one of one component, and scene says    *)
(* which.  All are extended, with the constants of MCAgreement.cfg: their  *)
(* properties are checked as they are stated and proved, and while another *)
(* scene is on they stay where they start.                                 *)
(*                                                                         *)
(* Scene "connections" (ConnReconcile): two connections that change at any *)
(* time, two handlers between their unlock and their signal.  "turns"      *)
(* (AcpAgent): an agent with two overlapping calls and two permission      *)
(* requests, of one tool call or of two.  "link" (PageLink): two clients   *)
(* and two subscribers, three of their calls and three broken sockets.     *)
(* "calls" (WshRpc): two requests, each answered at once or not at all,    *)
(* and one loss.  "store" (WaveObjectStore): two changes of an object, in  *)
(* events and in answers, and a call that fails.  "editor" (ConfigEditor): *)
(* two files, two secrets, an edit and four calls, one of which may fail.  *)
(***************************************************************************)
EXTENDS ConnReconcile, AcpAgent, PageLink, WshRpc, WaveObjectStore, ConfigEditor

CONSTANT route1

VARIABLE scene

mcVars == <<scene, vars, agentVars, linkVars, rpcVars, storeVars, editorVars>>

\* Of a component that stays where it starts one initial state is enough.
MCInit ==
  /\ Init /\ AgentInit /\ LinkInit /\ RpcInit /\ StoreInit /\ EditorInit
  /\ scene \in {"connections", "turns", "link", "calls", "store", "editor"}
  /\ scene = "link" \/ routes = {route1}
  /\ scene = "editor" \/ secrets = [s \in Names |-> Nothing]

MCNext ==
  \/ /\ scene = "connections" /\ Next
     /\ UNCHANGED <<scene, agentVars, linkVars, rpcVars, storeVars, editorVars>>
  \/ /\ scene = "turns" /\ AgentNext
     /\ UNCHANGED <<scene, vars, linkVars, rpcVars, storeVars, editorVars>>
  \/ /\ scene = "link" /\ LinkNext
     /\ UNCHANGED <<scene, vars, agentVars, rpcVars, storeVars, editorVars>>
  \/ /\ scene = "calls" /\ RpcNext
     /\ UNCHANGED <<scene, vars, agentVars, linkVars, storeVars, editorVars>>
  \/ /\ scene = "store" /\ StoreNext
     /\ UNCHANGED <<scene, vars, agentVars, linkVars, rpcVars, editorVars>>
  \/ /\ scene = "editor" /\ EditorNext
     /\ UNCHANGED <<scene, vars, agentVars, linkVars, rpcVars, storeVars>>

MCSpec == MCInit /\ [][MCNext]_mcVars
=============================================================================
