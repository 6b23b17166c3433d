----------------------------- MODULE MCMessages -----------------------------
(***************************************************************************)
(* Small instances of the components that exchange messages: agents, their *)
(* chat sessions, the terminal, the views of apps and the badges.          *)
(*                                                                         *)
(* They share no state, so a behaviour is one of one component: scene says *)
(* which.  AcpAgent, TermWrap, Badges, VDomModel and TsunamiModel, which   *)
(* have proofs, are extended, with the constants of MCMessages.cfg; while  *)
(* another scene is on they stay where they start, and a scene narrows     *)
(* what its component does.  The instances of AcpSession share the         *)
(* variables x1, x2, ..., which are None in the other scenes.              *)
(* AcpAgent's scene "overlap" is two managers of one conversation, so that *)
(* a second initialization meets the calls and the late output of the      *)
(* first agent, and three calls that overlap.                              *)
(***************************************************************************)
EXTENDS AcpAgent, TermWrap, Badges, VDomModel, TsunamiModel

CONSTANTS chat, tool1, tool2, mode, model1, model2, page2

VARIABLES scene, x1, x2, x3, x4, x5, x6, x7, x8

xs == <<x1, x2, x3, x4, x5, x6, x7, x8>>
extendedVars == <<agentVars, termVars, badgesVars, vdomVars, appVars>>
vars == <<scene, extendedVars, xs>>

\* A chat and its agent over a page load.
Session == INSTANCE AcpSession WITH
  Conversations <- {chat}, CallIds <- {}, NoMode <- None,
  Modes <- {}, Models <- {},
  MaxCalls <- 3, MaxPermissions <- 0, MaxReports <- 0, MaxReloads <- 1,
  store <- x1, hydration <- x2, saved <- x3, agents <- x4, calls <- x5, mail <- x6,
  reloads <- x7, clouded <- x8

\* The settings of a chat over a page load; its status is left to the scene above, and of two
\* models, which are alike, the agent reports the first.
Settings == INSTANCE AcpSession WITH
  Conversations <- {chat}, CallIds <- {}, NoMode <- None,
  Modes <- {mode}, Models <- {model1, model2},
  MaxCalls <- 2, MaxPermissions <- 0, MaxReports <- 1, MaxReloads <- 1,
  store <- x1, hydration <- x2, saved <- x3, agents <- x4, calls <- x5, mail <- x6,
  reloads <- x7, clouded <- x8

SettingsNext == /\ Settings!Next
                /\ \A i \in DOMAIN x5' : x5'[i].kind # "send"
                /\ x4'[chat].model = model2 => x4[chat].model # None

\* Two permission requests of a chat, and the choices of the user.
TwoChoices == INSTANCE AcpSession WITH
  Conversations <- {chat}, CallIds <- {tool1, tool2}, NoMode <- None,
  Modes <- {}, Models <- {},
  MaxCalls <- 2, MaxPermissions <- 2, MaxReports <- 0, MaxReloads <- 0,
  store <- x1, hydration <- x2, saved <- x3, agents <- x4, calls <- x5, mail <- x6,
  reloads <- x7, clouded <- x8

\* Two inputs of an app's page, a change and an effect of the app; one request fails,
\* or the app restarts, or the page is loaded again.
App == AppNext /\ displayed' = {} /\ ~Break /\ ~StreamFull

\* Two modals of an app, one input and a fault.
Modal == AppNext /\ appCount'.inputs <= 1 /\ appCount'.changes = 0 /\ appCount'.effects = 0

\* The view of an app that is reached through a route, with answers of two chunks.
View == VDomNext /\ vdomCount'.faults = 0

\* The view of an app that ends or panics, or whose answer is cut: of one chunk, and
\* before the first input of two.
ViewFails == /\ VDomNext /\ vdomCount'.inputs <= 1
             /\ request' # Absent => request'.chunks <= 2 - vdomCount'.inputs

\* A terminal that is opened three times over two pieces of output or twice over three,
\* and one whose file is cleared.
Terminal == TermNext /\ truncates' = 0 /\ output' + opens' <= 5
Clear == TermNext /\ output' <= 2 /\ opens' <= 2

\* Badges of one block and of two priorities: three events while one page opens and
\* the other does not, and two events while both open.
OnePage == BadgesNext /\ phase'[page2] = "new"
TwoPages == BadgesNext /\ made' <= 2

-----------------------------------------------------------------------------
Blank == x1 = None /\ x2 = None /\ x3 = None /\ x4 = None /\ x5 = None /\ x6 = None /\ x7 = None /\ x8 = None

\* Of a view that stays where it starts one initial state is enough.
Init ==
  /\ AgentInit /\ TermInit /\ BadgesInit /\ VDomInit /\ AppInit
  /\ \/ scene = "session" /\ Session!Init
     \/ scene = "settings" /\ Settings!Init
     \/ scene = "choices" /\ TwoChoices!Init
     \/ /\ scene \in {"overlap", "terminal", "clear", "view", "view fails", "app", "modal",
                      "one page", "two pages"}
        /\ Blank
  /\ scene \in {"view", "view fails"} \/ (waveApp.up /\ view.persist)

Next ==
  /\ UNCHANGED scene
  /\ \/ scene = "session" /\ Session!Next /\ UNCHANGED extendedVars
     \/ scene = "settings" /\ SettingsNext /\ UNCHANGED extendedVars
     \/ scene = "choices" /\ TwoChoices!Next /\ UNCHANGED extendedVars
     \/ scene = "overlap" /\ AgentNext /\ UNCHANGED <<xs, termVars, badgesVars, vdomVars, appVars>>
     \/ scene = "terminal" /\ Terminal /\ UNCHANGED <<xs, agentVars, badgesVars, vdomVars, appVars>>
     \/ scene = "clear" /\ Clear /\ UNCHANGED <<xs, agentVars, badgesVars, vdomVars, appVars>>
     \/ scene = "one page" /\ OnePage /\ UNCHANGED <<xs, agentVars, termVars, vdomVars, appVars>>
     \/ scene = "two pages" /\ TwoPages /\ UNCHANGED <<xs, agentVars, termVars, vdomVars, appVars>>
     \/ scene = "view" /\ View /\ UNCHANGED <<xs, agentVars, termVars, badgesVars, appVars>>
     \/ scene = "view fails" /\ ViewFails /\ UNCHANGED <<xs, agentVars, termVars, badgesVars, appVars>>
     \/ scene = "app" /\ App /\ UNCHANGED <<xs, agentVars, termVars, badgesVars, vdomVars>>
     \/ scene = "modal" /\ Modal /\ UNCHANGED <<xs, agentVars, termVars, badgesVars, vdomVars>>

Spec == Init /\ [][Next]_vars

-----------------------------------------------------------------------------
(* Properties: those of agents, the terminal, badges and the views of apps are *)
(* stated in AcpAgent, TermWrap, Badges, VDomModel and TsunamiModel.           *)

=============================================================================
