SPECIFICATION MCSpec
CONSTANTS
  None = None  Nothing = Nothing  All = All  Upstream = Upstream  route1 = route1
\* scene "connections"
  Conns = {c1, c2}  MaxHandlers = 2
\* scene "turns"
  Conversations = {chat}  CallIds = {tool1, tool2}  MaxManagers = 1  MaxIpcCalls = 2
  MaxAgentRequests = 5  MaxPermissions = 2  Detached = TRUE
\* scene "link"
  Routes = {route1, route2}  Subscribers = {sub1, sub2}  Broad = {sub2}
  MaxOps = 3  MaxFaults = 3  GiveUp = 1  MayShutdown = TRUE
\* scene "calls"
  Clients = {page1, page2}  RpcKinds = {"call", "stream"}
  MaxRequests = 2  MaxParts = 0  MaxLost = 1  MayCancel = TRUE
\* scene "store"
  Objects = {block}  MaxWrites = 2  MaxStoreCalls = 2  MaxStoreFailures = 1
\* scene "editor"
  Files = {settings, widgets}  Settings = settings  Names = {name1, name2}  Vault = Vault
  MaxEdits = 1  MaxEditorCalls = 4  MaxEditorFailures = 1
INVARIANTS
  NoLostChange NothingWaitsInVain PermissionAnsweredOnce CallsOnce BackendAgrees
  WaitingIsRouted ObjectsCurrent EditorAgrees
CHECK_DEADLOCK FALSE
