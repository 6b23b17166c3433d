SPECIFICATION Spec
CONSTANTS
  None = None  chat = chat  tool1 = tool1  tool2 = tool2  mode = mode  model1 = model1  model2 = model2
  page2 = page2
\* scene "overlap"
  Conversations = {chat}  CallIds = {tool1}  MaxManagers = 2  MaxIpcCalls = 3
  MaxAgentRequests = 2  MaxPermissions = 0  Detached = TRUE
\* scenes "terminal" and "clear"
  MaxOutput = 3  MaxFile = 1  MaxOpens = 3  MinProcessed = 1  MaxTruncates = 1  MaxQuits = 1
\* scenes "one page" and "two pages"
  Pages = {page1, page2}  Backend = Backend  Orefs = {block}  Priorities = {1, 2}
  NoBadge = NoBadge  MaxEvents = 3
\* scenes "view", "view fails", "app" and "modal"
  Absent = Absent  Modals = {modal1, modal2}  MaxInputs = 2  MaxChanges = 1  MaxEffects = 1
  MaxFaults = 1  MaxChunks = 2
INVARIANTS
  NoOrphanAgent  ShowsFile ViewAgrees AppAgrees BadgesAgree
CHECK_DEADLOCK FALSE
