SPECIFICATION FairSpec
CONSTANTS
  None = None  c1 = c1  c2 = c2  chat = chat  tool = tool  b1 = b1  b2 = b2
  route1 = route1  route2 = route2  sub1 = sub1  All = All
  Upstream = Upstream
  w1 = w1  home = home  work = work  t1 = t1  t2 = t2  t3 = t3  t4 = t4
\* scene "calls"
  Clients = {page1, page2}  RpcKinds = {"call", "stream"}
  MaxRequests = 1  MaxParts = 2  MaxLost = 1  MayCancel = TRUE
INVARIANT InOrder
PROPERTIES
  StatusActedOn CallsReturn RunningEnds LayoutSettles ComesBack CallsSettle Progress Loads
  EventuallyShown GoneIsClosed
CHECK_DEADLOCK FALSE
