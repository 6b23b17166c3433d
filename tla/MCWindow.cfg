SPECIFICATION Spec
CONSTANTS
  None = None  b1 = b1  b2 = b2  b3 = b3  b4 = b4
  w1 = w1  w2 = w2  home = home  work = work  spare = spare  t1 = t1  t2 = t2  t3 = t3  t4 = t4  t5 = t5
\* scenes "cache", "switch", "pair", "leave" and "end"
  Windows = {w1, w2}  Workspaces = {home, work, spare}  Tabs = {t1, t2, t3, t4, t5}  Views = {1, 2, 3, 4}
  Held <- TabsHeld  MaxCacheSize = 1  MaxOps = 3  MaxFailures = 1
  Ops = {"switchtab", "createtab", "closetab", "close", "clear", "switchworkspace", "deleteworkspace"}
INVARIANTS
  BlocksShown FocusAgrees DropLands ShownIsLive ShowsActiveTab
CHECK_DEADLOCK FALSE
