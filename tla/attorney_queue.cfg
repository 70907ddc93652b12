SPECIFICATION QueueSpec
CONSTANTS
  None = None
  ann = ann  bob = bob
  ta = ta  tb = tb
  l1 = l1  l2 = l2  c1 = c1  h1 = h1  h2 = h2  a1 = a1  a2 = a2
  Email = {ann}
  Lead = {l1, l2, c1}
  Creates = {c1}
  Changes = {h1, h2}
  Assigns = {a1}
  Request = {c1, h1, h2, a1}
  Roster <- MCOneRoster
  FallbackAttorney = ann
  Faults = {}
  Older <- MCOlder2
  PAGE_SIZE = 1
  Tab = {ta}
  User <- MCUser
  Clicks = {h1, a1}
  Views = {"all"}
  MaxViews <- MCViews3
INVARIANTS
  QueueTypeOK
  WalkMissesNothing
  ToldTheTruth
  RefusedBecauseDone
  StaleRowGone
CONSTRAINTS
  MCThreeRequests
CHECK_DEADLOCK FALSE
