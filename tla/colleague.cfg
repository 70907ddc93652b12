SPECIFICATION QueueSpec
CONSTANTS
  None = None
  ann = ann  bob = bob
  ta = ta  tb = tb
  l1 = l1  l2 = l2  c1 = c1  h1 = h1  h2 = h2  a1 = a1  a2 = a2
  Email = {ann, bob}
  Lead = {l1}
  Creates = {}
  Changes = {}
  Assigns = {a1, a2}
  Request = {a1, a2}
  Roster <- MCRoster
  FallbackAttorney = ann
  Faults = {}
  Older <- MCOlder
  PAGE_SIZE = 1
  Tab = {ta, tb}
  User <- MCUser
  Clicks = {a1, a2}
  Views = {"all", "PENDING"}
  MaxViews <- MCViews
INVARIANTS
  NoTakeover
CHECK_DEADLOCK FALSE
