SPECIFICATION Spec
CONSTANTS
  None = None
  ann = ann  bob = bob
  l1 = l1  c1 = c1  h1 = h1  h2 = h2  a1 = a1  a2 = a2
  Email = {ann, bob}
  Lead = {c1}
  Creates = {c1}
  Changes = {}
  Assigns = {}
  Request = {c1}
  Roster <- MCRoster
  FallbackAttorney = ann
  Faults = {"choose"}
INVARIANTS
  NoLeakOnError
CHECK_DEADLOCK FALSE
