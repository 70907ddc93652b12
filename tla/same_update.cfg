SPECIFICATION Spec
CONSTANTS
  None = None
  ann = ann  bob = bob
  l1 = l1  c1 = c1  h1 = h1  h2 = h2  a1 = a1  a2 = a2
  Email = {ann, bob}
  Lead = {l1}
  Creates = {}
  Changes = {h1, h2}
  Assigns = {}
  Request = {h1, h2}
  Roster <- MCRoster
  FallbackAttorney = ann
  Faults = {}
INVARIANTS
  NoTwoSameUpdates
CHECK_DEADLOCK FALSE
