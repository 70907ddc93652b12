SPECIFICATION FairSpec
CONSTANTS
  None = None
  ann = ann  bob = bob
  l1 = l1  c1 = c1  h1 = h1  h2 = h2  a1 = a1  a2 = a2
  Email = {ann, bob}
  Lead = {l1, c1}
  Creates = {c1}
  Changes = {h1}
  Assigns = {a1}
  Request = {c1, h1, a1}
  Roster <- MCNoRoster
  FallbackAttorney = ann
  Faults = {"save", "write", "refresh"}
INVARIANTS
  CommittedHasResume
  NoLeakOnError
PROPERTIES
  Answered
  SuccessIsMailed
CHECK_DEADLOCK FALSE
