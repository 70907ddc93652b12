SPECIFICATION Spec
CONSTANTS
  None = None
  ann = ann  bob = bob
  l1 = l1  c1 = c1  h1 = h1  h2 = h2  a1 = a1  a2 = a2
  Email = {ann, bob}
  Lead = {c1}
  Creates = {c1}
  Changes = {h1, h2}
  Assigns = {a1}
  Request = {c1, h1, h2, a1}
  Roster <- MCRoster
  FallbackAttorney = ann
  Faults = {"save", "disk", "choose", "write", "ack", "delete", "refresh", "mail", "die"}
SYMMETRY MCSymmetry
INVARIANTS
  TypeOK
  RepliesMatchTrail
  OneWinner
  MailIsTruthful
  StatusMailIsCurrent
  AcceptedHasResume
  IInv
PROPERTIES
  ImplementsLifecycle
CHECK_DEADLOCK FALSE
