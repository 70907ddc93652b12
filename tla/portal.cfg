SPECIFICATION PortalSpec
CONSTANTS
  None = None
  ann = ann  l1 = l1  c1 = c1  c2 = c2  h1 = h1  p1 = p1  q1 = q1
  Email = {ann}
  Lead = {l1, c1, c2}
  Creates = {c1, c2}
  Changes = {h1}
  Assigns = {}
  Request = {c1, c2, h1}
  Roster <- MCRoster
  FallbackAttorney = ann
  Faults = {"save", "disk", "choose", "write", "ack", "delete", "refresh", "die"}
  Readers = {q1}
  Applicant = {p1}
  MAX_RESUME_BYTES = 4
  max_resume_bytes = 4
  BODY_LIMIT = 2
SYMMETRY MCSymmetry
INVARIANTS
  PortalTypeOK
  FormMirrorsApi
  ThankedIsStored
  NothingWasSaved
  AnsweredNoticeIsTrue
  RetriedOnlyInDoubt
  TimelineExplainsState
  DownloadIsWhole
CHECK_DEADLOCK FALSE
