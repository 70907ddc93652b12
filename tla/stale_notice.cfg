SPECIFICATION PortalSpec
CONSTANTS
  None = None
  ann = ann  l1 = l1  c1 = c1  c2 = c2  h1 = h1  p1 = p1  q1 = q1
  Email = {ann}
  Lead = {l1, c1, c2}
  Creates = {c1, c2}
  Changes = {}
  Assigns = {}
  Request = {c1, c2}
  Roster <- MCRoster
  FallbackAttorney = ann
  Faults = {"save"}
  Readers = {}
  Applicant = {p1}
  MAX_RESUME_BYTES = 4
  max_resume_bytes = 4
  BODY_LIMIT = 2
INVARIANTS
  NoticeIsTrue
CHECK_DEADLOCK FALSE
