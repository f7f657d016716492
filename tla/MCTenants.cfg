\* Two tenants, one connector, a mail group of two rows.
SPECIFICATION FairSpec
CONSTANTS
  a1 = a1
  a2 = a2
  c1 = c1
  c2 = c2
  m1 = m1
  m2 = m2
  r1 = r1
  r2 = r2
  None = None
  Tenant = {a1, a2}
  Connector = {c1}
  Row = {m1, m2}
  Request = {r1, r2}
  MaxOps = 2
  MaxFaults = 1
CHECK_DEADLOCK FALSE
INVARIANTS
  JobsAreCurrent
  CascadesAreWhole
  GroupIsWhole
  WrongNeedsCommit
PROPERTIES
  EnabledIsPolled
