\* One incident re-rated, answered, closed and reopened while the checkers of two
\* worker processes scan it; no symmetry, a liveness property is checked.
SPECIFICATION FairSpec
CONSTANTS
  i1 = i1
  c1 = c1
  c2 = c2
  h1 = h1
  None = None
  Incident = {i1}
  Handler = {h1}
  Checker = {c1, c2}
  Severity = {"high", "medium", "low"}
  TargetMin <- MCTargetMin
  Covered = {i1}
  Requestable = {"new", "resolved"}
  Time = {0, 4}
  MaxAborts = 1
INVARIANTS
  BreachEventsAgree
  RepeatedMailNeedsRollback
PROPERTIES
  LedgerSpec
  NoResolutionWarningAfterBreach
  OverdueIsFlagged
