\* Two incidents in a batch, two workers, a poller, one manual send at a time; no
\* symmetry, a liveness property is checked.
SPECIFICATION FairSpec
CONSTANTS
  i1 = i1
  i2 = i2
  w1 = w1
  w2 = w2
  p1 = p1
  q1 = q1
  None = None
  Incident = {i1, i2}
  Worker = {w1, w2}
  Poller = {p1}
  Request = {q1}
  MaxLevel = 2
  Timed = {1, 2}
  Settable = {"resolved"}
  MaxSends = 2
  MaxCrashes = 1
INVARIANTS
  LockedCopyIsCurrent
  HoldersNeverWait
  EscalationClimbs
PROPERTIES
  OverdueIsHandled
