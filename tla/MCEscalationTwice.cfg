\* Two workers, no failures: what one worker does to the other's batch.
SPECIFICATION Spec
CONSTANTS
  i1 = i1
  i2 = i2
  w1 = w1
  w2 = w2
  p1 = p1
  q1 = q1
  None = None
  Incident = {i1, i2}
  Worker = {w1, w2}
  Poller = {}
  Request = {q1}
  MaxLevel = 2
  Timed = {1, 2}
  Settable = {"resolved"}
  MaxSends = 2
  MaxCrashes = 0
PROPERTIES
  EscalatesFromCurrentLevel
