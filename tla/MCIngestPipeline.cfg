\* Two incidents and an answer with room for one, two instants, one fault.  The
\* incidents are alike, so alerts and the arrival are watched on one of them; no
\* symmetry, a liveness property is checked.
SPECIFICATION FairSpec
CONSTANTS
  i1 = i1
  i2 = i2
  None = None
  Incident = {i1, i2}
  Watched = {i1}
  Reported = {"under_investigation"}
  Settable = {"resolved"}
  PageSize = 1
  MaxTime = 2
  MaxAlerts = 1
  MaxFaults = 1
INVARIANTS
  NothingForgotten
PROPERTIES
  MirrorSpec
  VisibleIsStored
