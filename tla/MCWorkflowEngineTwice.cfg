\* Two gates in a row, two people who decide.
SPECIFICATION Spec
CONSTANTS
  e1 = e1
  e2 = e2
  q1 = q1
  q2 = q2
  ev = ev
  a = a
  b = b
  c = c
  g = g
  h = h
  w = w
  None = None
  Node <- MCNodeGates
  Kind <- MCKindGates
  Succ <- MCSuccGates
  Trigger = {g}
  Exec = {e1}
  Request = {q1, q2}
  Evaluator = ev
  MaxTicket = 3
  MaxInputs = 4
  MaxAborts = 0
CHECK_DEADLOCK FALSE
PROPERTIES
  ActsAfterApproval
