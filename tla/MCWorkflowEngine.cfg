\* Two executions of a cyclic workflow, two requests and the evaluator.
SPECIFICATION FairSpec
CONSTANTS
  e1 = e1
  e2 = e2
  q1 = q1
  q2 = q2
  ev = ev
  a = a
  b = b
  c = c
  g = g
  h = h
  w = w
  None = None
  Node <- MCNode
  Kind <- MCKind
  Succ <- MCSucc
  Trigger = {a}
  Exec = {e1, e2}
  Request = {q1, q2}
  Evaluator = ev
  MaxTicket = 3
  MaxInputs = 4
  MaxAborts = 1
CHECK_DEADLOCK FALSE
INVARIANTS
  WaitsForAnswer
  RepeatedActionNeedsCause
PROPERTIES
  EveryRequestEnds
