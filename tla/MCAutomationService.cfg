SPECIFICATION ServiceFairSpec
CHECK_DEADLOCK FALSE
CONSTANTS
  None = None
  Listener = evaluator
  Cron = cron
  Wf = {a, b}
  Existing = {a}
  Caller = {r1, r2}
  Sched = {s1, s2, s3}
  Batch = 2
  MaxEdits = 3
  MaxRequests = 3
  Workflow <- MCWorkflow
  WfNode <- MCNode
  Of <- MCOf
  Typing <- MCTyping
  Edge <- MCEdge
  Retry <- MCRetry
  OnError <- MCOnError
  Calls <- MCCalls
  MaxDepth = 1
  MaxExec = 3
  MaxErrors = 2
INVARIANTS
  GraphIsWhole
  DryRunTouchesOnlyDesks
  RepeatNeedsLostAnswer
  ChainNeedsPause
PROPERTIES
  RunIsOfOneGraph
  LateStartNeedsChoice
  DueFires
  RunEnds
