SPECIFICATION WalkSpec
CHECK_DEADLOCK FALSE
CONSTANTS
  Workflow <- MCWorkflow
  WfNode <- MCNode
  Of <- MCOf
  Typing <- MCTyping
  Edge <- MCEdge
  Retry <- MCRetry
  OnError <- MCOnError
  Calls <- MCCalls
  MaxDepth = 1
  MaxExec = 3
  MaxErrors = 2
  None = None
INVARIANT
  DryRunHasNoEffect
