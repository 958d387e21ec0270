SPECIFICATION Spec
CONSTANTS
  ThreadCounts = {1, 2}
  Queues <- MCQueues
  FlagCount = 3
  CiBytes = 4
  ResultBytes = 2
  MaxTime = 3
INVARIANTS
  PhasesFitEval
  StagesFitTotal
  OnlineCoversWindow
  OnlineWithinCalls
CHECK_DEADLOCK FALSE
