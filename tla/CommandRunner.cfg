SPECIFICATION FairSpec

CONSTANTS
  N = 5
  Batch = 2

INVARIANT AtMostBatchRun
INVARIANT BatchesInOrder
INVARIANT ReportIsComplete
PROPERTY RunsAllCommands
PROPERTY Returns
CHECK_DEADLOCK FALSE
