SPECIFICATION Spec

CONSTANTS
  ClusterNames <- MCClusterNames
  WorkloadNames <- MCClusterNames
  Clusters <- MCClusters
  Requests <- MCRequests
  MaxCount = 4
  MaxRuns = 1
  MaxResizes = 2
  Resizes = {1, 3}
  Flaky = TRUE

INVARIANT AcceptedCanRun
INVARIANT RefusedCannotRun
INVARIANT RecordNamesTheSystem
CHECK_DEADLOCK FALSE
