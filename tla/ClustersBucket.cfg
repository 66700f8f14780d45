SPECIFICATION Spec

CONSTANTS
  Scenarios <- Toolkits
  Networks = 1
  MaxFaults = 2

INVARIANT BucketHasState
