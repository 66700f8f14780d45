SPECIFICATION Spec

CONSTANTS
  Blocks <- MCBlocks
  FreeHosts <- MCFreeHosts
  Required = 2
  MaxNeeded = 4
  MaxLinks = 2
  Modes <- AllModes
  MaxChanges = 1

INVARIANT TypeOK
INVARIANT EveryPoolHasTarget
INVARIANT NoDoubleCounting
INVARIANT PoolsFit
INVARIANT RefusesOnlyWhatDoesNotFit
CHECK_DEADLOCK FALSE
