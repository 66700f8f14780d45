SPECIFICATION FairSpec

CONSTANTS
  Runs = {"r1", "r2"}
  Wanted = 2
  MaxFaults = 2
  Leftovers = TRUE

INVARIANT ReplacedBeforeRemoved
INVARIANT SuccessMeansAvailable
PROPERTY OnlyLastActScalesUp
PROPERTY EveryClusterServed
