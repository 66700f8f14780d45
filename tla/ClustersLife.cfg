SPECIFICATION Spec

CONSTANTS
  Scenarios <- MCScenarios
  Networks = 2
  MaxFaults = 2

INVARIANT SuccessIsComplete
INVARIANT AuthorizedUnlessRaced
INVARIANT DeletedMeansGone
INVARIANT CreatorCanDestroy
PROPERTY OthersKueueKept
PROPERTY OwnClusterOnly
PROPERTY Recovers
