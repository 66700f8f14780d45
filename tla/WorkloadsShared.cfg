SPECIFICATION Spec

CONSTANTS
  short = short
  long = long
  p1 = p1
  p2 = p2
  u1 = u1
  u2 = u2
  NoName = NoName
  Procs <- MCProcs
  Names <- MCNames
  StartWith <- MCStartWith
  Contain <- MCStartWith
  Uids <- MCUids2
  CommandLines <- MCCommandLines
  Pathways = TRUE
  MaxFaults = 1

SYMMETRY Symmetry

INVARIANT TypeOK
PROPERTY SuccessMeansGone
PROPERTY ZeroMeansCompleted
PROPERTY OnlyAgreed
