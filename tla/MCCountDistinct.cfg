SPECIFICATION FairSpec
CONSTANTS
  Values = {1, 2, 3}
  Aids = {1, 2}
  Instances = 2
  Threshold <- MCThreshold
  MinThreshold = 2
  MinContributors = 2
  TopCapacity = 2
  NoEntry = NoEntry
  MaxRows = 3
INVARIANTS
  TypeOK
  CountedForOneOfItsAids
  TakenInTurn
PROPERTIES
  FinalizeReturns
CHECK_DEADLOCK FALSE
