SPECIFICATION FairSpec
CONSTANTS
  Aids = {1, 2, 3}
  Null = Null
  Instances = 2
  CountedAid = 2
  Rows <- MCRows
  Buckets = {b1, b2}
  Threshold <- MCThreshold
  Noise <- MCNoise
  MinThreshold = 2
  Width = 3
  BinSizes = {0, 1, 2, 8}
  MaxRows = 5
INVARIANTS
  TypeOK
  LabelsAscend
  AcceptedBinSizesDivide
PROPERTIES
  ImplementsHistogram
  FinalizeReturns
CHECK_DEADLOCK FALSE
