SPECIFICATION FairSpec
CONSTANTS
  a1 = a1
  a2 = a2
  a3 = a3
  Unknown = Unknown
  NumLabels = 1
  Groups <- MCGroups
  AidInstances = {1, 2}
  Aids <- MCAids
  ChildTuples <- MCChildTuples
  Threshold <- MCThreshold
  MinThreshold = 2
  AnonCount <- MCAnonCount
  Having <- MCHaving
  HasLowCount = TRUE
  ExpandBuckets = TRUE
  NoBucket = NoBucket
  Star = Star
  MaxRescans = 2
PROPERTIES
  IsResultCursor
  CallReturns
