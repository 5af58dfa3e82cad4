SPECIFICATION Spec
CONSTANTS
  a1 = a1
  a2 = a2
  a3 = a3
  a4 = a4
  NumLabels = 3
  Groups <- MCGroups
  AidInstances = {1}
  Aids <- MCAids
  ChildTuples <- MCChildTuples
  Threshold <- MCThreshold
  MinThreshold = 2
  AnonCount <- MCAnonCount
  Having <- MCHaving
  HasLowCount = TRUE
  ExpandBuckets = FALSE
  NoBucket = NoBucket
  Star = Star
  MaxRescans = 0
INVARIANTS
  TypeOK
  EmittedHighCount
  NoMergeChains
  NoDoubleCount
  StarCoversSuppressed
  LedMatchesReference
