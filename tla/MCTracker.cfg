SPECIFICATION Spec
CONSTANTS
  b1 = b1
  b2 = b2
  Buckets = {b1, b2}
  Aggregates = {"count", "sum"}
  Aids = {1, 2, 3}
  Summands <- FewSummands
  NullValue = NullValue
  Capacities = {2, 3}
  IntLimit = 8
  NotSeen = NotSeen
  NoMerge = NoMerge
  MaxRows = 4
  MaxMerges = 2
SYMMETRY Symmetry
INVARIANTS
  TypeOK
  TopWellFormed
  TrackerIsSumOfRows
  RowsAddUp
CHECK_DEADLOCK FALSE
