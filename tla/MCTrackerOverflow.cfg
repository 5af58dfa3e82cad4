SPECIFICATION Spec
CONSTANTS
  b1 = b1
  b2 = b2
  Buckets = {b1}
  Aggregates = {"sum"}
  Aids = {1, 2, 3}
  Summands = {1, 3}
  NullValue = NullValue
  Capacities = {3}
  IntLimit = 4
  NotSeen = NotSeen
  NoMerge = NoMerge
  MaxRows = 4
  MaxMerges = 0
SYMMETRY Symmetry
INVARIANTS
  EntriesNeverMoveDown
CHECK_DEADLOCK FALSE
