SPECIFICATION Spec
CONSTANTS
  Instances = 2
  Contributions = {1, 3}
  Unaccounted = {0, 2}
  MaxContributors = 4
  Settings <- MCSettings
  Noises = {0, 2}
  Garbage <- MCGarbage
  Scale = 12
  MaxChanges = 1
INVARIANTS
  TypeOK
  IntervalsFit
  OutliersAreHidden
  LargestIsAccumulated
  CompactingIsPossible
CHECK_DEADLOCK FALSE
