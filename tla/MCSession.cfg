SPECIFICATION Spec
CONSTANTS
  Changeable <- MCChangeable
  Values <- MCValues
  NoLabel = NoLabel
  MaxSets = 4
  MaxChanges = 2
INVARIANTS
  TypeOK
  StrictPlansConform
PROPERTY
  LevelNeverRises
CHECK_DEADLOCK FALSE
