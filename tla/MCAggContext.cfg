SPECIFICATION Spec
CONSTANTS
  scan1 = scan1
  scan2 = scan2
  plain1 = plain1
  count = count
  sum = sum
  Scans = {scan1, scan2}
  Plains = {plain1}
  Aggrefs <- MCAggrefs
  MaxErrors = 1
  NULL = NULL
  NoState = NoState
  Redirected = Redirected
  Outer = Outer
  MaxRows = 2
  MaxBuckets = 2
INVARIANTS
  TypeOK
  StatesInTheirContext
  FinalizedFromAllRows
CHECK_DEADLOCK FALSE
