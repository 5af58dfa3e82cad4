SPECIFICATION Spec
CONSTANTS
  Exprs <- MCExprs
  Relations <- MCRelations
  Personal <- MCPersonal
  AidColumns <- MCAidColumns
  NotFilterable <- MCNotFilterable
  MoneyRounded = {"1", "2"}
  PositiveIntegers = {"1", "2", "3"}
  LongTexts = {"epic"}
  Statements = {}
  Prepareds <- MCPrepareds
  Params <- MCParams
  Values = {"Rome", "2"}
  Unbound = Unbound
  CustomPlans = 1
  MaxStatements = 2
CHECK_DEADLOCK FALSE
INVARIANT
  NeverCrashes
