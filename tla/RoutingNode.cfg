CONSTANTS
  Address = {0, 1, 2, 3}
  GroupSize = 2
  IdSpace = 3
  Scenario <- MCScenario
  None = None
SPECIFICATION MCSpec
INVARIANT RangeIsBall
INVARIANT DispatchedOnce
