CONSTANTS
  Calls = {c1, c2}
  Answerable = {c1}
  InitialBalance = 3
  Estimate = 2
  Minimum = 3
  Costs = {3}
  RechargeAmount = 2
  MaxRecharges = 1
  MaxErrors = 3
  MaxFaults = 1
SPECIFICATION CallSessionSpec
INVARIANTS ReservedMatchesCalls ChargedOncePerCall ReservedIsBacked OneLogPerCall
PROPERTIES HoldsEnd EndedCallsAreLogged
CHECK_DEADLOCK FALSE
