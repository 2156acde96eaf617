SPECIFICATION CallSessionSpec
CONSTANTS
  Calls = {c1}
  Answerable = {c1}
  InitialBalance = 3
  Estimate = 2
  Minimum = 3
  Costs = {3}
  RechargeAmount = 2
  MaxRecharges = 0
  MaxErrors = 0
  MaxFaults = 0
INVARIANT OneLogUnderEveryId
CHECK_DEADLOCK FALSE
