CONSTANTS
  s1 = s1
  s2 = s2
  Schedulers <- MCOneScheduler
  NumLeads = 1
  Outcomes = {"Completed", "No Answer", "Callback Scheduled"}
  MaxStarts = 2
  MaxStops = 1
  MaxCalls = 2
  MaxFaults = 0
SPECIFICATION AutoDialSpec
INVARIANT OneCallAtATime
CHECK_DEADLOCK FALSE
