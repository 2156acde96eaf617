CONSTANTS
  s1 = s1
  s2 = s2
  Schedulers <- MCSchedulers
  NumLeads = 1
  Outcomes = {"Completed", "Callback Scheduled"}
  MaxStarts = 1
  MaxStops = 1
  MaxCalls = 2
  MaxFaults = 1
SPECIFICATION AutoDialSpec
PROPERTY RunEnds
CHECK_DEADLOCK FALSE
