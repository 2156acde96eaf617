CONSTANTS
  s1 = s1
  s2 = s2
  Schedulers <- MCSchedulers
  NumLeads = 2
  Outcomes = {"Completed", "No Answer", "Callback Scheduled"}
  MaxStarts = 1
  MaxStops = 1
  MaxCalls = 3
  MaxFaults = 0
SPECIFICATION AutoDialSpec
INVARIANTS OneCallPerStart CompletedIsComplete
PROPERTY ResultsKept
CHECK_DEADLOCK FALSE
