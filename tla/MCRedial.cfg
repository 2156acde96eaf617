CONSTANTS
  s1 = s1
  s2 = s2
  Schedulers <- MCSchedulers
  Outcomes = {"Completed", "No Answer"}
  PolicyRetries = 1
  DefaultRetries = 1
  MaxAttempts = 2
  MaxDials = 2
  MaxFaults = 1
SPECIFICATION RedialSpec
INVARIANTS RedialledOnce CallsAreBounded
PROPERTY RetriesEnd
