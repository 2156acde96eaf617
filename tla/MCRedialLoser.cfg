CONSTANTS
  s1 = s1
  s2 = s2
  Schedulers <- MCSchedulers
  Outcomes = {"Completed", "No Answer", "Callback Scheduled"}
  PolicyRetries = 1
  DefaultRetries = 1
  MaxAttempts = 2
  MaxDials = 1
  MaxFaults = 0
SPECIFICATION RedialSpec
PROPERTY LoserLeavesClaim
