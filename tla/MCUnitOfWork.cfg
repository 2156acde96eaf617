CONSTANTS
  p1 = p1
  p2 = p2
  c1 = c1
  c2 = c2
  c3 = c3
  Processes <- MCProcesses
  Callers <- MCCallers
  ProcessOf <- MCProcessOf
  OpIds = {k1}
  Fingerprints = {f1, f2}
  Results = {r1, r2}
  PoolSize = 1
  MaxDeadlockRetries = 1
  MaxCalls = 1
  None = None
  Nobody = Nobody
SPECIFICATION UoWSpec
INVARIANTS PoolConserved ReadsStayTrue
PROPERTIES HoldStopsFinancialEffects CallEnds ImplementsIdempotentCommand
CHECK_DEADLOCK FALSE
