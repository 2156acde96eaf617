CONSTANTS
  Term = 3
  Notice = 1
  QuoteLife = 1
  GraceAfter = 1
  GraceMax = 1
  TrialLengths = {1}
  MaxTime = 4
  MaxQuotes = 2
  MaxRequests = 2
  MaxReviews = 4
  MaxGraces = 1
  MaxGrace = 2
SPECIFICATION SubscriptionSpec
INVARIANTS JudgedAsSeen NotSuspendedEarly TypeOK
CHECK_DEADLOCK FALSE
