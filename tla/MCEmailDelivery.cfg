CONSTANTS
  reminder = reminder
  receipt = receipt
  w1 = w1
  w2 = w2
  Deliveries <- MCDeliveries
  Workers <- MCWorkers
  MaxAttempts = 3
  MaxFaults = 2
SPECIFICATION EmailSpec
INVARIANTS StatusIsTrue SentOncePerFault
PROPERTY MailEnds
CHECK_DEADLOCK FALSE
