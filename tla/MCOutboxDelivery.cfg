CONSTANTS
  paid = paid
  other = other
  w1 = w1
  w2 = w2
  Events <- MCEvents
  Registered <- MCRegistered
  Workers <- MCWorkers
  BatchSize = 2
  MaxAttempts = 2
  MaxDeadlockRetries = 1
  MaxFaults = 2
  NoOne = NoOne
SPECIFICATION OutboxSpec
PROPERTIES StaleNeverSettles EventSettles ImplementsDelivery
CHECK_DEADLOCK FALSE
