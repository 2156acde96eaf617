CONSTANTS
  w1 = w1
  w2 = w2
  OrgCount = 4
  JobWorkers <- MCOneWorker
  TickSize = 2
  MaxOrganizations = 3
  MaxPerOrganization = 2
  KeepsWorker = FALSE
  MaxBacklog = 2
SPECIFICATION FairSpec
PROPERTY EveryOrganizationServed
