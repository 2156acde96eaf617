CONSTANTS
  sub = sub
  top = top
  call1 = call1
  call2 = call2
  voice1 = voice1
  voice2 = voice2
  Never = Never
  None = None
  Postpaid = Postpaid
  NoTx = NoTx
  Grants <- MCGrants
  Kind <- MCKind
  ExpiresAt <- MCExpiresAt
  IdOrder <- MCIdOrder
  Granted <- MCGranted
  Reservations <- OneCall
  Components <- OneComponent
  OperationOf <- OneOperationOf
  MaxRevision = 3
  PostpaidMode = "limited"
  PostpaidLimit = 1
  CycleCap = None
  MaxUnits = 2
  MaxVersion = 4
  MaxTime = 2
  MaxWait = 0
SPECIFICATION FundingSpec
INVARIANT ChargedByDelta
CHECK_DEADLOCK FALSE
