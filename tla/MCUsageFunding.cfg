CONSTANTS
  sub = sub
  top = top
  call1 = call1
  call2 = call2
  voice1 = voice1
  voice2 = voice2
  Never = Never
  None = None
  Postpaid = Postpaid
  NoTx = NoTx
  Grants <- MCGrants
  Kind <- MCKind
  ExpiresAt <- MCExpiresAt
  IdOrder <- MCIdOrder
  Granted <- MCGranted
  Reservations <- TwoCalls
  Components <- TwoComponents
  OperationOf <- TwoOperationOf
  MaxRevision = 1
  PostpaidMode = "limited"
  PostpaidLimit = 1
  CycleCap = 2
  MaxUnits = 2
  MaxVersion = 3
  MaxTime = 1
  MaxWait = 0
SPECIFICATION FundingSpec
INVARIANTS HoldsMatchLines NoHoldCrossesExpiry
CHECK_DEADLOCK FALSE
SYMMETRY Symmetry
