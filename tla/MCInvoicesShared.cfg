CONSTANTS
  Workspaces = {a, b}
  Org = org
  Charges = {1, 2}
  MaxCharges = 2
  MaxCorrections = 1
  MaxRequests = 1
  MaxReturns = 1
  MaxCreditNotes = 1
SPECIFICATION InvoicesSpec
SYMMETRY Symmetry
INVARIANT TimelyCanBePaid
CHECK_DEADLOCK FALSE
