CONSTANTS
  Workspaces = {a, b}
  Org = org
  Charges = {2}
  MaxCharges = 2
  MaxCorrections = 2
  MaxRequests = 2
  MaxReturns = 1
  MaxCreditNotes = 1
SPECIFICATION InvoicesSpec
SYMMETRY Symmetry
INVARIANTS DebtIsAccounted InvoicesAreItemized PayableIsAccepted
CHECK_DEADLOCK FALSE
