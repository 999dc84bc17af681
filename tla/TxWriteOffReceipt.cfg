\* Write-off races a receipt.
CONSTANTS
  NoUser = NoUser
  Users = {u1, u2}
  Chart <- FullChart
  MaxVersion = 2
  Invoices = {1}
  Subtotals = {2}
  Taxes = {1}
  MaxAmount = 3
  CreditLimit = 0
  Sessions = {s1, s2}
  Keys = {k1}
  Operations = {"CREATE", "APPROVE", "PAY_MANUAL", "WRITE_OFF"}
SYMMETRY Symmetry
CHECK_DEADLOCK FALSE
SPECIFICATION Spec
INVARIANTS
  WriteOffLeavesReceipts
