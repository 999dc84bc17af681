\* A void after a partial credit memo.
CONSTANTS
  NoUser = NoUser
  Users = {u1, u2}
  Chart <- FullChart
  MaxVersion = 2
  Invoices = {1}
  Subtotals = {2}
  Taxes = {1}
  MaxAmount = 3
  CreditLimit = 0
SYMMETRY Symmetry
CHECK_DEADLOCK FALSE
SPECIFICATION Spec
INVARIANTS
  SubledgerMatchesGL
