\* Two invoices of one customer under a credit limit; the amounts make the tax
\* split of a credit memo round up, down and tie, and receipts span both invoices.
\* The system stops when the invoices are closed and delivered.
CONSTANTS
  NoUser = NoUser
  Users = {u1, u2}
  Chart <- FullChart
  MaxVersion = 2
  Invoices = {1, 2}
  Subtotals = {1, 2}
  Taxes = {1}
  MaxAmount = 2
  CreditLimit = 4
SYMMETRY Symmetry
CHECK_DEADLOCK FALSE
SPECIFICATION Spec
INVARIANTS
  TypeOK
  Reconciled
  EarnedRevenue
  BooksBalance
  ReceiptsAccounted
  CreditsWithinInvoice
  StatusReflectsBalance
  ApprovalGates
  WithinCreditLimit
PROPERTIES
  LifecycleOrder
  PostedAmountsFrozen
