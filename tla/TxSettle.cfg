\* All the requests race for one invoice: edit, decision and void for the draft,
\* receipts, credit memo, void, write-off and delivery for the posted one.
\* The system stops when every key is used up.
CONSTANTS
  NoUser = NoUser
  Users = {u1, u2}
  Chart <- FullChart
  MaxVersion = 2
  Invoices = {1}
  Subtotals = {1, 2}
  Taxes = {1}
  MaxAmount = 3
  CreditLimit = 0
  Sessions = {s1, s2}
  Keys = {k1}
  Operations = {"CREATE", "EDIT", "REJECT", "APPROVE", "PAY_AUTO", "PAY_MANUAL", "CREDIT", "VOID", "WRITE_OFF"}
SYMMETRY Symmetry
CHECK_DEADLOCK FALSE
SPECIFICATION Spec
INVARIANTS
  EffectsMatchRequests
  VersionCountsMutations
  ReconciledUntilWriteOff
PROPERTIES
  ImplementsLedger
