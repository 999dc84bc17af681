\* Two invoices, rates below one and ties of the rounding, every split of a
\* receipt over both.
\* The system stops when both invoices have their postings.
CONSTANTS
  Invoices = {i1, i2}
  Scale = 4
  Rates = {1, 3}
  Subtotals = {2, 5}
  Taxes = {0, 2}
  MaxAmount = 3
  MaxRest = 1
  MaxPostings = 2
SYMMETRY Symmetry
CHECK_DEADLOCK FALSE
SPECIFICATION Spec
INVARIANTS
  TypeOK
  BaseReconciled
  CarryingValueTracksBalance
  SettledExactly
PROPERTIES
  OnlyClosingMemosUnbalance
