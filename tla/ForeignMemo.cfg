\* One invoice suffices for a credit memo that exceeds its balance by nothing
\* in its currency and by a rounding in the base currency.
CONSTANTS
  Invoices = {i1}
  Scale = 4
  Rates = {1, 3}
  Subtotals = {2, 5}
  Taxes = {0, 2}
  MaxAmount = 3
  MaxRest = 1
  MaxPostings = 2
CHECK_DEADLOCK FALSE
SPECIFICATION Spec
INVARIANTS
  EntriesBalance
