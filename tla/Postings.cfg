\* Two sessions, two invoices of two periods.
CONSTANTS
  Invoices = {1, 2}
  Amount = 1
  DatePeriod <- OwnPeriod
  Periods = {1, 2}
  Sessions = {s1, s2}
  Nobody = Nobody
  MaxRest = 0
  PaymentPeriods = {2}
  MovedPeriods = {2}
  MaxMoves = 1
CHECK_DEADLOCK FALSE
SPECIFICATION Spec
INVARIANTS
  TypeOK
  OnlyManualDeadlocks
PROPERTIES
  ImplementsReceivables
  OldestPaidFirst
  ClosedPeriodsFrozen
  RequestsEnd
