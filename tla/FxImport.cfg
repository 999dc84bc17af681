\* Two days and jobs, two workers, a lease that runs out on a worker at work.
\* The system stops when every job is at rest and the calendar ends.
CONSTANTS
  Workers = {w1, w2}
  Tenants = {t1}
  Quotes = {INR, USD}
  LastDay = 2
  MaxAge = 1
  MaxAttempts = 2
  MaxStalls = 1
CHECK_DEADLOCK FALSE
SPECIFICATION Spec
INVARIANTS
  TypeOK
  OneImporterAtATime
PROPERTIES
  ImplementsRateBook
  CompletedIsPriced
  Settles
