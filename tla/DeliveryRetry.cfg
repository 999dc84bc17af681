\* A retry by the CFO while two workers still have messages of the first life of
\* the event, with a crash and a lease that runs out on a process at work.
\* The system stops when the event is decided or stranded.
CONSTANTS
  Publishers = {p1}
  Workers = {w1, w2}
  Messages = {m1, m2}
  NoMessage = NoMessage
  MaxPublish = 1
  MaxAttempts = 2
  MaxReceives = 2
  MaxCrashes = 1
  MaxStalls = 1
  MaxRestarts = 1
  MaxRetries = 1
SYMMETRY Symmetry
CHECK_DEADLOCK FALSE
SPECIFICATION Spec
INVARIANTS
  DeletedOnlyWhenRecorded
PROPERTIES
  ImplementsPromise
