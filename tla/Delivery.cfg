\* A publisher and two workers, with a crash, a lease that runs out on a worker
\* or publisher at work, and a restart of the delivery service.
\* The system stops when the event is decided or stranded.
CONSTANTS
  Publishers = {p1}
  Workers = {w1, w2}
  Messages = {m1, m2}
  NoMessage = NoMessage
  MaxPublish = 2
  MaxAttempts = 2
  MaxReceives = 2
  MaxCrashes = 1
  MaxStalls = 1
  MaxRestarts = 1
  MaxRetries = 0
CHECK_DEADLOCK FALSE
SPECIFICATION Spec
INVARIANTS
  TypeOK
  AcceptedOnce
  OneDeliveryAtATime
PROPERTIES
  ImplementsPromise
  Settles
