\* The limits of the deployment; one process stops once.
CONSTANTS
  Publishers = {p1}
  Workers = {w1}
  Messages = {m1, m2, m3, m4, m5, m6, m7, m8, m9, m10}
  NoMessage = NoMessage
  MaxPublish = 10
  MaxAttempts = 3
  MaxReceives = 3
  MaxCrashes = 1
  MaxStalls = 0
  MaxRestarts = 0
  MaxRetries = 0
CHECK_DEADLOCK FALSE
SPECIFICATION Spec
INVARIANTS
  ExhaustionEndsDead
