\* A tenant and an entity to start with; two sessions.
CONSTANTS
  Rows = {1, 2, 3}
  Names = {n1, n2}
  Keys = {k1, k2}
  Sessions = {s1, s2}
  MaxVersion = 2
  MaxWrites = 3
SYMMETRY Interchangeable
CHECK_DEADLOCK FALSE
SPECIFICATION Spec
INVARIANTS
  AnswersAreHistory
PROPERTIES
  ImplementsDirectory
