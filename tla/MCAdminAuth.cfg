\* Any three operations, three steps of the clock.
CONSTANTS
  Op = {a, b, c}
  First = First
  None = None
  MaxTime = 2
SYMMETRY Anyone
VIEW Relevant
SPECIFICATION Spec
INVARIANTS
  TypeOK
  CodeOnce
  OnlyProvenSecrets
  SessionsFollowPassword
PROPERTY UndisturbedKeepsFields
CHECK_DEADLOCK FALSE
