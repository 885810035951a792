\* Three wrong guesses lock; a window of two units, locks of one, two and three.
CONSTANTS
  Client = {c}
  Attempt = {a1, a2, a3}
  None = None
  MaxFails = 3
  Window = 2
  Lock = 1
  Hour = 3
  MaxTime = 9
SYMMETRY Anyone
SPECIFICATION Spec
INVARIANTS
  TypeOK
  GuessesBounded
  LockHolds
PROPERTY LocksGrow
CHECK_DEADLOCK FALSE
