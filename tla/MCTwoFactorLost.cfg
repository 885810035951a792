\* Any three operations, of which two suffice: a password change and a confirmation.
CONSTANTS
  Op = {a, b, c}
  First = First
  None = None
  MaxTime = 1
SYMMETRY Anyone
VIEW Relevant
SPECIFICATION Spec
PROPERTY PasswordKeepsTwoFactor
CHECK_DEADLOCK FALSE
