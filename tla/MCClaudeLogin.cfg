\* Two runs: one that may end late, and the one that follows it.
CONSTANT MaxRuns = 2
SPECIFICATION FairSpec
INVARIANTS
  TypeOK
  OneSignIn
  ActiveIsAttended
  CodesRedacted
  DoneIsVisible
PROPERTY SignInEnds
CHECK_DEADLOCK FALSE
