CONSTANTS
  Possible <- MCPossible
  Reminder = 2
  Longest = 2
  MaxFail = 1
  MaxRestart = 1
  MaxEdit = 1
SPECIFICATION FairSpec
INVARIANTS
  TypeOK
  ChannelInStep
PROPERTIES
  DowntimeIsWhole
  NoSpam
  TroubleIsTold
