CONSTANTS
  s1 = s1
  s2 = s2
  m1 = m1
  Digits <- MCDigits
  Group <- MCGroup
  Slot <- MCSlot
  AllowedSenders <- MCSenders
  Requests <- MCRequests
  HandEdits <- MCHandEdits
  Incomings <- MCIncomings
  Saver <- Savers
  Message <- Messages
  BotPhone = "9"
  BotLID = "8"
  MaxChange = 2
SYMMETRY Alike
SPECIFICATION Spec
INVARIANTS
  TypeOK
  CacheHonest
  SavedIsEnforced
PROPERTIES
  UndisturbedSaveKeeps
  ImplementsGate
