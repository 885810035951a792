SPECIFICATION Spec
CONSTANTS
  m1 = m1  m2 = m2  g = g  d = d  ana = ana
  Messages = {m1, m2}
  Chats = {g}
  Senders = {ana}
  ChatOf <- OneGroup
  SenderOf <- OneMember
  Groups = {g}
  MaxTries <- FirstTwice
  Budgets <- Pairs
INVARIANTS
  TypeOK
  OneRunPerChat
  AckedIsRecoverable
  RevokedNeverRuns
  DuplicatesHaveCauses
PROPERTIES
  ContextKept
  ImplementsQueue
CHECK_DEADLOCK FALSE
