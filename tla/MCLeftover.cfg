SPECIFICATION Spec
CONSTANTS
  m1 = m1  m2 = m2  g = g  d = d  ana = ana
  Messages = {m1, m2}
  Chats = {d}
  Senders = {ana}
  ChatOf <- DirectChat
  SenderOf <- OneMember
  Groups = {}
  MaxTries <- FirstTwice
  Budgets <- OneCrash
INVARIANT NothingLeftToRecover
CHECK_DEADLOCK FALSE
