CONSTANTS
  Device = {d1, d2}
  Sender = {s1, s2}
  Request = {r1}
  None = None
SYMMETRY Anyone
SPECIFICATION Spec
INVARIANTS
  TypeOK
PROPERTIES
  CalmSendSucceeds
  UnlinkedMeansGone
  ImplementsSend
