SPECIFICATION Spec
CONSTANTS
  Modem = {m1, m2}
  Call = {c1, c2, c3}
  NoCall = NoCall
  NoModem = NoModem
  MaxId = 4
  MaxDepth = 3
  MaxClir = 1
SYMMETRY Symmetry
INVARIANTS TypeOK PendingCountsRequests KeptIdIsOwnRequest NoRequestOutlivesApplet
CHECK_DEADLOCK FALSE
