CONSTANTS
  MaxCount = 1
  MaxLimit = 1
  MaxQueue = 2
  Modem = {m1, m2}
  NetState <- MCNetState
  Name = {"", "one", "two"}
  NoState = NoState
  Fallback = "two"
  MaxIdle = 3
  Message <- MCMessage
  Update = {5, 12}
  None = None
SPECIFICATION Spec
INVARIANTS
  PartsTypeOK
  CounterIsCurrent
  DialogShowsItsSide
  
  LabelAsTold
  MessagesWhole
  
CHECK_DEADLOCK FALSE
