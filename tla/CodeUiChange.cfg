SPECIFICATION FairSpec
CONSTANTS
  Code = {a, b}
  None = None
  MaxTries = 1
  MaxDepth = 3
  MaxSignals = 1
  MaxChanges = 0
PROPERTIES ChangeKeepsRequest
CHECK_DEADLOCK FALSE
