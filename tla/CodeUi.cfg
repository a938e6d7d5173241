SPECIFICATION FairSpec
CONSTANTS
  Code = {a, b}
  None = None
  MaxTries = 2
  MaxDepth = 2
  MaxSignals = 2
  MaxChanges = 1
INVARIANTS TypeOK DialogBelongsToQuery KeptCodeIsThePin WaitersAreTold ChangeDoesNotSpin
PROPERTIES AttemptsAreTheUsers OnlyUnaskedCodesHang
CHECK_DEADLOCK FALSE
