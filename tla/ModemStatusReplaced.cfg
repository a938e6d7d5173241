SPECIFICATION Spec
CONSTANTS
  Modem = {m1}
  Facet = {"sim"}
  Val = {off, on}
  Off = {}
  Default = off
  None = None
  Gone = Gone
  MaxSignals = 2
INVARIANTS ListedModemsHaveData
CHECK_DEADLOCK FALSE
