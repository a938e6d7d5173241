SPECIFICATION Spec
CONSTANTS
  Modem = {m1}
  Facet = {"sim", "net"}
  Val = {off1, off2, on}
  Off = {off1, off2}
  Default = off1
  None = None
  Gone = Gone
  MaxSignals = 2
CONSTRAINT OneInterface
INVARIANTS TypeOK SourcesAreAlive  
CHECK_DEADLOCK FALSE
