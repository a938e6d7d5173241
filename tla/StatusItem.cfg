SPECIFICATION Spec
CONSTANTS
  Modem = {m1, m2}
  Gprs = {m1}
  Registration = {"unknown", "home", "denied"}
  None = None
  MaxPending = 1
INVARIANTS TypeOK DrawnAsTold
