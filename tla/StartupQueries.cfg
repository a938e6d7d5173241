SPECIFICATION Spec
CONSTANTS
  Modem = {m1, m2}
  Proc = {p1, p2, p3}
  None = None
SYMMETRY Symmetry
INVARIANTS TypeOK LockedSimIsAsked LockFileRemoved
