SPECIFICATION Spec
CONSTANTS
  Modem = {m1}
  Proc = {p1, p2, p3}
  None = None
SYMMETRY Symmetry
INVARIANTS OneCodeUiAtATime
