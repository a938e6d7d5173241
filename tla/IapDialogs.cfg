CONSTANTS
  None = None
  MaxShown = 3
  Modem = {m1}
  AutoConnect <- MCAutoConnect
  Imsi = {i1, i2}
  Listed = {i1}
SPECIFICATION Spec
INVARIANTS
  IapTypeOK
  UnackedIsNotForgotten
  ServedIsShown
  NothingDangles
  NoIsKept
  OmaAskerIsTold
CHECK_DEADLOCK FALSE
