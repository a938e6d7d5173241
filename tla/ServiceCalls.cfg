SPECIFICATION FairSpec
CONSTANTS
  Modem = {m1}
  Call = {c1, c2, c3}
  NoCall = NoCall
  NoModem = NoModem
  MaxId = 4
INVARIANTS
  TypeOK
  HeldIdFindsOwnCall
  QueueHoldsLiveCalls
  
PROPERTIES
  SentCallsAreAnswered
  ImplementsRequests
