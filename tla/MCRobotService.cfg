SPECIFICATION FairSpec
CONSTANTS
  r1 = r1
  r2 = r2
  Req <- TwoReq
  Messages <- AllOutcomes
  Registered = {"pull_request", "access"}
  Panicking = {"access"}
  Contents = {"one", "bad"}
  Unreadable = {}
  Valid = {"one"}
INVARIANTS
  TypeOK
  WgCountsHandlers
  DrainBarrier
  CleanExit
PROPERTIES
  ImplementsEventDelivery
  SignalEndsProcess
  DispatchedIsHandled
