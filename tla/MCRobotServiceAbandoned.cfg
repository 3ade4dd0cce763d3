SPECIFICATION Spec
CONSTANTS
  r1 = r1
  r2 = r2
  Req <- TwoReq
  Messages <- OnlyHandled
  Registered = {"pull_request", "access"}
  Panicking = {"access"}
  Contents = {"one", "bad"}
  Unreadable = {}
  Valid = {"one"}
INVARIANTS
  NoHandlerAbandoned
