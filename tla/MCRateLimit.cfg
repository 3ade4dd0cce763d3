SPECIFICATION Spec
CONSTANTS
  Call = {c1, c2, c3}
  Patient = {c1}
  Bypassing = {c3}
  Limit = 2
  Window = 2
  RetryAfter = 3
  MaxFaults = 1
INVARIANTS
  TypeOK
  SparesTheServer
  RetriedOnce
