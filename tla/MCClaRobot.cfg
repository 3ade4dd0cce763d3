SPECIFICATION Spec
CONSTANTS
  h1 = h1
  h2 = h2
  Handler = {h1, h2}
  Email <- MCEmail
  ValidEmail <- MCValidEmail
  LiteCommitter = {"web"}
  Histories <- MCHistories
  CheckByCommitter = TRUE
  MaxFaults = 1
CHECK_DEADLOCK FALSE
INVARIANTS
  TypeOK
  UndisturbedVerdict
  ThanksMeansSigned
