SPECIFICATION Spec
CONSTANTS
  e1 = e1
  Event = {e1}
  Hooks <- OnePush
  Candidates <- TwoListings
  BadURL = {"bad"}
  MaxRetries = 1
INVARIANTS
  ForwardersAwaited
