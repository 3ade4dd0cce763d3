SPECIFICATION Spec
CONSTANTS
  e1 = e1
  Event = {e1}
  Hooks <- OnePush
  Candidates <- NoEventsOnly
  BadURL = {"bad"}
  MaxRetries = 0
INVARIANTS
  NoEventsMeansAll
