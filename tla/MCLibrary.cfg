SPECIFICATION LibrarySpec
CONSTANTS
  MaxItems = 3
  Name <- MCName
  Candidates <- MCCandidates
  Query <- MCQuery
  Value = {"old", "new"}
  MaxTime = 3
  MaxSkips = 2
INVARIANTS
  FindTypeOK
  FindAnswers
  ExclusionHolds
  TypeOK
  StalenessBounded
PROPERTIES
  FollowsTheFile
