SPECIFICATION FairSpec
CONSTANTS
  h1 = h1
  h2 = h2
  Handler = {h1, h2}
  Names <- MCNames
  N = 3
  Configs <- AnyOrder
INVARIANTS
  TypeOK
  ForwardsWhenInOrder
  ForwardsWhenAlone
  ForwardsOnlyListed
  AloneLosesNothing
PROPERTIES
  EveryHandlerDecides
