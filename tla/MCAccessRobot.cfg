SPECIFICATION FairSpec
CONSTANTS
  e1 = e1
  Event = {e1}
  Hooks <- AllHooks
  Candidates <- AllConfigs
  BadURL = {"bad"}
  MaxRetries = 2
INVARIANTS
  TypeOK
  RoutedAsListed
  NoNameDropped
  ReceivedAsListed
  ForwardedWasReceived
PROPERTIES
  ForwardersSettle
