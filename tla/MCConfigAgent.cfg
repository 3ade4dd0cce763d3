SPECIFICATION FairSpec
CONSTANTS
  Contents <- MCContents
  Unreadable <- MCUnreadable
  Valid <- MCValid
INVARIANTS
  TypeOK
  PublishedIsValid
PROPERTIES
  NoPublishAfterStop
  Converges
  StopTerminates
