\* One target on each platform, three workers, a media of two parts.
CONSTANTS
  Worker = {w1, w2, w3}
  Nobody = Nobody
  Size = 2
  Budget = 5
  MaxUrls = 8
  MaxFaults = 3
  Scopes <- EveryPlatform
SPECIFICATION FairSpec
CHECK_DEADLOCK FALSE
INVARIANTS
  TypeOK
  CallsAreMadeOnce
  FailsForAReason
PROPERTY
  PublicationSettles
  ImplementsPublishInOrder
