SPECIFICATION Spec
CONSTANTS
  TRIES = 1
  POLLS = 1
  QUEUE = 6
  MaxFlaps = 3
INVARIANTS
  TypeOK
  ManagerFollowsLink
  ConnectedIsHonest
  StaticStays
PROPERTIES
  ServerStarts
  UpLinkGetsStatic
CHECK_DEADLOCK FALSE
