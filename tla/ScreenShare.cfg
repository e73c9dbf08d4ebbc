\* One viewer (viewers share nothing but the mutex), a stream of five units, of
\* which one message may complete two, two changes of mode, two requests.
\* When the publisher stops sending nothing has to happen: deadlock is not an
\* error.
SPECIFICATION FairSpec
CONSTANTS
  Viewers = {v1}
  MaxUnits = 5
  MaxPerFeed = 2
  MaxHellos = 2
  MaxRequests = 2
INVARIANTS
  TypeOK
  ModeReachesViewers
PROPERTIES
  StreamsInOrder
  ViewersServed
CHECK_DEADLOCK FALSE
