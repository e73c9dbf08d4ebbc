\* One viewer that both read loops may add, two PeerConnections, two tracks.
CONSTANTS
  Viewers = {v1}
  Pcs = {x1, x2}
  Publisher = P
  MaxTracks = 2
  MaxFailures = 1
  MaxHellos = 2
  MaxOffers = 1
  None = None
SPECIFICATION Spec
SYMMETRY Symmetry
\* When connections and PeerConnections are used up the model stops: deadlock is
\* not an error.
CHECK_DEADLOCK FALSE
INVARIANTS
  TypeOK
  NoStrayViewer
  OfferedOnce
  EveryWatcherAdded
  LeaverReleased
  CandidatesInOrder
