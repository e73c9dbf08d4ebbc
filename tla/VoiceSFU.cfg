\* Two pubs and two subs in all, one failure, one offer per connection.  When
\* they are used up the model stops: deadlock is not an error.
SPECIFICATION Spec
CONSTANTS
  alice = alice
  bob = bob
  alice1 = alice1
  alice2 = alice2
  bob1 = bob1
  Users = {alice, bob}
  Conns = {alice1, alice2, bob1}
  User <- MCUser
  Pubs = {p1, p2}
  Subs = {x1, x2}
  MaxFailures = 1
  MaxOffers = 1
  None = None
SYMMETRY Symmetry
INVARIANTS
  TypeOK
  NoStraySubscriber
  NoStrayPublisher
  NobodyHeardAfterClose
  NobodyMissed
  NoEcho
CHECK_DEADLOCK FALSE
