\* Three pubs and one sub in all, no failure, one offer per connection.  When
\* they are used up the model stops: deadlock is not an error.
SPECIFICATION Spec
CONSTANTS
  alice = alice
  bob = bob
  alice1 = alice1
  alice2 = alice2
  bob1 = bob1
  Users = {alice, bob}
  Conns = {alice1, alice2, bob1}
  User <- MCUser
  Pubs = {p1, p2, p3}
  Subs = {x1}
  MaxFailures = 0
  MaxOffers = 1
  None = None
SYMMETRY Symmetry
INVARIANT EveryPairOffered
CHECK_DEADLOCK FALSE
