\* Two clients that both send and listen, and a publisher.  When they have left
\* nothing happens any more: deadlock is not an error.
SPECIFICATION Spec
CONSTANTS
  c1 = c1
  c2 = c2
  p1 = p1
  Clients = {c1, c2}
  Publishers = {p1}
  Owner <- MCOwner
  MaxUnits <- MCMaxUnits
  MaxRequests = 1
  None = None
INVARIANTS
  TypeOK
  InitUndisturbed
  CacheOwned
  NoBadgeMissed
PROPERTY StreamsDecodable
CHECK_DEADLOCK FALSE
