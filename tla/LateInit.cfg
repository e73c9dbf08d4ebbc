\* Expected to fail: see InitBeforeMedia.
SPECIFICATION Spec
CONSTANTS
  c1 = c1
  c2 = c2
  p1 = p1
  Clients = {c1, c2}
  Publishers = {p1}
  Owner <- MCOwner
  MaxUnits <- MCMaxUnits
  MaxRequests = 1
  None = None
PROPERTY InitBeforeMedia
CHECK_DEADLOCK FALSE
