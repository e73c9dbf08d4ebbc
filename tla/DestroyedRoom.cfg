SPECIFICATION Spec
CONSTANTS
  r1 = r1
  r2 = r2
  c1 = c1
  p1 = p1
  v1 = v1
  Rooms = {r1, r2}
  Clients = {c1}
  Publishers = {p1}
  Viewers = {v1}
  MaxShares = 1
  NoRoom = NoRoom
  NoPublisher = NoPublisher
SYMMETRY Symmetry
INVARIANT DestroyedRoomIsEmpty
\* Every connection may have come and gone; the server then waits for calls.
CHECK_DEADLOCK FALSE
