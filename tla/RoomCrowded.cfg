SPECIFICATION Spec
CONSTANTS
  r1 = r1
  c1 = c1
  c2 = c2
  p1 = p1
  p2 = p2
  Rooms = {r1}
  Clients = {c1, c2}
  Publishers = {p1, p2}
  Viewers = {}
  MaxShares = 1
  NoRoom = NoRoom
  NoPublisher = NoPublisher
SYMMETRY Symmetry
INVARIANT ShareCap
INVARIANT EmptyRoomHasCaretaker
INVARIANT RemovalEvicts
\* Every connection may have come and gone; the server then waits for calls.
CHECK_DEADLOCK FALSE
