\* A tick is 2 seconds: 60 s, 70 s and 10 s in ws_util.go.  Of the 10 s of slack
\* 2 s are for the pong, 2 s for a ping behind one writeTimeout and 4 s for the
\* handler.  The handler returns in the end: deadlock is not an error.
SPECIFICATION Spec
CONSTANTS
  PingInterval = 30
  PongWait = 35
  PingWriteTimeout = 5
  RoundTrip = 1
  MaxQueue = 1
  MaxBusy = 2
INVARIANTS
  TypeOK
  LivingPeerKept
  DeadPeerTornDown
CHECK_DEADLOCK FALSE
