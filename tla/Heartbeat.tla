------------------------------ MODULE Heartbeat ------------------------------
(***************************************************************************)
(* One connection and its heartbeat (ws_util.go): the read deadline, which *)
(* only a pong extends and only when the handler is in ReadMessage, and    *)
(* the ping goroutine, whose writes queue behind the handler's.            *)
(*                                                                         *)
(* Time passes in ticks.  A step that is due is taken before the next      *)
(* tick.  A living peer answers every ping within RoundTrip: that is what  *)
(* "living" means.  A dead one sends nothing, and what it is sent may be   *)
(* buffered or block.  gorilla/websocket is external: one write at a time, *)
(* and a pong is handled inside ReadMessage.                               *)
(*                                                                         *)
(* Nothing in the code bounds how long the handler stays away from         *)
(* ReadMessage (a Broadcast takes up to 2 s for each stalled client, a     *)
(* screen write 5 s), nor how long a ping waits behind a data write, but   *)
(* for its own timeout.  The model lets both take any time, and slow says  *)
(* whether they took longer than an allowance out of the slack between     *)
(* pingInterval and pongWait.                                              *)
(***************************************************************************)
EXTENDS Integers

CONSTANTS
  PingInterval,      \* pingInterval
  PongWait,          \* pongWait
  PingWriteTimeout,  \* pingWriteTimeout
  RoundTrip,         \* longest time a living peer's pong takes
  MaxQueue,          \* allowance for a ping to wait behind a data write
  MaxBusy            \* allowance for the handler to take for JoinRoom, or for
                     \* the messages it reads ahead of a pong

ASSUME HeartbeatAssumption ==
  /\ PingInterval \in Nat /\ PongWait \in Nat /\ PingWriteTimeout \in Nat
  /\ RoundTrip \in Nat /\ MaxQueue \in Nat /\ MaxBusy \in Nat
  /\ MaxQueue < PingWriteTimeout /\ PingWriteTimeout < PingInterval
  /\ MaxQueue + RoundTrip + MaxBusy < PongWait - PingInterval
  /\ PingWriteTimeout + RoundTrip < PingInterval  \* answered before the next

VARIABLES
  peer,      \* "alive" or "dead"
  open,      \* the connection is open
  handler,   \* "joining", "stuck" in a write, "busy", "reading" or "done"
  away,      \* ticks the handler has been joining or busy (in all, while a
             \* pong waits), up to MaxBusy + 1
  deadline,  \* ticks to the read deadline
  pinger,    \* the ping goroutine: "waiting", "writing" or "stopped"
  toPing,    \* ticks to the ticker's next tick
  writing,   \* ticks its WriteControl has taken
  flight,    \* ticks since the ping that is to be answered, or -1
  arrived,   \* a pong has arrived and is not yet read
  deadFor,   \* history: ticks the handler has gone on with a dead peer, up to
             \* Limit + 1
  slow       \* history: an allowance was exceeded since a living peer's pong
             \* was read

pingVars == <<pinger, toPing, writing>>
netVars  == <<flight, arrived>>
vars == <<peer, open, handler, away, deadline, pingVars, netVars, deadFor,
          slow>>

\* When a dead peer's handler must have returned.
Limit ==
  MaxBusy + RoundTrip + (IF PongWait > PingInterval + PingWriteTimeout
                         THEN PongWait ELSE PingInterval + PingWriteTimeout)

TypeOK ==
  /\ peer \in {"alive", "dead"}
  /\ open \in BOOLEAN
  /\ handler \in {"joining", "stuck", "busy", "reading", "done"}
  /\ away \in 0 .. MaxBusy + 1
  /\ deadline \in 0 .. PongWait
  /\ pinger \in {"waiting", "writing", "stopped"}
  /\ toPing \in 0 .. PingInterval
  /\ writing \in 0 .. PingWriteTimeout
  /\ flight \in -1 .. RoundTrip
  /\ arrived \in BOOLEAN
  /\ deadFor \in 0 .. Limit + 1
  /\ slow \in BOOLEAN
  /\ handler = "done" => ~open

\* startHeartbeat comes before JoinRoom.
Init ==
  /\ peer = "alive" /\ open = TRUE
  /\ handler = "joining" /\ away = 0
  /\ deadline = PongWait
  /\ pinger = "waiting" /\ toPing = PingInterval /\ writing = 0
  /\ flight = -1 /\ arrived = FALSE
  /\ deadFor = 0 /\ slow = FALSE

-----------------------------------------------------------------------------
(* The ping goroutine                                                      *)

TickerFires ==
  /\ pinger = "waiting" /\ toPing = 0
  /\ pinger' = "writing"
  /\ toPing' = PingInterval
  /\ writing' = 0
  /\ UNCHANGED <<peer, open, handler, away, deadline, netVars, deadFor, slow>>

\* WriteControl gets its turn and returns; a living peer will answer.
PingWritten ==
  /\ pinger = "writing" /\ open /\ handler # "stuck"
  /\ pinger' = "waiting"
  /\ flight' = IF peer = "alive" THEN 0 ELSE -1
  /\ UNCHANGED <<peer, open, handler, away, deadline, toPing, writing, arrived,
                 deadFor, slow>>

\* Mutant: the goroutine ends and leaves the connection to the handler.
PingGivenUp ==
  /\ pinger = "writing"
  /\ writing = PingWriteTimeout \/ peer = "dead" \/ ~open
  /\ pinger' = "stopped"
  /\ UNCHANGED <<peer, open, handler, away, deadline, toPing, writing, netVars,
                 deadFor, slow>>

\* WriteControl fails, after pingWriteTimeout at the latest: close the
\* connection.
PingFails ==
  /\ pinger = "writing"
  /\ writing = PingWriteTimeout \/ peer = "dead" \/ ~open
  /\ pinger' = "stopped"
  /\ open' = FALSE
  /\ UNCHANGED <<peer, handler, away, deadline, toPing, writing, netVars, deadFor,
                 slow>>

\* The stop function has been called.
PingerStops ==
  /\ pinger = "waiting" /\ handler = "done"
  /\ pinger' = "stopped"
  /\ UNCHANGED <<peer, open, handler, away, deadline, toPing, writing, netVars,
                 deadFor, slow>>

-----------------------------------------------------------------------------
(* The handler                                                             *)

\* JoinRoom or the handling of a message is done: (back) to ReadMessage.
BeginReading ==
  /\ handler \in {"joining", "busy"}
  /\ handler' = "reading"
  /\ away' = IF arrived THEN away ELSE 0
  /\ UNCHANGED <<peer, open, deadline, pingVars, netVars, deadFor, slow>>

\* A write of JoinRoom, which has no deadline, blocks.
WriteBlocks ==
  /\ handler = "joining" /\ peer = "dead" /\ open
  /\ handler' = "stuck"
  /\ UNCHANGED <<peer, open, away, deadline, pingVars, netVars, deadFor, slow>>

\* Until the connection is closed.
WriteUnblocks ==
  /\ handler = "stuck" /\ ~open
  /\ handler' = "done"
  /\ UNCHANGED <<peer, open, away, deadline, pingVars, netVars, deadFor, slow>>

\* ReadMessage returns a message, which may be ahead of a pong; the deadline
\* stays.
ReadMessage ==
  /\ handler = "reading" /\ open
  /\ arrived \/ peer = "alive"
  /\ handler' = "busy"
  /\ UNCHANGED <<peer, open, away, deadline, pingVars, netVars, deadFor, slow>>

\* Mutant: pongs are read, but there is no pong handler.
IgnorePong ==
  /\ handler = "reading" /\ open /\ arrived
  /\ arrived' = FALSE
  /\ away' = 0
  /\ UNCHANGED <<peer, open, handler, deadline, pingVars, flight, deadFor,
                 slow>>

\* ReadMessage comes upon a pong and calls the pong handler.
HandlePong ==
  /\ handler = "reading" /\ open /\ arrived
  /\ arrived' = FALSE
  /\ deadline' = PongWait
  /\ away' = 0
  /\ slow' = IF peer = "alive" THEN pinger = "writing" /\ writing > MaxQueue
             ELSE slow
  /\ UNCHANGED <<peer, open, handler, pingVars, flight, deadFor>>

\* Mutant: the handler returns without closing the connection.
ReadTimeoutOpen ==
  /\ handler = "reading"
  /\ deadline = 0 \/ ~open
  /\ handler' = "done"
  /\ UNCHANGED <<peer, open, away, deadline, pingVars, netVars, deadFor, slow>>

\* ReadMessage fails at the deadline, or because the connection is closed, and
\* the handler returns and closes it.
ReadFails ==
  /\ handler = "reading"
  /\ deadline = 0 \/ ~open
  /\ handler' = "done"
  /\ open' = FALSE
  /\ UNCHANGED <<peer, away, deadline, pingVars, netVars, deadFor, slow>>

-----------------------------------------------------------------------------
(* Peer, network and time                                                  *)

PongArrives ==
  /\ flight # -1
  /\ flight' = -1
  /\ arrived' = TRUE
  /\ UNCHANGED <<peer, open, handler, away, deadline, pingVars, deadFor, slow>>

\* Laptop asleep, or the network down without a FIN.  A pong may be on its way.
PeerDies ==
  /\ peer = "alive"
  /\ peer' = "dead"
  /\ flight' \in {flight, -1}
  /\ UNCHANGED <<open, handler, away, deadline, pingVars, arrived, deadFor,
                 slow>>

\* A step that cannot wait for the next tick.
Due ==
  \/ pinger = "waiting" /\ (toPing = 0 \/ handler = "done")
  \/ pinger = "writing" /\ (writing = PingWriteTimeout \/ ~open)
  \/ handler = "stuck" /\ ~open
  \/ handler = "reading" /\ (deadline = 0 \/ ~open \/ arrived)
  \/ flight = RoundTrip

Less(n) == IF n = 0 THEN 0 ELSE n - 1

\* This tick is one more than the allowance.
Overrun ==
  \/ handler \in {"joining", "busy"} /\ away >= MaxBusy
  \/ peer = "alive" /\ pinger = "writing" /\ writing >= MaxQueue

Tick ==
  /\ ~Due
  /\ deadline' = Less(deadline)
  /\ toPing' = Less(toPing)
  /\ writing' = IF pinger = "writing" THEN writing + 1 ELSE writing
  /\ away' = IF handler \in {"joining", "busy"} /\ away <= MaxBusy
             THEN away + 1 ELSE away
  /\ flight' = IF flight = -1 THEN -1 ELSE flight + 1
  /\ deadFor' = IF peer = "dead" /\ handler # "done" /\ deadFor <= Limit
                THEN deadFor + 1 ELSE deadFor
  /\ slow' = (slow \/ Overrun)
  /\ UNCHANGED <<peer, open, handler, pinger, arrived>>

-----------------------------------------------------------------------------
PingGoroutine == TickerFires \/ PingWritten \/ PingFails \/ PingerStops

Handler ==
  \/ BeginReading \/ WriteBlocks \/ WriteUnblocks
  \/ ReadMessage \/ HandlePong \/ ReadFails

Next ==
  \/ PingGoroutine
  \/ Handler
  \/ PongArrives
  \/ PeerDies
  \/ Tick

Spec == Init /\ [][Next]_vars

-----------------------------------------------------------------------------
(* Correctness                                                             *)

\* ws_util.go:18-19, "a client that answers every ping with a pong never trips
\* the read deadline" (nor a ping's write timeout), unless since its last pong
\* was read the handler stayed away from ReadMessage, or a ping waited, for
\* longer than pongWait - pingInterval has room for.
LivingPeerKept == peer = "alive" /\ ~open => slow

\* ws_util.go:49-55: the handler of a dead peer returns within Limit, whether it
\* waits in ReadMessage or is stuck in a write without a deadline (room.go:403),
\* from which only the ping goroutine frees it; unless it stayed away in writes
\* to others for longer than the allowance.
DeadPeerTornDown == deadFor > Limit => slow

=============================================================================
