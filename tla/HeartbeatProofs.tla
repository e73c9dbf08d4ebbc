---------------------------- MODULE HeartbeatProofs ---------------------------
(***************************************************************************)
(* Proofs about Heartbeat, for all intervals, and all allowances that fit  *)
(* between them (HeartbeatAssumption): while no delay exceeds its          *)
(* allowance a living peer is not torn down, and the handler of a dead one *)
(* returns within Limit.  How long the delays are is not assumed.          *)
(***************************************************************************)
EXTENDS Heartbeat, TLAPS

\* What the clocks of a ping say of each other: while WriteControl waits, the
\* ticker has run as long, and no earlier pong is outstanding; the answer to a
\* ping is due before the ticker fires again.
PingInv ==
  /\ pinger = "stopped" => ~open
  /\ pinger = "writing" => toPing = PingInterval - writing /\ flight = -1
  /\ flight # -1 => toPing >= PingInterval - PingWriteTimeout - flight
  /\ peer = "alive" => handler # "stuck" /\ deadFor = 0

\* Why LivingPeerKept holds: the read deadline of a living peer leaves more time
\* than the handler, the pong, the ping and the ticker together may still take.
AliveInv ==
  peer = "alive" /\ ~slow =>
    /\ open /\ handler # "done"
    /\ away <= MaxBusy
    /\ pinger = "writing" => writing <= MaxQueue
    /\ arrived => deadline > MaxBusy - away
    /\ ~arrived /\ flight # -1 => deadline > RoundTrip - flight + MaxBusy
    /\ ~arrived /\ flight = -1 /\ pinger = "writing" =>
         deadline > MaxQueue - writing + RoundTrip + MaxBusy
    /\ ~arrived /\ flight = -1 /\ pinger = "waiting" =>
         deadline > toPing + MaxQueue + RoundTrip + MaxBusy

\* Why DeadPeerTornDown holds: the last pong is read within RoundTrip and
\* MaxBusy, the deadline is never put off after that, and a blocked write lasts
\* until the next ping fails.
DeadInv ==
  ~slow =>
    /\ away <= MaxBusy
    /\ flight # -1 => deadFor <= flight
    /\ handler = "joining" => deadFor <= away
    /\ handler \in {"joining", "busy"} => deadFor <= RoundTrip + PongWait + away
    /\ handler \in {"joining", "busy", "reading"} =>
         /\ deadFor + deadline <= RoundTrip + MaxBusy + PongWait
         /\ arrived => deadFor <= RoundTrip + away
    /\ handler = "stuck" =>
         /\ deadFor <= MaxBusy + PingInterval + PingWriteTimeout
         /\ pinger = "waiting" => deadFor + toPing <= MaxBusy + PingInterval
         /\ pinger = "writing" => deadFor <= MaxBusy + PingInterval + writing
    /\ deadFor <= Limit

IInv == TypeOK /\ PingInv /\ AliveInv /\ DeadInv

\* Nothing has been sent or has run out yet.
LEMMA InitIInv == Init => IInv
<1> SUFFICES ASSUME Init PROVE IInv
  OBVIOUS
<1> USE HeartbeatAssumption DEF HeartbeatAssumption, Init
<1>1. open \in BOOLEAN /\ arrived \in BOOLEAN /\ slow \in BOOLEAN
  OBVIOUS
<1>2. /\ away \in 0 .. MaxBusy + 1 /\ deadline \in 0 .. PongWait
      /\ toPing \in 0 .. PingInterval /\ writing \in 0 .. PingWriteTimeout
      /\ flight \in -1 .. RoundTrip /\ deadFor \in 0 .. Limit + 1
  BY DEF Limit
<1>3. /\ peer \in {"alive", "dead"}
      /\ handler \in {"joining", "stuck", "busy", "reading", "done"}
      /\ pinger \in {"waiting", "writing", "stopped"}
      /\ handler # "done"
  OBVIOUS
<1>4. TypeOK
  BY <1>1, <1>2, <1>3, Zenon DEF TypeOK
<1>5. PingInv
  BY DEF PingInv
<1>6. AliveInv
  BY DEF AliveInv
<1>7. DeadInv
  BY DEF DeadInv, Limit
<1> QED
  BY <1>4, <1>5, <1>6, <1>7 DEF IInv

-----------------------------------------------------------------------------
\* The Boolean variables and the others are typed apart.
LEMMA BooleanStep ==
  TypeOK /\ [Next]_vars =>
    open' \in BOOLEAN /\ arrived' \in BOOLEAN /\ slow' \in BOOLEAN
<1> SUFFICES ASSUME TypeOK, [Next]_vars
             PROVE  open' \in BOOLEAN /\ arrived' \in BOOLEAN /\ slow' \in BOOLEAN
  OBVIOUS
<1>1. CASE PingGoroutine
  BY <1>1, Zenon DEF TypeOK, netVars, PingGoroutine, TickerFires, PingWritten,
     PingFails, PingerStops
<1>2. CASE Handler
  BY <1>2, Zenon DEF TypeOK, netVars, Handler, BeginReading, WriteBlocks,
     WriteUnblocks, ReadMessage, HandlePong, ReadFails
<1>3. CASE PongArrives \/ PeerDies
  BY <1>3, Zenon DEF TypeOK, PongArrives, PeerDies
<1>4. CASE Tick
  BY <1>4, Zenon DEF TypeOK, Tick
<1>5. CASE UNCHANGED vars
  BY <1>5, Zenon DEF TypeOK, vars, netVars
<1> QED
  BY <1>1, <1>2, <1>3, <1>4, <1>5, Zenon DEF Next

\* The types of the other variables.
Ranges ==
  /\ peer \in {"alive", "dead"}
  /\ handler \in {"joining", "stuck", "busy", "reading", "done"}
  /\ pinger \in {"waiting", "writing", "stopped"}
  /\ away \in 0 .. MaxBusy + 1 /\ deadline \in 0 .. PongWait
  /\ toPing \in 0 .. PingInterval /\ writing \in 0 .. PingWriteTimeout
  /\ flight \in -1 .. RoundTrip /\ deadFor \in 0 .. Limit + 1

\* Timers run within their limits.
LEMMA RangesStep == TypeOK /\ [Next]_vars => Ranges'
<1> SUFFICES ASSUME TypeOK, [Next]_vars PROVE Ranges'
  OBVIOUS
<1> USE HeartbeatAssumption DEF HeartbeatAssumption, TypeOK, Ranges
<1>1. CASE PingGoroutine
  BY <1>1 DEF PingGoroutine, netVars, TickerFires, PingWritten, PingFails,
     PingerStops
<1>2. CASE Handler
  BY <1>2 DEF Handler, pingVars, netVars, BeginReading, WriteBlocks,
     WriteUnblocks, ReadMessage, HandlePong, ReadFails
<1>3. CASE PongArrives \/ PeerDies
  BY <1>3 DEF pingVars, PongArrives, PeerDies
<1>4. CASE Tick
  BY <1>4 DEF Tick, Due, Less, Limit
<1>5. CASE UNCHANGED vars
  BY <1>5 DEF vars, pingVars, netVars
<1> QED
  BY <1>1, <1>2, <1>3, <1>4, <1>5 DEF Next

\* Every action keeps the types.
LEMMA TypeStep == TypeOK /\ [Next]_vars => TypeOK'
<1> SUFFICES ASSUME TypeOK, [Next]_vars PROVE TypeOK'
  OBVIOUS
<1>1. handler' = "done" => ~open'
  BY DEF TypeOK, Next, vars, pingVars, netVars, PingGoroutine, TickerFires,
     PingWritten, PingFails, PingerStops, Handler, BeginReading, WriteBlocks,
     WriteUnblocks, ReadMessage, HandlePong, ReadFails, PongArrives, PeerDies,
     Tick
<1> QED
  BY <1>1, BooleanStep, RangesStep, Zenon DEF TypeOK, Ranges

-----------------------------------------------------------------------------
\* Every action keeps PingInv.
LEMMA PingStep == IInv /\ [Next]_vars => PingInv'
<1> SUFFICES ASSUME IInv, [Next]_vars PROVE PingInv'
  OBVIOUS
<1> USE HeartbeatAssumption DEF HeartbeatAssumption, IInv, TypeOK, PingInv,
        AliveInv, pingVars, netVars
<1>1. CASE TickerFires
  BY <1>1 DEF TickerFires
<1>2. CASE PingWritten
  BY <1>2 DEF PingWritten
<1>3. CASE PingFails \/ PingerStops
  BY <1>3 DEF PingFails, PingerStops
<1>4. CASE Handler
  BY <1>4 DEF Handler, BeginReading, WriteBlocks, WriteUnblocks, ReadMessage,
     HandlePong, ReadFails
<1>5. CASE PongArrives \/ PeerDies
  BY <1>5 DEF PongArrives, PeerDies
<1>6. CASE Tick
  BY <1>6 DEF Tick, Due, Less
<1>7. CASE UNCHANGED vars
  BY <1>7 DEF vars
<1> QED
  BY <1>1, <1>2, <1>3, <1>4, <1>5, <1>6, <1>7 DEF Next, PingGoroutine

\* Every action keeps AliveInv: a pong that is on its way comes before the
\* deadline.
LEMMA AliveStep == IInv /\ [Next]_vars => AliveInv'
<1> SUFFICES ASSUME IInv, [Next]_vars, peer' = "alive" PROVE AliveInv'
  BY DEF AliveInv
<1> USE HeartbeatAssumption DEF HeartbeatAssumption, IInv, TypeOK, PingInv,
        AliveInv, pingVars, netVars
<1>1. CASE TickerFires
  BY <1>1 DEF TickerFires
<1>2. CASE PingWritten
  BY <1>2 DEF PingWritten
<1>3. CASE PingFails \/ PingerStops
  BY <1>3 DEF PingFails, PingerStops
<1>4. CASE BeginReading \/ WriteBlocks \/ WriteUnblocks \/ ReadMessage
  BY <1>4 DEF BeginReading, WriteBlocks, WriteUnblocks, ReadMessage
<1>5. CASE HandlePong
  BY <1>5 DEF HandlePong
<1>6. CASE ReadFails
  BY <1>6 DEF ReadFails
<1>7. CASE PongArrives
  BY <1>7 DEF PongArrives
<1>8. CASE PeerDies
  BY <1>8 DEF PeerDies
<1>9. CASE Tick
  BY <1>9 DEF Tick, Due, Less, Overrun
<1>10. CASE UNCHANGED vars
  BY <1>10 DEF vars
<1> QED
  BY <1>1, <1>2, <1>3, <1>4, <1>5, <1>6, <1>7, <1>8, <1>9, <1>10 DEF Next,
     PingGoroutine, Handler

\* Every action keeps DeadInv: nothing puts off the deadline of a dead peer.
LEMMA DeadStep == IInv /\ [Next]_vars => DeadInv'
<1> SUFFICES ASSUME IInv, [Next]_vars PROVE DeadInv'
  OBVIOUS
<1> USE HeartbeatAssumption DEF HeartbeatAssumption, IInv, TypeOK, PingInv,
        AliveInv, DeadInv, Limit, pingVars, netVars
<1>1. CASE TickerFires
  BY <1>1 DEF TickerFires
<1>2. CASE PingWritten
  BY <1>2 DEF PingWritten
<1>3. CASE PingFails \/ PingerStops
  BY <1>3 DEF PingFails, PingerStops
<1>4. CASE BeginReading
  BY <1>4 DEF BeginReading
<1>5. CASE WriteBlocks
  BY <1>5 DEF WriteBlocks
<1>6. CASE WriteUnblocks
  BY <1>6 DEF WriteUnblocks
<1>7. CASE ReadMessage
  BY <1>7 DEF ReadMessage
<1>8. CASE HandlePong
  BY <1>8 DEF HandlePong
<1>9. CASE ReadFails
  BY <1>9 DEF ReadFails
<1>10. CASE PongArrives
  BY <1>10 DEF PongArrives
<1>11. CASE PeerDies
  BY <1>11 DEF PeerDies
<1>12. CASE Tick
  <2>1. SUFFICES ASSUME ~slow' PROVE DeadInv'
    BY DEF DeadInv
  <2>2. /\ ~slow /\ ~Overrun
        /\ UNCHANGED <<peer, open, handler, pinger, arrived>>
        /\ away' = IF handler \in {"joining", "busy"} THEN away + 1 ELSE away
        /\ deadFor' \in {deadFor, deadFor + 1}
        /\ handler \in {"done"} \/ peer = "alive" => deadFor' = deadFor
    BY <1>12, <2>1 DEF Tick
  <2>3. CASE handler \in {"joining", "busy"}
    BY <1>12, <2>1, <2>2, <2>3 DEF Tick, Due, Less, Overrun
  <2>4. CASE handler = "reading"
    BY <1>12, <2>1, <2>2, <2>4 DEF Tick, Due, Less
  <2>5. CASE handler = "stuck"
    BY <1>12, <2>1, <2>2, <2>5 DEF Tick, Due, Less
  <2>6. CASE handler = "done"
    BY <1>12, <2>1, <2>2, <2>6 DEF Tick, Due, Less
  <2> QED
    BY <2>3, <2>4, <2>5, <2>6
<1>13. CASE UNCHANGED vars
  BY <1>13 DEF vars
<1> QED
  BY <1>1, <1>2, <1>3, <1>4, <1>5, <1>6, <1>7, <1>8, <1>9, <1>10, <1>11, <1>12,
     <1>13 DEF Next, PingGoroutine, Handler

-----------------------------------------------------------------------------
\* The inductive invariant.
THEOREM Invariance == Spec => []IInv
<1>1. IInv /\ [Next]_vars => IInv'
  BY TypeStep, PingStep, AliveStep, DeadStep DEF IInv
<1> QED
  BY InitIInv, <1>1, PTL DEF Spec

\* Type correctness of the heartbeat's clocks and states.
THEOREM TypeCorrect == Spec => []TypeOK
  BY Invariance, PTL DEF IInv

\* A client that answers every ping is torn down (ws_util.go:18-19) only if,
\* since its last pong was read, a delay exceeded its allowance, however the
\* slack between pingInterval and pongWait is divided into allowances.
THEOREM LivingPeerStays == Spec => []LivingPeerKept
<1>1. IInv => LivingPeerKept
  BY DEF IInv, AliveInv, LivingPeerKept
<1> QED
  BY Invariance, <1>1, PTL

\* The handler of a dead peer returns within Limit (ws_util.go:49-55), unless it
\* was busy with writes to others for longer than its allowance.
THEOREM DeadPeerLeaves == Spec => []DeadPeerTornDown
<1>1. IInv => DeadPeerTornDown
  BY HeartbeatAssumption DEF HeartbeatAssumption, IInv, TypeOK, DeadInv,
     DeadPeerTornDown, Limit
<1> QED
  BY Invariance, <1>1, PTL
=============================================================================
