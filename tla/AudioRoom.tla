------------------------------ MODULE AudioRoom ------------------------------
(***************************************************************************)
(* The audio clients of one Room (MSE fallback): JoinRoom with its         *)
(* unlocked init writes, Broadcast, SendKeyframe and LeaveRoom, and the    *)
(* screen_share_started and screen_share_stopped messages, which go to the *)
(* same connections.                                                       *)
(*                                                                         *)
(* A step is a critical section of room.mutex, or of audioWriteMu:         *)
(* Broadcast's writes are one step each, with the mutex held in between.   *)
(* The units of a sender's stream are numbered (WebmRelay says what is in  *)
(* them): unit 1 is the only one with the init.  What becomes of the Room  *)
(* itself is in RoomManager, the VoiceSFU in VoiceSFU.                     *)
(***************************************************************************)
EXTENDS Naturals, FiniteSetsExt

CONSTANTS
  Clients,      \* audio connections, each of a user of its own
  Publishers,   \* screen publishers
  Owner,        \* the audio connection of a publisher's user
  MaxUnits,     \* bound: units of each sender's stream
  MaxRequests,  \* bound: how often a client sends request_keyframe
  None

ASSUME AudioRoomAssumption ==
  /\ Owner \in [Publishers -> Clients]
  /\ MaxUnits \in [Clients -> Nat] /\ MaxRequests \in Nat
  /\ None \notin Clients

VARIABLES
  clients,      \* r.clients
  cached,       \* r.initSegments: the unit it begins with, 0 if there is none
  relay,        \* r.audioRelays
  produced,     \* units each sender's relays have produced or lost so far
  writer,       \* the sender whose Broadcast holds audioWriteMu
  handler,      \* per client: where its read loop is
  inits,        \* per client and sender: the cached unit it has in hand, or 0
  todo,         \* per sender and client: what its Broadcast has still to write
  notify,       \* per client: the shares its handler has still to tell it of
  requests,     \* per client: how often it has asked for a keyframe
  sharing,      \* r.screenPublishers
  pub,          \* per publisher: where its handler is
  targets,      \* per publisher: whom BroadcastScreenShareState has collected
  last,         \* per client and sender: the unit received last, or 0
  fresh,        \* <<client, sender>>: that came out of the cache
  badge,        \* per client: the shares it shows as live
  broken,       \* connections that take no more frames
  dropped,      \* history: clients taken out by a Broadcast
  missed        \* history: <<client, sender>> whose keyframe was finalized
                \* between the client's snapshot and its registration

streamVars == <<cached, relay, produced>>
loopVars   == <<inits, todo, requests>>
shareVars  == <<sharing, pub, targets, notify, badge>>
inbox      == <<last, fresh>>
history    == <<dropped, missed>>
vars == <<clients, streamVars, writer, handler, loopVars, shareVars, inbox, broken,
          history>>

TypeOK ==
  /\ clients \subseteq Clients
  /\ cached \in [Clients -> Nat]
  /\ relay \in [Clients -> {"nil", "pending", "ready"}]
  /\ produced \in [Clients -> Nat]
  /\ \A s \in Clients : cached[s] # 0 => relay[s] = "ready"
  /\ writer \in Clients \cup {None}
  /\ handler \in [Clients -> {"out", "joining", "registered", "reading",
                              "broadcasting", "writing", "asking", "gone"}]
  /\ inits \in [Clients -> [Clients -> Nat]]
  /\ todo \in [Clients -> [Clients -> SUBSET Nat]]
  /\ notify \in [Clients -> SUBSET Publishers]
  /\ requests \in [Clients -> 0 .. MaxRequests]
  /\ sharing \subseteq Publishers
  /\ pub \in [Publishers -> {"out", "started", "announcing", "sharing", "stopped",
                             "retracting", "gone"}]
  /\ targets \in [Publishers -> SUBSET Clients]
  /\ last \in [Clients -> [Clients -> Nat]]
  /\ fresh \subseteq Clients \X Clients
  /\ badge \in [Clients -> SUBSET Publishers]
  /\ broken \subseteq Clients
  /\ dropped \subseteq Clients /\ missed \subseteq Clients \X Clients

Init ==
  /\ clients = {}
  /\ cached = [s \in Clients |-> 0]
  /\ relay = [s \in Clients |-> "nil"]
  /\ produced = [s \in Clients |-> 0]
  /\ writer = None
  /\ handler = [c \in Clients |-> "out"]
  /\ inits = [c \in Clients |-> [s \in Clients |-> 0]]
  /\ todo = [s \in Clients |-> [c \in Clients |-> {}]]
  /\ notify = [c \in Clients |-> {}]
  /\ requests = [c \in Clients |-> 0]
  /\ sharing = {}
  /\ pub = [p \in Publishers |-> "out"]
  /\ targets = [p \in Publishers |-> {}]
  /\ last = [c \in Clients |-> [s \in Clients |-> 0]]
  /\ fresh = {}
  /\ badge = [c \in Clients |-> {}]
  /\ broken = {} /\ dropped = {} /\ missed = {}

-----------------------------------------------------------------------------
Goto(c, at) == handler' = [handler EXCEPT ![c] = at]

\* Client c receives unit u of sender s, from the cache or broadcast.
Receive(c, s, u, fromCache) ==
  IF c \in broken
  THEN UNCHANGED inbox
  ELSE /\ last' = [last EXCEPT ![c][s] = u]
       /\ fresh' = IF fromCache THEN fresh \cup {<<c, s>>} ELSE fresh \ {<<c, s>>}

\* Mutant: a leaving client's keyframe stays cached.
ForgetClient(c) ==
  /\ clients' = clients \ {c}
  /\ relay' = [relay EXCEPT ![c] = "nil"]
  /\ produced' = [produced EXCEPT ![c] = IF relay[c] = "pending" THEN Max({@, 1}) ELSE @]
  /\ UNCHANGED cached

\* Take c out of the room's three maps.  With its relay goes the init, if that
\* has not been relayed yet.
DeleteClient(c) ==
  /\ clients' = clients \ {c}
  /\ cached' = [cached EXCEPT ![c] = 0]
  /\ relay' = [relay EXCEPT ![c] = "nil"]
  /\ produced' = [produced EXCEPT ![c] = IF relay[c] = "pending" THEN Max({@, 1}) ELSE @]

-----------------------------------------------------------------------------
(* handleAudioStream: JoinRoom                                             *)

\* Mutant: the client becomes a target before it has its inits.
SnapshotAndRegister(c) ==
  /\ handler[c] = "out"
  /\ Goto(c, "joining")
  /\ inits' = [inits EXCEPT ![c] = [s \in Clients |-> cached[s]]]
  /\ clients' = clients \cup {c}
  /\ UNCHANGED <<streamVars, writer, todo, requests, shareVars, inbox, broken,
                 history>>

\* Copy the cached keyframes, under room.mutex.
SnapshotInits(c) ==
  /\ handler[c] = "out"
  /\ Goto(c, "joining")
  /\ inits' = [inits EXCEPT ![c] = [s \in Clients |-> cached[s]]]
  /\ UNCHANGED <<clients, streamVars, writer, todo, requests, shareVars, inbox,
                 broken, history>>

\* Write one of them, without a mutex.
SendInit(c, s) ==
  /\ handler[c] = "joining" /\ c \notin broken
  /\ inits[c][s] # 0
  /\ Receive(c, s, inits[c][s], TRUE)
  /\ inits' = [inits EXCEPT ![c][s] = 0]
  /\ UNCHANGED <<clients, streamVars, writer, handler, todo, requests, shareVars,
                 broken, history>>

\* The write fails: JoinRoom returns nil.
SendInitFails(c) ==
  /\ handler[c] = "joining" /\ c \in broken
  /\ \E s \in Clients : inits[c][s] # 0
  /\ Goto(c, "gone")
  /\ inits' = [inits EXCEPT ![c] = [s \in Clients |-> 0]]
  /\ UNCHANGED <<clients, streamVars, writer, todo, requests, shareVars, inbox,
                 broken, history>>

\* Become a target, under room.mutex.
RegisterClient(c) ==
  /\ handler[c] = "joining"
  /\ \A s \in Clients : inits[c][s] = 0
  /\ Goto(c, "registered")
  /\ clients' = clients \cup {c}
  /\ UNCHANGED <<streamVars, writer, loopVars, shareVars, inbox, broken, history>>

\* Mutant: a share counts when everybody has been told of it.
SettledShares(c) ==
  /\ handler[c] = "registered"
  /\ Goto(c, "reading")
  /\ notify' = [notify EXCEPT ![c] = {p \in sharing : pub[p] = "sharing"}]
  /\ UNCHANGED <<clients, streamVars, writer, loopVars, sharing, pub, targets,
                 badge, inbox, broken, history>>

\* CurrentScreenSharePublishers
CurrentShares(c) ==
  /\ handler[c] = "registered"
  /\ Goto(c, "reading")
  /\ notify' = [notify EXCEPT ![c] = sharing]
  /\ UNCHANGED <<clients, streamVars, writer, loopVars, sharing, pub, targets,
                 badge, inbox, broken, history>>

\* NotifyScreenShareState
NotifyShare(c, p) ==
  /\ p \in notify[c] /\ writer = None
  /\ notify' = [notify EXCEPT ![c] = @ \ {p}]
  /\ badge' = IF c \in broken THEN badge ELSE [badge EXCEPT ![c] = @ \cup {p}]
  /\ UNCHANGED <<clients, streamVars, writer, handler, loopVars, sharing, pub,
                 targets, inbox, broken, history>>

\* The handler waits for a message, or for the end of the connection.
Reading(c) == handler[c] = "reading" /\ notify[c] = {}

-----------------------------------------------------------------------------
(* Broadcast, SendKeyframe, LeaveRoom                                      *)

\* Broadcast under room.mutex, for a message that completes n units: feed the
\* sender's relay, cache its keyframe and collect the targets.  A dropped client
\* is still read from and gets a new relay.
Broadcast(s, n) ==
  LET finalized == relay[s] # "ready" /\ n > 0
      end       == produced[s] + n
      units     == produced[s] + 1 .. end
  IN  /\ Reading(s)
      /\ end <= MaxUnits[s]
      /\ relay' = [relay EXCEPT ![s] = IF finalized THEN "ready"
                                       ELSE IF @ = "nil" THEN "pending" ELSE @]
      /\ produced' = [produced EXCEPT ![s] = end]
      /\ cached' = IF finalized THEN [cached EXCEPT ![s] = end - n + 1] ELSE cached
      /\ todo' = [todo EXCEPT ![s] = [c \in Clients |->
                    IF c \in clients \ {s} THEN units ELSE {}]]
      /\ Goto(s, IF n = 0 THEN "reading" ELSE "broadcasting")
      /\ missed' = IF finalized
                   THEN missed \cup {<<c, s>> : c \in {d \in Clients :
                                                       handler[d] = "joining"}}
                   ELSE missed
      /\ UNCHANGED <<clients, writer, inits, requests, shareVars, inbox, broken,
                     dropped>>

\* It locks audioWriteMu ...
LockWrites(s) ==
  /\ handler[s] = "broadcasting" /\ writer = None
  /\ Goto(s, "writing")
  /\ writer' = s
  /\ UNCHANGED <<clients, streamVars, loopVars, shareVars, inbox, broken, history>>

\* ... writes to c (the network may swallow what a dead peer is sent) ...
WriteUnit(s, c) ==
  /\ handler[s] = "writing"
  /\ todo[s][c] # {}
  /\ LET u == Min(todo[s][c])
     IN  /\ Receive(c, s, u, FALSE)
         /\ todo' = [todo EXCEPT ![s][c] = @ \ {u}]
  /\ UNCHANGED <<clients, streamVars, writer, handler, inits, requests, shareVars,
                 broken, history>>

\* ... drops a client to which a write fails, under room.mutex ...
DropClient(s, c) ==
  /\ handler[s] = "writing"
  /\ todo[s][c] # {} /\ c \in broken
  /\ todo' = [todo EXCEPT ![s][c] = {}]
  /\ DeleteClient(c)
  /\ dropped' = dropped \cup {c}
  /\ UNCHANGED <<writer, handler, inits, requests, shareVars, inbox, broken, missed>>

\* ... and unlocks.
UnlockWrites(s) ==
  /\ handler[s] = "writing"
  /\ \A c \in Clients : todo[s][c] = {}
  /\ Goto(s, "reading")
  /\ writer' = None
  /\ UNCHANGED <<clients, streamVars, loopVars, shareVars, inbox, broken, history>>

\* SendKeyframe under room.mutex: the sender must be registered.
RequestKeyframe(c, s) ==
  /\ Reading(c)
  /\ requests[c] < MaxRequests
  /\ s \in clients /\ cached[s] # 0
  /\ requests' = [requests EXCEPT ![c] = @ + 1]
  /\ inits' = [inits EXCEPT ![c][s] = cached[s]]
  /\ Goto(c, "asking")
  /\ UNCHANGED <<clients, streamVars, writer, todo, shareVars, inbox, broken,
                 history>>

\* Its write, under audioWriteMu; an error is only logged.
SendKeyframe(c, s) ==
  /\ handler[c] = "asking" /\ writer = None
  /\ inits[c][s] # 0
  /\ Receive(c, s, inits[c][s], TRUE)
  /\ inits' = [inits EXCEPT ![c][s] = 0]
  /\ Goto(c, "reading")
  /\ UNCHANGED <<clients, streamVars, writer, todo, requests, shareVars, broken,
                 history>>

\* LeaveRoom, when the read fails; the connection is closed.
LeaveRoom(c) ==
  /\ Reading(c)
  /\ Goto(c, "gone")
  /\ DeleteClient(c)
  /\ broken' = broken \cup {c}
  /\ UNCHANGED <<writer, loopVars, shareVars, inbox, history>>

\* The peer stops to take frames.
PeerStalls(c) ==
  /\ handler[c] \notin {"out", "gone"} /\ c \notin broken
  /\ broken' = broken \cup {c}
  /\ UNCHANGED <<clients, streamVars, writer, handler, loopVars, shareVars, inbox,
                 history>>

-----------------------------------------------------------------------------
(* handleScreenPublisher: BroadcastScreenShareState                        *)

PubGoto(p, at) == pub' = [pub EXCEPT ![p] = at]

AddScreenPublisher(p) ==
  /\ pub[p] = "out"
  /\ PubGoto(p, "started")
  /\ sharing' = sharing \cup {p}
  /\ UNCHANGED <<clients, streamVars, writer, handler, loopVars, targets, notify,
                 badge, inbox, broken, history>>

ClearScreenPublisher(p) ==
  /\ pub[p] = "sharing"
  /\ PubGoto(p, "stopped")
  /\ sharing' = sharing \ {p}
  /\ UNCHANGED <<clients, streamVars, writer, handler, loopVars, targets, notify,
                 badge, inbox, broken, history>>

\* BroadcastScreenShareState under room.mutex, for either message.
CollectTargets(p) ==
  /\ \/ pub[p] = "started" /\ PubGoto(p, "announcing")
     \/ pub[p] = "stopped" /\ PubGoto(p, "retracting")
  /\ targets' = [targets EXCEPT ![p] = clients \ {Owner[p]}]
  /\ UNCHANGED <<clients, streamVars, writer, handler, loopVars, sharing, notify,
                 badge, inbox, broken, history>>

\* Its writes, under audioWriteMu; errors are only logged.
SendShareState(p) ==
  /\ writer = None
  /\ \/ /\ pub[p] = "announcing" /\ PubGoto(p, "sharing")
        /\ badge' = [c \in Clients |->
                       IF c \in targets[p] \ broken THEN badge[c] \cup {p} ELSE badge[c]]
     \/ /\ pub[p] = "retracting" /\ PubGoto(p, "gone")
        /\ badge' = [c \in Clients |->
                       IF c \in targets[p] \ broken THEN badge[c] \ {p} ELSE badge[c]]
  /\ targets' = [targets EXCEPT ![p] = {}]
  /\ UNCHANGED <<clients, streamVars, writer, handler, loopVars, sharing, notify,
                 inbox, broken, history>>

-----------------------------------------------------------------------------
JoinRoom(c) ==
  \/ SnapshotInits(c)
  \/ \E s \in Clients : SendInit(c, s)
  \/ SendInitFails(c)
  \/ RegisterClient(c)

HandleAudioStream(c) ==
  \/ JoinRoom(c)
  \/ CurrentShares(c)
  \/ \E p \in Publishers : NotifyShare(c, p)
  \/ \E n \in 0 .. MaxUnits[c] : Broadcast(c, n)
  \/ LockWrites(c)
  \/ \E d \in Clients : WriteUnit(c, d) \/ DropClient(c, d)
  \/ UnlockWrites(c)
  \/ \E s \in Clients : RequestKeyframe(c, s) \/ SendKeyframe(c, s)
  \/ LeaveRoom(c)

HandleScreenPublisher(p) ==
  \/ AddScreenPublisher(p)
  \/ ClearScreenPublisher(p)
  \/ CollectTargets(p)
  \/ SendShareState(p)

Next ==
  \/ \E c \in Clients : HandleAudioStream(c) \/ PeerStalls(c)
  \/ \E p \in Publishers : HandleScreenPublisher(p)

Spec == Init /\ [][Next]_vars

-----------------------------------------------------------------------------
(* Correctness                                                             *)

\* Nobody else writes to a connection while JoinRoom writes to it without a
\* mutex (room.go:402-408; gorilla/websocket panics on concurrent writes): it is
\* no target of a Broadcast, nor of a share message.
InitUndisturbed ==
  \A c \in Clients : handler[c] = "joining" =>
    /\ c \notin clients
    /\ \A s \in Clients : todo[s][c] = {}
    /\ \A p \in Publishers : c \notin targets[p]

\* What c may receive of s behind what it has received last: the keyframe, the
\* next unit, or a later one if that came out of the cache.
Follows(c, s, u) ==
  \/ u = 1
  \/ last[c][s] > 0 /\ u = last[c][s] + 1
  \/ <<c, s>> \in fresh /\ u > last[c][s]

\* A receiver can decode what it gets of each sender: the init first, then no
\* gap, whatever others broadcast, join, ask and leave in the meantime.  Exempt
\* are a keyframe finalized while the client was joining (see InitBeforeMedia)
\* and a sender that has been dropped, whose new relay knows no init.
StreamsDecodable ==
  [][\A c, s \in Clients :
       last'[c][s] # last[c][s] /\ <<c, s>> \notin missed /\ s \notin dropped
         => Follows(c, s, last'[c][s])]_vars

\* README, "Cached keyframes clear when that sender disconnects": also when the
\* sender was dropped first and has cached another one since (room.go:605-607,
\* 434-436, 569).
CacheOwned ==
  \A s \in Clients : handler[s] = "gone" => cached[s] = 0 /\ relay[s] = "nil"

\* A share that starts while a client joins is announced to it by the publisher
\* or by its own handler, which looks for shares after it has registered
\* (api.go:295-297, screen.go:87-99).
NoBadgeMissed ==
  \A p \in Publishers, c \in clients \ broken :
    pub[p] = "sharing" /\ Reading(c) /\ c # Owner[p] => p \in badge[c]

-----------------------------------------------------------------------------
(* What comments promise                                                   *)

\* README, "a late joiner always starts with `init + media`", and room.go:400-401,
\* "Send init segments BEFORE registering the client as a target. This
\* guarantees init-before-media for late joiners."
InitBeforeMedia ==
  [][\A c, s \in Clients : last[c][s] = 0 => last'[c][s] \in {0, 1}]_vars

=============================================================================
