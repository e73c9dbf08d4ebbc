----------------------------- MODULE RoomManager -----------------------------
(***************************************************************************)
(* RoomManager and Room: creation, lookup, membership, the idle timer,     *)
(* forced removal (room.go), and the connection handlers that drive them   *)
(* (handleAudioStream in api.go, handleScreenPublisher and                 *)
(* handleScreenViewer in screen.go).                                       *)
(*                                                                         *)
(* One key of rm.rooms is modelled: no operation of the manager reads or   *)
(* writes two keys.  What does matter is that the key may be bound to one  *)
(* Room object after another while goroutines still hold a pointer to an   *)
(* earlier one, so Rooms is the pool of Room objects, not of room ids.     *)
(*                                                                         *)
(* A step is one critical section of rm.mutex or room.mutex, or one call   *)
(* made outside both (Timer.Stop, Timer.Reset, Conn.Close).  Only          *)
(* destroyRoom keeps rm.mutex over two steps (RmFree).                     *)
(*                                                                         *)
(* Token values are abstracted to the outcome of the comparison.           *)
(***************************************************************************)
EXTENDS Naturals, FiniteSets

CONSTANTS
  Rooms,        \* Room objects the key may be bound to, one after another
  Clients,      \* audio connections (/api/rooms/stream)
  Publishers,   \* screen connections with role=publisher
  Viewers,      \* screen connections with role=viewer
  MaxShares,    \* maxScreenSharesPerRoom
  NoRoom,       \* the key is absent from rm.rooms
  NoPublisher   \* a viewer that has not resolved its target yet

ASSUME RoomManagerAssumption ==
  /\ NoRoom \notin Rooms
  /\ NoPublisher \notin Publishers
  /\ Clients \cap Publishers = {}
  /\ Clients \cap Viewers = {}
  /\ Publishers \cap Viewers = {}
  /\ IsFiniteSet(Publishers)
  /\ MaxShares \in Nat \ {0}

Conns == Clients \cup Publishers \cup Viewers

VARIABLES
  rooms,        \* rm.rooms[roomID]: a Room object or NoRoom
  life,         \* per Room: how far its life has come (see Life)
  timer,        \* per Room: idleTimer
  callback,     \* per Room: the timer's goroutine, in destroyRoom
  clients,      \* per Room: room.clients
  publishers,   \* per Room: the keys of room.screenPublishers
  viewers,      \* per publisher: pub.viewers
  voice,        \* per Room: room.voiceSFU
  sfu,          \* per publisher: pub.sfu ("late": open, made for a publisher
                \* the room had forgotten)
  pc,           \* per connection: where its handler is
  at,           \* per connection: the Room its handler points to
  target,       \* per viewer: the publisher its handler points to
  open,         \* connections whose websocket is open
  evict,        \* per Room: allConns of its RemoveRoom
  sfus,         \* per Room: sfus of its RemoveRoom, as their publishers
  drop,         \* per client: whom its Broadcast took out and has yet to close
  dismiss,      \* per publisher: viewers its handler still has to close
  late          \* history: registered with something gone

connVars  == <<pc, at, target>>
roomVars  == <<clients, publishers, viewers>>
sfuVars   == <<voice, sfu>>
closeVars == <<evict, sfus, drop, dismiss>>
mapVars   == <<rooms, life, callback>>
vars == <<rooms, life, timer, callback, clients, publishers, viewers, voice,
          sfu, pc, at, target, open, evict, sfus, drop, dismiss, late>>

\* "unlisted" to "sfusClosed" are the stages of a running RemoveRoom.
Life == {"fresh", "listed", "unlisted", "stopped", "cleared", "sfusClosed",
         "removed", "destroyed"}

Stage == {"idle", "found", "targeted", "in", "leaving", "emptied",
          "releasing", "dismissing", "resetLookup", "resetCheck", "done"}

TypeOK ==
  /\ rooms \in Rooms \cup {NoRoom}
  /\ life \in [Rooms -> Life]
  /\ timer \in [Rooms -> {"stopped", "armed"}]
  /\ callback \in [Rooms -> {"none", "due", "deciding"}]
  /\ clients \in [Rooms -> SUBSET Clients]
  /\ publishers \in [Rooms -> SUBSET Publishers]
  /\ viewers \in [Publishers -> SUBSET Viewers]
  /\ voice \in [Rooms -> {"nil", "open"}]
  /\ sfu \in [Publishers -> {"nil", "open", "late", "closed"}]
  /\ pc \in [Conns -> Stage]
  /\ at \in [Conns -> Rooms \cup {NoRoom}]
  /\ target \in [Viewers -> Publishers \cup {NoPublisher}]
  /\ open \subseteq Conns
  /\ evict \in [Rooms -> SUBSET Conns]
  /\ sfus \in [Rooms -> SUBSET Publishers]
  /\ drop \in [Clients -> SUBSET Clients]
  /\ dismiss \in [Publishers -> SUBSET Viewers]
  /\ late \subseteq Conns

Init ==
  /\ rooms = NoRoom
  /\ life = [r \in Rooms |-> "fresh"]
  /\ timer = [r \in Rooms |-> "stopped"]
  /\ callback = [r \in Rooms |-> "none"]
  /\ clients = [r \in Rooms |-> {}]
  /\ publishers = [r \in Rooms |-> {}]
  /\ viewers = [p \in Publishers |-> {}]
  /\ voice = [r \in Rooms |-> "nil"]
  /\ sfu = [p \in Publishers |-> "nil"]
  /\ pc = [c \in Conns |-> "idle"]
  /\ at = [c \in Conns |-> NoRoom]
  /\ target = [v \in Viewers |-> NoPublisher]
  /\ open = {}
  /\ evict = [r \in Rooms |-> {}]
  /\ sfus = [r \in Rooms |-> {}]
  /\ drop = [c \in Clients |-> {}]
  /\ dismiss = [p \in Publishers |-> {}]
  /\ late = {}

-----------------------------------------------------------------------------
(* Shared pieces                                                           *)

\* rm.mutex is free: no destroyRoom is between its emptiness test and delete.
RmFree == \A r \in Rooms : callback[r] # "deciding"

\* isFullyEmpty: viewers are not counted.
FullyEmpty(r) == clients[r] = {} /\ publishers[r] = {}

\* The room still has its members to lose: RemoveRoom has not emptied its
\* maps and the idle timer has not destroyed it.
Alive(r) == life[r] \in {"listed", "unlisted", "stopped"}

\* The handler of c goes on to stage, with a pointer to r.
Move(c, stage, r) ==
  /\ pc' = [pc EXCEPT ![c] = stage]
  /\ at' = [at EXCEPT ![c] = r]

Goto(c, stage) == Move(c, stage, at[c])

\* The handler returns; its deferred Close leaves nothing open.
Return(c) == Move(c, "done", NoRoom)

\* room.idleTimer.Stop(); a callback that already runs is not recalled.
StopTimer(r) == timer' = [timer EXCEPT ![r] = "stopped"]

\* room.idleTimer.Reset(10 * time.Minute)
ArmTimer(r) == timer' = [timer EXCEPT ![r] = "armed"]

-----------------------------------------------------------------------------
(* REST: create and remove                                                 *)

\* CreateRoom of an absent key.  With the key present it changes nothing.
CreateRoom(r) ==
  /\ RmFree
  /\ rooms = NoRoom
  /\ life[r] = "fresh"
  /\ rooms' = r
  /\ life' = [life EXCEPT ![r] = "listed"]
  /\ timer' = [timer EXCEPT ![r] = "armed"]
  /\ UNCHANGED <<callback, roomVars, sfuVars, connVars, open, closeVars, late>>

\* RemoveRoom: delete(rm.rooms, roomID) under rm.mutex.
RemoveUnlist(r) ==
  /\ RmFree
  /\ rooms = r
  /\ rooms' = NoRoom
  /\ life' = [life EXCEPT ![r] = "unlisted"]
  /\ UNCHANGED <<timer, callback, roomVars, sfuVars, connVars, open, closeVars,
                 late>>

\* RemoveRoom: room.idleTimer.Stop() under no lock.
RemoveStopTimer(r) ==
  /\ life[r] = "unlisted"
  /\ life' = [life EXCEPT ![r] = "stopped"]
  /\ StopTimer(r)
  /\ UNCHANGED <<rooms, callback, roomVars, sfuVars, connVars, open, closeVars,
                 late>>

\* Mutant: allConns without the viewers of the publishers.
CollectedMembers(r) == clients[r] \cup publishers[r]

\* Mutant: allConns of the audio clients only.
CollectedClients(r) == clients[r]

\* allConns
Collected(r) ==
  clients[r] \cup publishers[r] \cup UNION {viewers[p] : p \in publishers[r]}

\* sfus: the publishers in r that have an SFU.
CollectedSfus(r) == {p \in publishers[r] : sfu[p] # "nil"}

\* RemoveRoom: under room.mutex collect every connection and SFU, then empty
\* the maps.  The viewer sets of the publishers are not emptied, nor is
\* pub.sfu reset.  (The voice SFU is collected too; nobody but this goroutine
\* has a pointer to it afterwards.)
RemoveClear(r) ==
  /\ life[r] = "stopped"
  /\ life' = [life EXCEPT ![r] = "cleared"]
  /\ evict' = [evict EXCEPT ![r] = Collected(r)]
  /\ sfus' = [sfus EXCEPT ![r] = CollectedSfus(r)]
  /\ clients' = [clients EXCEPT ![r] = {}]
  /\ publishers' = [publishers EXCEPT ![r] = {}]
  /\ voice' = [voice EXCEPT ![r] = "nil"]
  /\ UNCHANGED <<rooms, timer, callback, viewers, sfu, connVars, open, drop,
                 dismiss, late>>

\* Mutant: Close is forgotten.
SfuForgotten(ps) == sfu

\* sfu.Close() on the SFUs of ps.
SfuClosed(ps) ==
  [p \in Publishers |-> IF p \in ps /\ sfu[p] # "nil" THEN "closed" ELSE sfu[p]]

\* RemoveRoom: sfu.Close() on every SFU collected, with room.mutex released;
\* publishers' handlers run on, and may return, before this.
RemoveCloseSfus(r) ==
  /\ life[r] = "cleared"
  /\ life' = [life EXCEPT ![r] = "sfusClosed"]
  /\ sfu' = SfuClosed(sfus[r])
  /\ sfus' = [sfus EXCEPT ![r] = {}]
  /\ UNCHANGED <<rooms, timer, callback, roomVars, voice, connVars, open, evict,
                 drop, dismiss, late>>

\* RemoveRoom: conn.Close() on everything collected, then it returns.
RemoveClose(r) ==
  /\ life[r] = "sfusClosed"
  /\ life' = [life EXCEPT ![r] = "removed"]
  /\ open' = open \ evict[r]
  /\ evict' = [evict EXCEPT ![r] = {}]
  /\ UNCHANGED <<rooms, timer, callback, roomVars, sfuVars, connVars, sfus,
                 drop, dismiss, late>>

-----------------------------------------------------------------------------
(* The idle timer                                                          *)

\* Ten minutes after it was armed the timer starts destroyRoom in a goroutine
\* of its own.  A callback is over long before the next ten minutes are.
TimerFires(r) ==
  /\ timer[r] = "armed"
  /\ callback[r] = "none"
  /\ StopTimer(r)
  /\ callback' = [callback EXCEPT ![r] = "due"]
  /\ UNCHANGED <<rooms, life, roomVars, sfuVars, connVars, open, closeVars,
                 late>>

\* destroyRoom: look the id up, whichever Room it is bound to by now, and test
\* isFullyEmpty under room.mutex; rm.mutex stays held.
DestroyCheck(r) ==
  /\ callback[r] = "due"
  /\ RmFree
  /\ rooms # NoRoom
  /\ FullyEmpty(rooms)
  /\ callback' = [callback EXCEPT ![r] = "deciding"]
  /\ UNCHANGED <<rooms, life, timer, roomVars, sfuVars, connVars, open,
                 closeVars, late>>

\* destroyRoom finds no room, or one that is in use.
DestroySkip(r) ==
  /\ callback[r] = "due"
  /\ RmFree
  /\ \/ rooms = NoRoom
     \/ rooms # NoRoom /\ ~FullyEmpty(rooms)
  /\ callback' = [callback EXCEPT ![r] = "none"]
  /\ UNCHANGED <<rooms, life, timer, roomVars, sfuVars, connVars, open,
                 closeVars, late>>

\* destroyRoom: delete(rm.rooms, roomID), with room.mutex no longer held.
DestroyDelete(r) ==
  /\ callback[r] = "deciding"
  /\ rooms # NoRoom
  /\ callback' = [callback EXCEPT ![r] = "none"]
  /\ life' = [life EXCEPT ![rooms] = "destroyed"]
  /\ rooms' = NoRoom
  /\ UNCHANGED <<timer, roomVars, sfuVars, connVars, open, closeVars, late>>

-----------------------------------------------------------------------------
(* The handshake.  JoinRoom (audio) and GetRoom (screen) look the room up  *)
(* under rm.mutex and compare the token under room.mutex; the comparison   *)
(* changes nothing, and nobody else knows the connection yet.              *)

\* Mutant: JoinRoom and GetRoom stop the timer before anybody is registered.
LookUpStopsTimer(c) ==
  /\ pc[c] = "idle"
  /\ RmFree
  /\ rooms # NoRoom
  /\ Move(c, "found", rooms)
  /\ open' = open \cup {c}
  /\ StopTimer(rooms)
  /\ UNCHANGED <<mapVars, roomVars, sfuVars, target, closeVars, late>>

LookUp(c) ==
  /\ pc[c] = "idle"
  /\ RmFree
  /\ rooms # NoRoom
  /\ Move(c, "found", rooms)
  /\ open' = open \cup {c}
  /\ UNCHANGED <<mapVars, timer, roomVars, sfuVars, target, closeVars, late>>

\* The handler gives up before it registered anything: a token mismatch, a
\* failed upgrade, a failed init write in JoinRoom, or a viewer whose target
\* does not publish.  It closes the connection.
GiveUp(c) ==
  /\ pc[c] = "found"
  /\ Return(c)
  /\ open' = open \ {c}
  /\ UNCHANGED <<mapVars, timer, roomVars, sfuVars, target, closeVars,
                 late>>

-----------------------------------------------------------------------------
(* Audio clients                                                           *)

\* JoinRoom, step 3: stop the timer and register, under room.mutex.
JoinRegister(c) ==
  /\ pc[c] = "found"
  /\ Goto(c, "in")
  /\ StopTimer(at[c])
  /\ clients' = [clients EXCEPT ![at[c]] = @ \cup {c}]
  /\ late' = IF Alive(at[c]) THEN late ELSE late \cup {c}
  /\ UNCHANGED <<mapVars, publishers, viewers, sfuVars, target, open,
                 closeVars>>

\* EnsureVoiceSFU ("hello" with mode sfu, or an offer).
EnsureVoiceSFU(c) ==
  /\ pc[c] = "in"
  /\ drop[c] = {}
  /\ voice[at[c]] = "nil"
  /\ voice' = [voice EXCEPT ![at[c]] = "open"]
  /\ UNCHANGED <<mapVars, timer, roomVars, sfu, connVars, open, closeVars,
                 late>>

\* audioWriteMu: held by a Broadcast from its first write to its last Close.
AudioWriteFree(r) == \A d \in Clients : drop[d] # {} => at[d] # r

\* Broadcast of d's message fails to write to c: under room.mutex c leaves
\* the maps.  (With c out of them already only the Close below is left, and
\* that does what PeerGone does.)
DropClient(d) ==
  /\ pc[d] = "in"
  /\ AudioWriteFree(at[d])
  /\ \E c \in clients[at[d]] \ {d} :
       /\ clients' = [clients EXCEPT ![at[d]] = @ \ {c}]
       /\ drop' = [drop EXCEPT ![d] = {c}]
  /\ UNCHANGED <<mapVars, timer, publishers, viewers, sfuVars, connVars, open,
                 evict, sfus, dismiss, late>>

\* Mutant: Broadcast leaves the Close to LeaveRoom.
CloseDroppedNever(d) ==
  /\ drop[d] # {}
  /\ drop' = [drop EXCEPT ![d] = {}]
  /\ UNCHANGED <<mapVars, timer, roomVars, sfuVars, connVars, open, evict, sfus,
                 dismiss, late>>

\* Broadcast: client.Close(), with room.mutex released.  The handler of the
\* dropped client still has to notice.
CloseDropped(d) ==
  /\ drop[d] # {}
  /\ open' = open \ drop[d]
  /\ drop' = [drop EXCEPT ![d] = {}]
  /\ UNCHANGED <<mapVars, timer, roomVars, sfuVars, connVars, evict, sfus,
                 dismiss, late>>

\* LeaveRoom: look the id up again.
LeaveLookUp(c) ==
  /\ pc[c] = "in"
  /\ c \notin open
  /\ drop[c] = {}
  /\ RmFree
  /\ Move(c, IF rooms = NoRoom THEN "done" ELSE "leaving", rooms)
  /\ UNCHANGED <<mapVars, timer, roomVars, sfuVars, target, open, closeVars,
                 late>>

\* Mutant: LeaveRoom leaves the timer alone.
LeaveDeleteForgetsTimer(c) ==
  /\ pc[c] = "leaving"
  /\ clients' = [clients EXCEPT ![at[c]] = @ \ {c}]
  /\ Return(c)
  /\ UNCHANGED <<mapVars, timer, publishers, viewers, sfuVars, target, open,
                 closeVars, late>>

\* LeaveRoom: forget the client and remember, under room.mutex, whether the
\* room is now empty.
LeaveDelete(c) ==
  /\ pc[c] = "leaving"
  /\ clients' = [clients EXCEPT ![at[c]] = @ \ {c}]
  /\ IF clients[at[c]] \ {c} = {} /\ publishers[at[c]] = {}
     THEN Goto(c, "emptied") ELSE Return(c)
  /\ UNCHANGED <<mapVars, timer, publishers, viewers, sfuVars, target, open,
                 closeVars, late>>

\* LeaveRoom: re-arm the timer on what was remembered, under no lock.
LeaveReset(c) ==
  /\ pc[c] = "emptied"
  /\ ArmTimer(at[c])
  /\ Return(c)
  /\ UNCHANGED <<mapVars, roomVars, sfuVars, target, open, closeVars, late>>

-----------------------------------------------------------------------------
(* Screen publishers                                                       *)

\* Mutant: off by one.
HasRoomForOneMore(r) == Cardinality(publishers[r]) <= MaxShares

HasRoomFor(r) == Cardinality(publishers[r]) < MaxShares

\* addScreenPublisher below the limit.
AddScreenPublisher(p) ==
  /\ pc[p] = "found"
  /\ HasRoomFor(at[p])
  /\ publishers' = [publishers EXCEPT ![at[p]] = @ \cup {p}]
  /\ StopTimer(at[p])
  /\ Goto(p, "in")
  /\ late' = IF Alive(at[p]) THEN late ELSE late \cup {p}
  /\ UNCHANGED <<mapVars, clients, viewers, sfuVars, target, open,
                 closeVars>>

\* addScreenPublisher at the limit: the handler reports it and closes.
RejectScreenPublisher(p) ==
  /\ pc[p] = "found"
  /\ ~HasRoomFor(at[p])
  /\ Return(p)
  /\ open' = open \ {p}
  /\ UNCHANGED <<mapVars, timer, roomVars, sfuVars, target, closeVars,
                 late>>

\* ensureScreenSFU ("hello" with mode sfu, or an offer in that mode).
EnsureScreenSFU(p) ==
  /\ pc[p] = "in"
  /\ sfu[p] = "nil"
  /\ sfu' = [sfu EXCEPT ![p] = IF p \in publishers[at[p]] THEN "open"
                                                          ELSE "late"]
  /\ UNCHANGED <<mapVars, timer, roomVars, voice, connVars, open, closeVars,
                 late>>

\* ClearScreenPublisher of a publisher the room still knows: under room.mutex
\* its viewers and its SFU are taken over by its handler.
ClearScreenPublisher(p) ==
  /\ pc[p] = "in"
  /\ p \notin open
  /\ p \in publishers[at[p]]
  /\ publishers' = [publishers EXCEPT ![at[p]] = @ \ {p}]
  /\ dismiss' = [dismiss EXCEPT ![p] = viewers[p]]
  /\ viewers' = [viewers EXCEPT ![p] = {}]
  /\ Goto(p, "releasing")
  /\ UNCHANGED <<mapVars, timer, clients, sfuVars, target, open, evict, sfus,
                 drop, late>>

\* ClearScreenPublisher: sfu.Close(), with room.mutex released.
CloseScreenSFU(p) ==
  /\ pc[p] = "releasing"
  /\ sfu' = SfuClosed({p})
  /\ Goto(p, "dismissing")
  /\ UNCHANGED <<mapVars, timer, roomVars, voice, target, open, closeVars,
                 late>>

\* ClearScreenPublisher of a publisher that RemoveRoom cleared before.
ClearForgottenPublisher(p) ==
  /\ pc[p] = "in"
  /\ p \notin open
  /\ p \notin publishers[at[p]]
  /\ Goto(p, "dismissing")
  /\ UNCHANGED <<mapVars, timer, roomVars, sfuVars, target, open, closeVars,
                 late>>

\* handleScreenPublisher: vConn.Close() on the viewers it was handed.
DismissViewers(p) ==
  /\ pc[p] = "dismissing"
  /\ open' = open \ dismiss[p]
  /\ dismiss' = [dismiss EXCEPT ![p] = {}]
  /\ Goto(p, "resetLookup")
  /\ UNCHANGED <<mapVars, timer, roomVars, sfuVars, target, evict, sfus, drop,
                 late>>

-----------------------------------------------------------------------------
(* Screen viewers                                                          *)

\* Mutant: the lookup compares with the viewer's own user id.
FindTargetByOwnId(v) ==
  /\ pc[v] = "found"
  /\ publishers[at[v]] # {}
  /\ target' = [target EXCEPT ![v] = v]
  /\ Goto(v, "targeted")
  /\ UNCHANGED <<mapVars, timer, roomVars, sfuVars, open, closeVars, late>>

\* getScreenPublisherByUserID
FindTarget(v) ==
  /\ pc[v] = "found"
  /\ \E p \in publishers[at[v]] : target' = [target EXCEPT ![v] = p]
  /\ Goto(v, "targeted")
  /\ UNCHANGED <<mapVars, timer, roomVars, sfuVars, at, open, closeVars, late>>

\* RegisterScreenViewer, with the publisher found one critical section ago.
RegisterScreenViewer(v) ==
  /\ pc[v] = "targeted"
  /\ viewers' = [viewers EXCEPT ![target[v]] = @ \cup {v}]
  /\ StopTimer(at[v])
  /\ Goto(v, "in")
  /\ late' = IF Alive(at[v]) /\ target[v] \in publishers[at[v]]
             THEN late ELSE late \cup {v}
  /\ UNCHANGED <<mapVars, clients, publishers, sfuVars, target, open,
                 closeVars>>

\* RemoveScreenViewer
RemoveScreenViewer(v) ==
  /\ pc[v] = "in"
  /\ v \notin open
  /\ viewers' = [viewers EXCEPT ![target[v]] = @ \ {v}]
  /\ Goto(v, "resetLookup")
  /\ UNCHANGED <<mapVars, timer, clients, publishers, sfuVars, target, open,
                 closeVars, late>>

-----------------------------------------------------------------------------
(* resetIdleIfEmpty, at the end of both screen handlers                    *)

ResetLookUp(c) ==
  /\ pc[c] = "resetLookup"
  /\ RmFree
  /\ Move(c, IF rooms = NoRoom THEN "done" ELSE "resetCheck", rooms)
  /\ UNCHANGED <<mapVars, timer, roomVars, sfuVars, target, open, closeVars,
                 late>>

\* Test and Reset under one hold of room.mutex.
ResetIdleIfEmpty(c) ==
  /\ pc[c] = "resetCheck"
  /\ Return(c)
  /\ IF FullyEmpty(at[c]) THEN ArmTimer(at[c]) ELSE UNCHANGED timer
  /\ UNCHANGED <<mapVars, roomVars, sfuVars, target, open, closeVars, late>>

-----------------------------------------------------------------------------
(* Environment                                                             *)

\* The peer goes away: a read or a heartbeat write fails from now on.  (A
\* handler that has not registered yet finds out when it is in its read loop.)
PeerGone(c) ==
  /\ pc[c] = "in"
  /\ c \in open
  /\ open' = open \ {c}
  /\ UNCHANGED <<mapVars, timer, roomVars, sfuVars, connVars, closeVars, late>>

-----------------------------------------------------------------------------
RemoveRoom(r) ==
  \/ RemoveUnlist(r)
  \/ RemoveStopTimer(r)
  \/ RemoveClear(r)
  \/ RemoveCloseSfus(r)
  \/ RemoveClose(r)

IdleTimer(r) ==
  \/ TimerFires(r)
  \/ DestroyCheck(r)
  \/ DestroySkip(r)
  \/ DestroyDelete(r)

HandleAudioStream(c) ==
  \/ JoinRegister(c)
  \/ EnsureVoiceSFU(c)
  \/ DropClient(c)
  \/ CloseDropped(c)
  \/ LeaveLookUp(c)
  \/ LeaveDelete(c)
  \/ LeaveReset(c)

HandleScreenPublisher(p) ==
  \/ AddScreenPublisher(p)
  \/ RejectScreenPublisher(p)
  \/ EnsureScreenSFU(p)
  \/ ClearScreenPublisher(p)
  \/ ClearForgottenPublisher(p)
  \/ CloseScreenSFU(p)
  \/ DismissViewers(p)

HandleScreenViewer(v) ==
  \/ FindTarget(v)
  \/ RegisterScreenViewer(v)
  \/ RemoveScreenViewer(v)

AnyHandler(c) ==
  \/ LookUp(c)
  \/ GiveUp(c)
  \/ PeerGone(c)

ResetIdle(c) == ResetLookUp(c) \/ ResetIdleIfEmpty(c)

Next ==
  \/ \E r \in Rooms : CreateRoom(r) \/ RemoveRoom(r) \/ IdleTimer(r)
  \/ \E c \in Conns : AnyHandler(c)
  \/ \E c \in Clients : HandleAudioStream(c)
  \/ \E p \in Publishers : HandleScreenPublisher(p)
  \/ \E v \in Viewers : HandleScreenViewer(v)
  \/ \E c \in Publishers \cup Viewers : ResetIdle(c)

Spec == Init /\ [][Next]_vars

\* A goroutine that can take its next step does (the Go scheduler and its
\* mutexes starve nobody), and an armed timer fires.  Nothing obliges a peer
\* to connect, to leave or to ask for an SFU, or the backend to call the API.
Fairness ==
  /\ \A r \in Rooms :
       /\ WF_vars(RemoveStopTimer(r) \/ RemoveClear(r) \/ RemoveCloseSfus(r)
                    \/ RemoveClose(r))
       /\ WF_vars(IdleTimer(r))
  /\ \A c \in Conns : WF_vars(GiveUp(c))
  /\ \A c \in Clients :
       WF_vars(JoinRegister(c) \/ CloseDropped(c) \/ LeaveLookUp(c)
                 \/ LeaveDelete(c) \/ LeaveReset(c))
  /\ \A p \in Publishers :
       WF_vars(AddScreenPublisher(p) \/ RejectScreenPublisher(p)
                 \/ ClearScreenPublisher(p) \/ ClearForgottenPublisher(p)
                 \/ CloseScreenSFU(p) \/ DismissViewers(p))
  /\ \A v \in Viewers : WF_vars(HandleScreenViewer(v))
  /\ \A c \in Publishers \cup Viewers : WF_vars(ResetIdle(c))

FairSpec == Spec /\ Fairness

-----------------------------------------------------------------------------
(* Safety                                                                  *)

\* A room never has more screen publishers than maxScreenSharesPerRoom, in
\* whatever order publishers arrive, leave and are removed with their room
\* (addScreenPublisher counts and inserts under one hold of room.mutex).
ShareCap == \A r \in Rooms : Cardinality(publishers[r]) <= MaxShares

\* Whoever will still run LeaveRoom or resetIdleIfEmpty for r and, finding it
\* empty, re-arm its timer.
WillRearm(c, r) ==
  \/ pc[c] \in {"in", "leaving", "emptied", "resetCheck"} /\ at[c] = r
  \/ pc[c] \in {"releasing", "dismissing", "resetLookup"}

\* An empty listed room is never forgotten: its idle timer runs, or a
\* destroyRoom is under way, or a handler has yet to re-arm the timer.  A join
\* that stops the timer and fails, or a leave that misses the moment the room
\* became empty, would leave the room in rm.rooms for ever.
EmptyRoomHasCaretaker ==
  \A r \in Rooms :
    rooms = r /\ FullyEmpty(r) =>
      \/ timer[r] = "armed"
      \/ \E s \in Rooms : callback[s] # "none"
      \/ \E c \in Conns : WillRearm(c, r)

\* When RemoveRoom has returned, every audio client and every publisher that
\* was in the room before its maps were emptied has been closed, unless a
\* Broadcast took it out before RemoveRoom could collect it: then that
\* Broadcast, whose next step it is, has yet to close it.  Nobody falls
\* between the two.  (late: those that registered after the maps were emptied.)
RemovalEvicts ==
  \A c \in Clients \cup Publishers :
    pc[c] = "in" /\ c \in open /\ life[at[c]] = "removed" =>
      \/ c \in late
      \/ \E d \in Clients : c \in drop[d]

\* A viewer whose publisher is gone is not left behind: either its handler's
\* publisher still streams to it, or the publisher's handler or RemoveRoom has
\* it on the list of connections to close.  (late: a viewer registered with a
\* publisher that was gone already.)
ViewersFollowPublisher ==
  \A v \in Viewers :
    pc[v] = "in" /\ v \in open /\ v \notin late =>
      \/ target[v] \in publishers[at[v]] /\ v \in viewers[target[v]]
      \/ v \in dismiss[target[v]]
      \/ \E r \in Rooms : v \in evict[r]

\* A publisher's SFU does not outlive its handler, unless a RemoveRoom that
\* collected it is still under way and will close it: ClearScreenPublisher,
\* which finds the publisher forgotten, leaves it to that RemoveRoom.  (An SFU
\* that is "late" was made after RemoveRoom had collected those it closes.)
SfuReleased ==
  \A p \in Publishers :
    pc[p] = "done" /\ sfu[p] = "open" =>
      \E r \in Rooms : life[r] = "cleared" /\ p \in sfus[r]

-----------------------------------------------------------------------------
(* Liveness                                                                *)

\* A room in which nobody is registered does not stay in rm.rooms for ever:
\* in the end it is destroyed or removed, or somebody registers
\* (CreateRoom, LeaveRoom, resetIdleIfEmpty and destroyRoom together).
AbandonedRoomReclaimed ==
  \A r \in Rooms :
    []<>~ /\ rooms = r
          /\ FullyEmpty(r)
          /\ \A v \in Viewers : pc[v] = "in" => at[v] # r

\* Once a publisher has left, its viewers' connections are closed
\* (ClearScreenPublisher and the loop over vConn.Close, or RemoveRoom).
ViewersDismissed ==
  \A p \in Publishers, v \in Viewers :
    (pc[v] = "in" /\ target[v] = p /\ p \notin publishers[at[v]])
      ~> (v \notin open \/ v \in late)

-----------------------------------------------------------------------------
(* What the documentation and the comments say, and the code does not do   *)

\* README.md:262 (and room.go:522): a room is destroyed when it is empty.  No
\* open client is a member of a room the idle timer destroyed.
DestroyedRoomIsEmpty ==
  \A r \in Rooms : life[r] = "destroyed" => clients[r] \cap open = {}
=============================================================================
