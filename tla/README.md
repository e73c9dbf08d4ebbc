# A verification project for SquirrelCommunicatorVoice

TLA+ modules that model the voice and screen-share relay in this repository
(about 3100 lines of Go), TLC configurations that check them on small
instances, an abstract viewer stream that the delivery implements, and TLAPS
proofs: every safety property the passing runs check, and the refinement, holds
for every value of the constants.

- [The system](#the-system)
- [Modules](#modules)
- [Runs](#runs)
- [Where documentation and code disagree](#where-documentation-and-code-disagree)
- [Fairness](#fairness)
- [Proofs](#proofs)
- [What is not modelled](#what-is-not-modelled)
- [Plan](#plan)

## The system

One process, one goroutine per connection, and a few more for timers,
heartbeats and Pion (WebRTC) callbacks. Nothing is stored: a restart forgets
every room.

| Component | State | Operations | Interacts with |
|---|---|---|---|
| Room directory (`RoomManager`, `Room`; room.go) | `rm.rooms`; per Room clients, screen publishers with their viewers, idle timer, voice SFU | `CreateRoom`, `RemoveRoom`, `UpdateRoomToken`, `JoinRoom`, `LeaveRoom`, `GetRoom`, `resetIdleIfEmpty`, `destroyRoom`, publisher and viewer registration | called by every connection handler (api.go, screen.go), by the REST API and by the timer; closes connections and SFUs |
| WebM relay (`webmRelay`; room.go) | pending bytes, keyframe, init header, last Cluster | `feed` | fed by `Broadcast` and `BroadcastScreen` under `room.mutex` |
| Audio broadcast (room.go) | per sender a relay and a cached keyframe | `Broadcast`, `SendKeyframe`, the snapshot in `JoinRoom` | relay, clients of the room, `audioWriteMu` |
| Screen-share delivery (room.go, screen.go) | per publisher a relay, caches, the init-pending gate | `BroadcastScreen`, `RegisterScreenViewer`, `MarkScreenInitDelivered`, `SendScreenKeyframe` | relay, viewers, `screenWriteMu` |
| Screen SFU (sfu.go) | publisher PC, viewers with their PCs, tracks | `AddViewer`, `RemoveViewer`, `HandlePublisherOffer`, answers, ICE, `Close` | Pion callbacks, both screen handlers |
| Voice SFU (voice_sfu.go) | participants, publishers by user id, subscribers by connection and user id | `HandleOffer`, `onPublisherTrack`, `sendOfferTo`, `RemoveParticipant`, `Close`, answers, ICE | Pion callbacks, audio handlers, `LeaveRoom`, `RemoveRoom` |
| Share notifications (room.go, screen.go) | none; each client shows a badge | started / stopped messages, late-joiner notification | both handlers, `audioWriteMu` |
| Mesh signaling (room.go, screen.go) | none | forwarding by user id, viewer joined / left | both screen handlers |
| Heartbeat (ws_util.go) | read deadline, ticker | ping, pong, write timeouts | every connection |
| REST API (api.go), configuration (main.go, main_util.go) | none / read once | parsing, authorization, status codes | room directory |

What is hard in it, and the properties that make each component right:

- *Room directory.* Handlers keep a pointer to a Room across unlocked stretches
  while the key is unbound, bound again, or the timer fires. Right means: an
  empty listed room is always going to be reclaimed, a removed room leaves
  nobody connected, a publisher's viewers follow it, SFUs are closed by exactly
  one of those who may close them, and the share limit holds.
- *WebM relay.* Messages cut the stream anywhere, even inside a Cluster ID, and
  two safety valves cut it at arbitrary bytes. Right means: units end at
  Cluster boundaries however the stream was cut, memory is bounded, and what a
  late viewer of a stream with an init header gets continues without gap or
  overlap.
- *Voice SFU.* Every offer is set up in several unlocked steps while tracks
  arrive, participants leave and Pion calls back late. Right means: no
  PeerConnection is lost track of, everybody is offered everybody else exactly
  once, and nobody hears himself.
- *Audio broadcast.* `JoinRoom` writes to a connection without a mutex, and a
  dropped client is still read from. Right means: nobody else writes to that
  connection meanwhile, a receiver gets each sender's init first and behind it
  no gap but the one a cached keyframe leaves, and what is cached for late
  joiners goes with its sender.
- *Screen delivery.* The gate between registration and init races broadcasts
  that have collected their writes already. Right means: one keyframe before
  any Cluster, nothing lost or repeated from the moment the gate opens (what
  comes while it is shut is dropped), and nobody waits for ever.
- *Screen SFU.* Two read loops add the same viewer, `AddViewer` tests and
  inserts under two holds of the mutex, and the deferred offer races the arrival
  of the track. Right means: every viewer is added and offered the track once,
  and no PeerConnection is forgotten.
- *Share notifications.* A share that starts while a client joins must reach it
  one way or the other.
- *Heartbeat.* Right means: who answers every ping stays, who does not is gone
  in bounded time, though pongs are handled only in `ReadMessage` and some
  writes have no deadline. Neither holds if the handler stays away from
  `ReadMessage` for longer than the two intervals leave room for, and nothing in
  the code keeps it from that.

`PROJECT.json` lists the hazards with the line where each one bites, and the
properties that watch it.

## Modules

### RoomManager

The whole life of one key of `rm.rooms`. The manager never touches two keys in
one operation, so one key is enough; that it may be bound to several Room
objects one after another is what matters, so `Rooms` is a pool of objects.

| In the module | In the code |
|---|---|
| `rooms`, `life` | `rm.rooms[roomID]`, and how far a Room has come |
| `timer`, `callback` | `room.idleTimer` and the goroutine that runs `destroyRoom` |
| `clients`, `publishers`, `viewers` | `room.clients`, the keys of `room.screenPublishers`, `pub.viewers` |
| `voice`, `sfu` | `room.voiceSFU`, `pub.sfu` (`"late"`: made for a publisher that `RemoveRoom` has taken out) |
| `pc`, `at`, `target` | where a connection's handler is, its Room, its publisher |
| `evict`, `sfus`, `drop`, `dismiss` | what `RemoveRoom` (connections, SFUs), a `Broadcast` whose write failed and the publisher's deferred cleanup have taken out of the maps, and still have to close |
| `late` | history, read by properties only |

A step is one critical section, or one call outside all locks. So `RemoveRoom`
is five steps (unlist, stop the timer, collect and clear, close the SFUs, close
the connections), `LeaveRoom` three (look up, delete, `Timer.Reset` after the
unlock), a join two (look up, register), the dropping of a client by `Broadcast`
two (delete, close), a publisher's cleanup three (clear, close its SFU, close its
viewers), and `destroyRoom` holds `rm.mutex` from the test to the deletion
(`RmFree` keeps other users of that mutex out). Token values are abstracted to
the outcome of `tokenMatches`, a failed init write to `GiveUp`, and heartbeats,
write deadlines and closing peers to `PeerGone`.

### WebmRelay

`feed` looks at nothing but the offsets of Cluster IDs, so a stream is a length
and a set of offsets, and a byte slice is a pair of offsets. All four outcomes
of a call are actions: hold, flush a raw keyframe (first valve), finalize the
keyframe, relay Clusters; `Emit` is the loop at the end with the second valve.
`Copied` is `append([]byte(nil), ...)`, which gives nil for nothing: a stream
that begins with a Cluster ID has no init header (room.go:118), and its late
viewers are served the first keyframe for ever.

### VoiceSFU

| In the module | In the code |
|---|---|
| `participants`, `publishers`, `subscribers`, `closed` | the fields of `VoiceSFU` |
| `owner`, `pubPc`, `local` | a `voicePublisher`: conn, pc, track |
| `to`, `of`, `subPc` | a `voiceSubscriber`: conn, the publisher it carries, pc |
| `handler`, `mine` | where `HandleOffer` is in a connection's read loop |
| `todo`, `current` | per thread (read loop or OnTrack callback) the targets it copied under the lock, and the sub whose offer it is making |
| `doomed` | taken out of a map under the lock, to be closed after it |
| `callback` | goroutines in `OnConnectionStateChange` |
| `lost`, `masked`, `orphans` | history, read by properties only |

Pion is external: its calls may fail, and do on a closed PeerConnection; it
calls `OnTrack` some time after the answer is set, and the state callback some
time after a PeerConnection fails or is closed. A publisher that has been closed
before its track's callback took the mutex still gets the track (`pubPc` is
`"hungUp"` then), since the callback tests nothing. A callback whose SFU is closed
has no effect (`NobodyHeardAfterClose`) and is not kept.

### ScreenSFU

| In the module | In the code |
|---|---|
| `sfuMode`, `sfu`, `watching` | `pub.mode`, `pub.sfu`, `pub.viewers` |
| `closed`, `viewers`, `localTrack` | the fields of `ScreenSFU` |
| `conn`, `state`, `wired` | per PeerConnection: its connection, whether it is open, whether its callbacks are set |
| `offerSent`, `iceReady`, `ice` | the fields of `sfuViewer`, and where its one candidate is |
| `handler`, `pub`, `batch` | where the read loops are, and the local list of `setupAllSFUViewers` |
| `job` | an `AddViewer` between its critical sections, with the pc and the track it has read |
| `deferred`, `offering`, `progress` | the local list of `onPublisherTrack`; who is in `sendOfferToViewer`, and how far |
| `round`, `answered`, `ready`, `pubIce` | the publisher's offers, `publisherReady`, and its candidates |
| `doomed`, `callback` | as in `VoiceSFU` |
| `overwritten`, `failed`, `tardy` | history, read by properties only |

`AddViewer` is four steps (test, insert, set callbacks, mark), run by a viewer's
loop or by the publisher's; `sendOfferToViewer` three, run by either or by an
`OnTrack` callback. The SFU is one object. `ClearScreenPublisher` takes it from
the publisher, in the publisher's own loop, before it closes it (`sfu` is
`"dropped"`); `RemoveRoom` collects it and leaves `pub.sfu` and `pub.viewers` as
they are (`"collected"`), so that viewers go on calling an SFU that is about to be
closed, or is. The SFU that a publisher makes after `RemoveRoom` found none is
`"late"` in `RoomManager`.

### ViewerStream and ScreenShare

`ViewerStream` is the promise of README.md:355-363 without any mechanism, as far
as the code keeps it. Units are produced, the first being the keyframe. A viewer
that is there before is tuned in at once and gets everything; one that comes
later gets one keyframe (the newest Cluster, if the stream has a header to put in
front of it, or else the first keyframe), then is tuned in, and from then on gets
every Cluster once and in order. What is produced between its coming and its
being tuned in it may miss. It gets one more keyframe for each request, and no
other. `ScreenShare` is the mechanism:

| In the module | In the code |
|---|---|
| `mode`, `initHeader`, `watching`, `initPending` | the fields of `screenPublisher` |
| `emitted` | how many units `pub.relay` has returned; the caches follow from it (`Served`) |
| `pub`, `todo`, `targets` | where the publisher's loop is, and the writes or connections it has collected (to tell the mode, or to close) |
| `handler`, `held`, `modeRead` | where a viewer's loop is, the init and the mode it has in hand |
| `last`, `fresh` | what a viewer has received |
| `informed` | history |

The writes of `BroadcastScreen` are one step each, so that closing connections
and leaving viewers come in between; `Locked` is `screenWriteMu`. The first unit
comes with an init header or without one, as `WebmRelay` allows. The refinement
mapping:

| In `ViewerStream` | In `ScreenShare` |
|---|---|
| `produced`, `headed` | `emitted`, `initHeader` |
| `held`, `last`, `fresh` | as they are |
| `asked` | viewers whose loop is in `SendScreenKeyframe` |
| `next` | `NextUnit`: what will be written to the viewer next; none while its gate is shut |
| `ended` | `Ended`: connections that are closed, or on the list of `ClearScreenPublisher` to be |

### AudioRoom

| In the module | In the code |
|---|---|
| `clients`, `cached`, `relay` | `room.clients`, `room.initSegments`, `room.audioRelays` |
| `produced` | units the sender's relay has completed |
| `writer` | who holds `audioWriteMu` |
| `handler`, `inits`, `todo`, `notify` | where a client's loop is, and its local lists |
| `sharing`, `pub`, `targets`, `badge` | `room.screenPublishers`, the publishers' handlers, what the clients have been told |
| `last`, `fresh` | what each client has received of each sender |
| `broken` | connections that take nothing any more |
| `dropped`, `missed` | history |

The share messages are here because they go to the audio connections, under the
same mutexes. A connection that stalls may swallow frames before a write fails
(`WriteUnit` and `DropClient` are both possible then).

### Heartbeat

One connection in discrete time: what is due happens before the next tick. The
handler joins (and may get stuck in a write without a deadline), handles a
message or reads; the ping goroutine waits or writes. How long the handler stays
away from `ReadMessage`, and how long a ping waits behind a data write within its
own timeout, is not bounded: the code does not bound it (a `Broadcast` takes up to
2 s for each stalled client, a screen write 5 s). `MaxBusy` and `MaxQueue` are
allowances out of the slack between `pingInterval` and `pongWait`, and `slow`
records that one was exceeded since the last pong was read; the properties speak
of the connections for which it was not. Only `RoundTrip` is a bound: a peer that
takes longer for a pong is not what a living peer means. `HeartbeatAssumption`
says that the allowances fit into the slack (with equality in it TLC finds a
living peer torn down without being slow), and that a ping is answered before
the next one is due, so that one `flight` is enough.

### MC modules

Each module has one, `MCRoomManager` to `MCHeartbeat`, which extends it with
symmetry sets and the values of constants that are functions.

## Runs

| Run | Shows | Bounds, and why they are enough |
|---|---|---|
| `RoomRebound` | `EmptyRoomHasCaretaker`, `RemovalEvicts`, `SfuReleased` while a key is rebound | Two Room objects, one client, one publisher: a stale pointer needs two Rooms, every property needs at most one connection of each kind and one goroutine that races it. A viewer does to the key what a publisher does (`resetIdleIfEmpty`). 0.3 million states. |
| `RoomCrowded` | `ShareCap`, `EmptyRoomHasCaretaker` among rivals; `RemovalEvicts` while clients drop each other | One Room, two clients, two publishers, a limit of one share: two of a kind leave at once, one publisher is over the limit, and a client's `Broadcast` takes out the other while `RemoveRoom` collects. 1.2 million states. |
| `RoomLiveness` | `ViewersFollowPublisher`; `AbandonedRoomReclaimed`, `ViewersDismissed` | One Room and one connection of each kind, `FairSpec`: a viewer holds pointers, not the key, so that rebinding does not concern it. No symmetry, which is unsound for liveness. 82 thousand states. |
| `Relay` | `ChunkingIndependent`, `NothingWithheld`, `PendingBounded`, `LateJoinerSeamless`, `LateJoinerGetsWholeCluster` | Every stream of 22 bytes with up to five IDs and every cutting of it. `MaxPending` is 9: a whole Cluster, an ID of 4 bytes at each end, fits into the buffer and still overflows it in time. |
| `VoiceSFU` | `NoStraySubscriber`, `NoStrayPublisher`, `NobodyHeardAfterClose`, `NobodyMissed`, `NoEcho` | Two connections of one user, one of another; two publishers, two subscribers, one failure of Pion by itself (failures on closed PeerConnections do not count), one offer per connection. With two publishers it is either both users or one user twice. 750 thousand states, under a minute. In a closed SFU no further failure, callback or `RemoveParticipant` is modelled: they find nothing there. |
| `ScreenSFU` | `NoStrayViewer`, `OfferedOnce`, `EveryWatcherAdded`, `LeaverReleased`, `CandidatesInOrder` | One viewer, which both read loops and two callbacks act upon; two PeerConnections, so that one can be replaced; two tracks, two hellos, one offer, one failure. 2.0 million states, a minute and a half. |
| `ScreenShare` | `ModeReachesViewers`; `ViewerStream` is implemented (`StreamsInOrder`); `ViewersServed` | One viewer (viewers share nothing but the mutex, and liveness forbids symmetry), five units with up to two in a message, two changes of mode, two requests: a broadcast can be collected before, during and after the service of the viewer. `FairSpec`. 95 thousand states. |
| `AudioRoom` | `InitUndisturbed`, `StreamsDecodable`, `CacheOwned`, `NoBadgeMissed` | Two clients, one of which is the sharer's, with three and one units, one request each: every property relates a sender and a receiver, and the second sender makes the mutexes matter. 1.9 million states, about one minute. |
| `Heartbeat` | `LivingPeerKept`, `DeadPeerTornDown` | The constants of ws_util.go in ticks of two seconds, which divide all of them; a round trip of 2 s, allowances of 2 s for a queued ping and of 4 s for the handler. Delays go beyond these as they like. 1.0 million states. |

Each of them also checks the module's `TypeOK`, where it is listed in the cfg.
Every passing run switches the deadlock check off: connections come and go once
each, streams end, and a server nobody calls may rest.

Every property of a passing run has a mutant in `PROJECT.json`: an operator in
the module that changes one mapped definition the way a slip in the code would
(a timer stopped too early, a list collected without its viewers, a search that
begins at the new message, a dropped test for an existing subscriber), under
which TLC finds the property violated.

## Where documentation and code disagree

Each of these runs checks one sentence of the documentation or a comment, and
TLC shows a behaviour of the code that breaks it.

| Run | Sentence | What happens |
|---|---|---|
| `DestroyedRoom` | README.md:262, a room is destroyed when it is empty | The room is tested between a join's lookup and its registration; the client is alone in a Room nobody else can find. |
| `VoiceOffers` | voice_sfu.go:107-108, "every pair gets exactly one offer" | An offer for a publisher that has left is registered after the sweep of `RemoveParticipant`, and stands in for the same user's next publisher. |
| `LateInit` | room.go:400-401, "This guarantees init-before-media for late joiners" (README.md:250-251 too) | A sender's keyframe is finalized after a joining client has copied the cache and before it is registered; it gets that sender's Clusters and never the init, until it asks. |

Others, without a run of their own, which the modules' behaviours show as well:

- README.md:124, removal "disconnects all participants": a client that looked
  the room up before `RemoveRoom` registers after it (`late` in `RoomManager`).
- room.go:266, "empty for 10 minutes": `Timer.Stop` does not stop a callback
  that waits for the mutex; a client that comes and goes in between finds its
  room destroyed at once.
- README.md:368, "all viewers are forcibly disconnected": a viewer registers
  with a publisher that left after the viewer had resolved it (`late`).
- room.go:25-26, never "a chunk that starts mid-Cluster": after the second
  safety valve `lastCluster` begins in the middle of a Cluster (`raw` in
  `WebmRelay`).
- voice_sfu.go:118-119, "keep the first publisher": when the second device of a
  user leaves, `RemoveParticipant` closes the publisher registered under the
  user id, which is the first device's.
- sfu.go:557, `Close` "tears down [...] all viewer PeerConnections": the
  publisher's loop and a viewer's own may both pass the test of `AddViewer`;
  the PeerConnection inserted first is replaced and never closed (`overwritten`
  in `ScreenSFU`).
- sfu.go:97-99, candidates are buffered "until the answer has been sent":
  `publisherReady` is not reset, so a second offer's candidates may come before
  its answer. `CandidatesInOrder` asks this of the first offer only.
- ws_util.go:18-19, a client that answers every ping "never trips the read
  deadline": its own messages may keep the handler in `Broadcast` for two
  seconds per stalled listener; past `pongWait - pingInterval` in all, the pong
  is read too late (`slow` in `Heartbeat`).

The passing properties say what holds all the same, and name what they exempt:

- in `RoomManager` connections that came too late (`late`); and, since they are
  about the moment a goroutine has returned, what another one has taken out and
  is still to close (the lists `drop` and `sfus`);
- in `VoiceSFU` pairs a stale subscriber stood in for (`masked`), pairs that were
  connected and taken apart by a callback (`lost`; the callback may be a stale
  one, of an earlier PeerConnection of the same pair, and Pion need not have
  failed: voice_sfu.go:328 is not watched), and publishers closed before they had
  a PeerConnection (`orphans`);
- in `ScreenSFU` replaced PeerConnections (`overwritten`), viewers added after
  they had left (`tardy`) or whose PeerConnection Pion or a callback took away
  (`failed`);
- in `AudioRoom` keyframes finalized during a join (`missed`) and senders that
  were `dropped`;
- in `Heartbeat` connections delayed beyond the allowances (`slow`).

Some things no comment denies, and the code allows:

- a viewer may be told the old mode behind the new one (`NotifyViewerMode` writes
  what was read before);
- a client may be left with a badge of a share that is over (the started message
  of its own join comes after the stopped one);
- a viewer that joined in another mode is not served when the publisher falls
  back to MSE;
- Clusters that `BroadcastScreen` relays after a viewer has taken its init and
  before `MarkScreenInitDelivered` opens its gate are dropped for that viewer
  (room.go:845), and nothing sends them later: behind its init there is a gap
  unless the stream pauses;
- a stream that begins with a Cluster ID, or whose keyframe a safety valve flushed,
  has no init header: late viewers get its first keyframe for ever, and behind it
  the Clusters of the day (room.go:118, 822, 867).

## Fairness

`RoomLiveness` and `ScreenShare` need it. For `RoomLiveness`, `Fairness` is weak
fairness of each goroutine's next step, which the Go scheduler and its
starvation-free mutexes give, and of an armed timer, which fires. Nothing is
assumed of peers, of the REST API, or of the write errors that drop a client:
`PeerGone`, `DropClient`, `LookUp`, `CreateRoom`, `RemoveUnlist` and the creation
of SFUs have no fairness. Closing what has been taken out (`CloseDropped`,
`RemoveCloseSfus`, `RemoveClose`, `CloseScreenSFU`, `DismissViewers`) has. The model has no write that blocks for ever: all writes
in these handlers have deadlines, except those of `JoinRoom` and of the rejection
of a publisher, which end when the connection is closed; `Heartbeat` shows that
it will be.

For `ScreenShare`, `FairSpec` is weak fairness of each step that a goroutine can
take by itself, and strong fairness of the steps that wait for `screenWriteMu`,
which others take again and again: `sync.Mutex` hands itself to a waiter that
has waited for a millisecond. No publisher must send, no viewer must ask or
leave, and no write must succeed or fail (`ServeInit` or `ServeInitFails`).

## Proofs

Each `...Proofs` module extends the module it is about, and everything in it is
checked by TLAPS. All of them have the same plan: `IInv` (`RelayInv` for the
relay) conjoins `TypeOK` with the facts that make the properties inductive; TLC
has checked it on the instance of the module's run. One lemma per part says that
every step preserves it, with one step per action; the actions that change none
of the variables the part reads are treated together. `Invariance` puts the
lemmas together, and the other theorems follow from it. Lemmas before them say
what a helper of the model does (`MinOfInterval`, `EmitLeaves`, `JobBecomes`).

| Module | Theorems, and the property each one states |
|---|---|
| `RoomManagerProofs` | `TypeCorrect`, `SharesCapped` (`ShareCap`), `EmptyRoomWatched` (`EmptyRoomHasCaretaker`), `RemovalComplete` (`RemovalEvicts`), `ViewersNotLeftBehind` (`ViewersFollowPublisher`), `ScreenSfuReleased` (`SfuReleased`) |
| `WebmRelayProofs` | `RelayTypeCorrect`, `UnitsIndependentOfChunking` (`ChunkingIndependent`), `NoClusterWithheld` (`NothingWithheld`), `MemoryBounded` (`PendingBounded`), `LateJoinSeamless` (`LateJoinerSeamless`), `LateJoinWholeCluster` (`LateJoinerGetsWholeCluster`) |
| `VoiceSFUProofs` | `TypeCorrect`, `SubscribersReachable` (`NoStraySubscriber`), `PublishersReachable` (`NoStrayPublisher`), `ClosedIsEmpty` (`NobodyHeardAfterClose`), `NoUserHearsItself` (`NoEcho`), `EverybodyHeard` (`NobodyMissed`) |
| `ScreenSFUProofs` | `TypeCorrect`, `NoViewerAstray` (`NoStrayViewer`), `OfferedOnceOnly` (`OfferedOnce`), `WatchersAdded` (`EveryWatcherAdded`), `LeaversReleased` (`LeaverReleased`), `CandidatesFollow` (`CandidatesInOrder`) |
| `ScreenShareProofs` | `TypeCorrect`, `ModeIsTold` (`ModeReachesViewers`), `Implements` (`StreamsInOrder`: `Spec` implements `ViewerStream`) |
| `AudioRoomProofs` | `TypeCorrect`, `JoinUndisturbed` (`InitUndisturbed`), `NothingCachedOfTheGone` (`CacheOwned`), `EveryShareShown` (`NoBadgeMissed`), `StreamsStayDecodable` (`StreamsDecodable`, an action property) |
| `HeartbeatProofs` | `TypeCorrect`, `LivingPeerStays` (`LivingPeerKept`), `DeadPeerLeaves` (`DeadPeerTornDown`) |

Each module declares one assumption about its constants, which TLC evaluates in
its runs. They say that the sets are disjoint and the sentinels in none of them,
and that bounds are natural numbers; beyond that, `Publishers` is finite and the
share limit positive (`RoomManagerAssumption`), `MaxPending` is positive
(`WebmRelayAssumption`), and the allowances fit into the deadlines
(`HeartbeatAssumption`; the delays themselves are arbitrary). No set of connections, PeerConnections or Rooms is bounded.

**RoomManager.** `TypeOK` and the properties are not inductive: whether a client
that is still connected after a removal is a late one depends on which lists it
was on at each step of `RemoveRoom`. `IInv` conjoins `TypeOK` with

- `MapInv`: a handler under way points to a created Room, and a viewer with a
  target to a publisher (`PointerInv`); the listed Room is neither being removed
  nor gone (`BoundInv`); nobody is registered with a Room not yet created
  (`FreshInv`); who is in a map has a handler that will take it out
  (`MemberInv`);
- `TidyInv`: the lists of what is to be closed exist only while somebody works
  them off: `evict` and `sfus` while a `RemoveRoom` does, `dismiss` while the
  handler of a publisher that left does;
- `EvictInv`, which strengthens `RemovalEvicts` from the end of `RemoveRoom` to
  each of its steps: an open connection that is not late is in the maps of its
  Room while these are not cleared, on `evict` afterwards, or with the `Broadcast`
  that dropped it (`Accounted`);
- `SfuInv`: an open screen SFU is reached through its registered publisher, or by
  that publisher's handler or a `RemoveRoom` that has taken it over to close it;
- `ShareCap`, `EmptyRoomHasCaretaker` and `ViewersFollowPublisher` themselves.

**WebmRelay.** The argument is about offsets. `RelayInv` conjoins `TypeOK` and
the five properties with `PendingInv` (the pending bytes begin where the last
unit ended) and `BoundaryInv` (before the keyframe at most one Cluster was seen;
after it, as long as no valve fired, the pending bytes begin with the last
Cluster seen). `EmitLeaves` states what the loop leaves behind, in terms of the IDs found; `OrderOfIDs` and
`CompleteGrows` relate the IDs found in the pending bytes to those of the whole
stream.

**VoiceSFU.** The three maps can change between any two steps of an offer, so the
invariant says what each thread may rely on all the same.

- `PubInv`: a reserved user id leads to a pub of that user; while `HandleOffer`
  creates a pub's PeerConnection, the pub is registered, or somebody is about to
  close it, or has come to do so before there was anything to close (`orphans`).
- `SubInv`: a sub carries a track to another user's connection, and is
  registered under exactly that connection and user.
- `TodoInv`: what a thread remembers it remembers of tracks that have arrived, and
  a thread that takes a new snapshot forgets nothing by it.
- `ClosedInv`: a closed SFU is empty and stays so.
- `HeardInv`: `NobodyMissed`, with the sub where `sendOfferTo` looks for it. It is
  inductive because registration and snapshot of both sides are under one mutex:
  the later of the two always sees the earlier.

**ScreenSFU.** `OfferedOnce` looks at three places a plan to offer the track can be:
an `AddViewer` that has read the track, a callback's list, a `sendOfferToViewer`
under way. `Plan(t, x)` says that thread t has one for the PeerConnection x.

- `ObjInv`: what every goroutine holds. Nobody knows of a PeerConnection that has
  not been made (`MadeOf`), `RemoveViewer` finds the one it is about (`MapOf`),
  how far an `AddViewer` has come says what it has read (`JobOf`), a sender has
  written its offer before it flushes (`ThreadOf`), callbacks come with their
  track (`TrackOf`), and a read loop does one thing at a time (`HandlerOf`).
- `AnswerInv`, `PubIceInv` and `IceOf`: offers are answered one after the other,
  and what is flushed has been described; hence `CandidatesInOrder`.
- `LifeInv` and `StrayOf`: nothing before the SFU is made or after it is closed;
  whoever takes an open PeerConnection out of the map closes it, or overwrote it.
- `OfferInv`: `PlannedOf` (who is in the map and marked, or was there when a
  track arrived, has been offered the track or somebody plans to) and `OnceOf`
  (before the first track nobody plans anything; before the second no two
  threads plan for the same PeerConnection, and who has been offered it is only
  in the flush). The lemmas `QuietJobs` to `TrackPlans` say where each action
  moves a plan.
- `WatchOf`: a viewer that watches is known to somebody who will add it: its own
  loop, the publisher's before its snapshot or with it, an `AddViewer` under way.

**ScreenShare.** `TodoInv`, `GateInv`, `CacheInv` and `ModeInv`: the writes collected
for a viewer are the last units relayed; nothing is written behind the gate,
which stays shut until the viewer's own loop has written the init it took; what is
cached was relayed before; the mode is set before the viewers are collected.
`Implements` maps each step to one of `ViewerStream` or to a stutter, in a lemma
per kind of step: relaying is `Produce`, registering `Come`, a request `Ask`, the
two writes of a cached init `Keyframe`, opening the gate `TuneIn`, a write of the
broadcast `Cluster`, and closing or leaving `End`. That opening the gate is
`TuneIn` is the point: the next unit written is the next one relayed.

**AudioRoom.** `AloneInv`: a client that joins is in none of the maps and lists,
which is what `InitUndisturbed` needs. `SharingInv` and `BadgeInv`: a joined client
has been told of a share, has noted it, or is a target. `StreamInv`: the sender's
relay is its only one while it has not been dropped (`RelayOf`), the writes
collected are the last units (`TailOf`), only the first unit comes from the cache
(`CacheOf`), and a client without the init has it in hand or in the list
(`StreamOf`). `StreamsDecodable` follows from it step by step: only a write of
`JoinRoom`, of `SendKeyframe` and of `Broadcast` delivers anything.

**Heartbeat.** An invariant about clocks in linear arithmetic. `PingInv` relates the
ticker, the ping and the pong under way. `AliveInv` says that, unless it is `slow`,
a living peer's read deadline leaves more time than handler, pong, ping and ticker
together may still take. `DeadInv` says how long the peer may have been dead, given where the
handler is: the last pong puts the deadline off once, and a blocked write lasts
until the next ping fails.

Only model-checked: the three liveness properties (`AbandonedRoomReclaimed`,
`ViewersDismissed`, `ViewersServed`), since liveness under fairness is out of the
prover's reach. That a stated assumption or exemption is needed (the mutants, the
runs that expect a violation) is shown by TLC too.

## What is not modelled

- In the voice SFU: more than one track per publisher, trickled ICE candidates and their pending queues (the same
  buffer as in `ScreenSFU`), `HandleAnswer`, the `participant_left` message, the
  RTP relay. A connection offers once, so a second offer after a failed one is
  not explored.
- In the screen SFU: viewers' answers and the peers' candidates, which are passed
  on to Pion, keyframe requests and their watchdog, the RTP relay, the life of an
  SFU made after `RemoveRoom` (`late` in `RoomManager`).
- Mesh signaling: each message is forwarded or dropped by a lookup of the moment,
  and nothing is remembered.
- The length byte of a sender id, which wraps at 256: ids are short.
- Deadlines outside `Heartbeat`: they show as `PeerGone`, `DropClient`,
  `WriteFails`, `PeerStalls`.
- Token values, JSON and REST parsing, status codes, configuration: no state
  that interacts with the rest.
- The unsynchronized reads `len(room.clients)` and `len(s.viewers)` in log
  lines: nothing depends on them.

## Plan

1. `RoomManager`, `WebmRelay`, `VoiceSFU`, `ScreenSFU`, `ScreenShare` with
   `ViewerStream`, `AudioRoom`, `Heartbeat`, and their runs: done.
2. Proofs of all their safety properties and of the refinement: done.
3. An abstract directory that `RoomManager` implements: a key is bound or not,
   and a member of a bound Room is connected until it leaves or is evicted.
4. Composition: `RoomManager` with `VoiceSFU`, so that `EnsureVoiceSFU`,
   `LeaveRoom` and `RemoveRoom` drive the participants' lives.
