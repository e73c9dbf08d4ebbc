------------------------------- MODULE VoiceSFU ------------------------------
(***************************************************************************)
(* The voice SFU of one room (voice_sfu.go): participants offer their      *)
(* microphone (HandleOffer), tracks arrive (onPublisherTrack), and each    *)
(* published track is offered to each other participant over a downstream  *)
(* PeerConnection of its own (sendOfferTo), until one of them leaves       *)
(* (RemoveParticipant) or the room is removed (Close).                     *)
(*                                                                         *)
(* A step is one critical section of s.mutex or one call into Pion.  The   *)
(* Pion library is external: SDP calls may fail, OnTrack is called after   *)
(* the answer, and a PeerConnection that fails, disconnects or is closed   *)
(* calls OnConnectionStateChange in a goroutine of its own.  Media, SDP    *)
(* and ICE candidates are left out.                                        *)
(***************************************************************************)
EXTENDS Naturals, FiniteSets

CONSTANTS
  Users,        \* user ids
  Conns,        \* signaling connections; a reconnect is another connection
  User,         \* the user id of each connection
  Pubs,         \* voicePublisher objects
  Subs,         \* voiceSubscriber objects
  MaxFailures,  \* bound: how often Pion fails by itself
  MaxOffers,    \* bound: how often a connection sends an offer
  None

ASSUME VoiceSFUAssumption ==
  /\ User \in [Conns -> Users]
  /\ None \notin Conns \cup Pubs \cup Subs
  /\ Pubs \cap Subs = {} /\ Pubs \cap Conns = {}
  /\ MaxFailures \in Nat /\ MaxOffers \in Nat

Threads == Conns \cup Pubs   \* read loops and OnTrack callbacks

VARIABLES
  closed,       \* s.closed
  participants, \* s.participants: its keys
  publishers,   \* s.publishers: user id -> voicePublisher or None
  subscribers,  \* s.subscribers: conn -> user id -> voiceSubscriber or None
  handler,      \* per connection: where its read loop is
  mine,         \* per connection: the pub its HandleOffer is setting up
  owner,        \* per pub: pub.conn, None before it is made
  pubPc,        \* per pub: pub.pc, "stable" once the answer is set, "hungUp"
                \* if it was closed after that
  local,        \* pubs whose track has arrived (pub.local # nil)
  todo,         \* per thread: <<conn, pub>> pairs it has yet to offer
  current,      \* per thread: the sub its sendOfferTo is setting up
  to,           \* per sub: sub.conn
  of,           \* per sub: the pub whose track it carries
  subPc,        \* per sub: sub.pc
  doomed,       \* taken out of the maps, and somebody is about to close its pc
  callback,     \* subs with a pending OnConnectionStateChange
  offers,       \* per connection: how often it has sent an offer
  failures,     \* how often Pion has failed by itself
  lost,         \* history: <<conn, pub>> pairs a failure or callback separated
  masked,       \* history: <<conn, pub>> pairs skipped for another pub's sub
  orphans       \* history: pubs to be closed that had no pc at the time

sfuVars    == <<closed, participants, publishers, subscribers>>
pubVars    == <<owner, pubPc, local>>
subVars    == <<to, of, subPc>>
threadVars == <<handler, mine, todo, current, offers>>
history    == <<lost, masked, orphans>>
vars == <<sfuVars, pubVars, subVars, threadVars, doomed, callback, failures,
          history>>

TypeOK ==
  /\ closed \in BOOLEAN
  /\ participants \subseteq Conns
  /\ publishers \in [Users -> Pubs \cup {None}]
  /\ subscribers \in [Conns -> [Users -> Subs \cup {None}]]
  /\ handler \in [Conns -> {"reading", "registered", "creating", "negotiating",
                            "fanOut", "gone"}]
  /\ mine \in [Conns -> Pubs \cup {None}]
  /\ owner \in [Pubs -> Conns \cup {None}]
  /\ pubPc \in [Pubs -> {"nil", "new", "stable", "closed", "hungUp"}]
  /\ local \subseteq Pubs
  /\ todo \in [Threads -> SUBSET (Conns \X Pubs)]
  /\ current \in [Threads -> Subs \cup {None}]
  /\ to \in [Subs -> Conns \cup {None}]
  /\ of \in [Subs -> Pubs \cup {None}]
  /\ subPc \in [Subs -> {"nil", "open", "closed"}]
  /\ doomed \subseteq Pubs \cup Subs
  /\ callback \subseteq Subs
  /\ offers \in [Conns -> 0..MaxOffers]
  /\ failures \in 0..MaxFailures
  /\ lost \subseteq Conns \X Pubs
  /\ masked \subseteq Conns \X Pubs
  /\ orphans \subseteq Pubs

Init ==
  /\ closed = FALSE
  /\ participants = {}
  /\ publishers = [u \in Users |-> None]
  /\ subscribers = [c \in Conns |-> [u \in Users |-> None]]
  /\ handler = [c \in Conns |-> "reading"]
  /\ mine = [c \in Conns |-> None]
  /\ owner = [p \in Pubs |-> None]
  /\ pubPc = [p \in Pubs |-> "nil"]
  /\ local = {}
  /\ todo = [t \in Threads |-> {}]
  /\ current = [t \in Threads |-> None]
  /\ to = [x \in Subs |-> None]
  /\ of = [x \in Subs |-> None]
  /\ subPc = [x \in Subs |-> "nil"]
  /\ doomed = {}
  /\ callback = {}
  /\ offers = [c \in Conns |-> 0]
  /\ failures = 0
  /\ lost = {}
  /\ masked = {}
  /\ orphans = {}

-----------------------------------------------------------------------------
PubUser(p) == User[owner[p]]

\* The sub registered under these keys, if there is one.
SubAt(c, u) == {subscribers[c][u]} \ {None}

Own(c) == UNION {SubAt(c, u) : u \in Users}

Registered == UNION {Own(c) : c \in Conns}

\* Mutant: no test for a nil pub.
PubOfUnchecked(u) == {publishers[u]}

\* The pub of user u, if there is one.
PubOf(u) == {publishers[u]} \ {None}

Publishing == UNION {PubOf(u) : u \in Users}

\* A call into Pion may fail by itself, so often; on a closed pc it does.
MayFail == failures < MaxFailures /\ failures' = failures + 1

Fails(pc) ==
  IF pc = "closed" THEN UNCHANGED failures ELSE MayFail

-----------------------------------------------------------------------------
(* HandleOffer, in the read loop of c                                      *)

\* The read loop is about to read; it is not in a sendOfferTo.
Reading(c) == handler[c] = "reading" /\ todo[c] = {} /\ current[c] = None

\* registerParticipant
RegisterParticipant(c) ==
  /\ Reading(c)
  /\ offers[c] < MaxOffers /\ offers' = [offers EXCEPT ![c] = @ + 1]
  /\ handler' = [handler EXCEPT ![c] = "registered"]
  /\ participants' = IF closed THEN participants ELSE participants \cup {c}
  /\ UNCHANGED <<closed, publishers, subscribers, pubVars, subVars, mine, todo,
                 current, doomed, callback, failures, history>>

\* The SFU is closed: return.
OfferClosed(c) ==
  /\ handler[c] = "registered"
  /\ closed
  /\ handler' = [handler EXCEPT ![c] = "reading"]
  /\ UNCHANGED <<sfuVars, pubVars, subVars, mine, todo, current, doomed,
                 callback, offers, failures, history>>

\* Somebody publishes under this user id already: only subscribe.
OfferKnownUser(c) ==
  /\ handler[c] = "registered"
  /\ ~closed
  /\ publishers[User[c]] # None
  /\ handler' = [handler EXCEPT ![c] = "fanOut"]
  /\ UNCHANGED <<sfuVars, pubVars, subVars, mine, todo, current, doomed,
                 callback, offers, failures, history>>

\* Reserve the user id for a new pub, which has no pc yet.
OfferNewPublisher(c, p) ==
  /\ handler[c] = "registered"
  /\ ~closed
  /\ publishers[User[c]] = None
  /\ owner[p] = None
  /\ owner' = [owner EXCEPT ![p] = c]
  /\ publishers' = [publishers EXCEPT ![User[c]] = p]
  /\ mine' = [mine EXCEPT ![c] = p]
  /\ handler' = [handler EXCEPT ![c] = "creating"]
  /\ UNCHANGED <<closed, participants, subscribers, pubPc, local, subVars,
                 todo, current, doomed, callback, offers, failures, history>>

\* NewPeerConnection succeeds; nothing is tested again.
CreatePublisherPc(c) ==
  /\ handler[c] = "creating"
  /\ pubPc' = [pubPc EXCEPT ![mine[c]] = "new"]
  /\ handler' = [handler EXCEPT ![c] = "negotiating"]
  /\ UNCHANGED <<sfuVars, owner, local, subVars, mine, todo, current, doomed,
                 callback, offers, failures, history>>

\* A Pion call fails: removePublisher(userID), which takes out whichever pub is
\* there by now, and return without offering the others to this participant.
HandleOfferFails(c) ==
  /\ handler[c] \in {"creating", "negotiating"}
  /\ Fails(pubPc[mine[c]])
  /\ handler' = [handler EXCEPT ![c] = "reading"]
  /\ mine' = [mine EXCEPT ![c] = None]
  /\ publishers' = [publishers EXCEPT ![User[c]] = None]
  /\ doomed' = doomed \cup PubOf(User[c])
  /\ lost' = lost \cup ({c} \X (local \cap Publishing))
  /\ UNCHANGED <<closed, participants, subscribers, pubVars, subVars, todo,
                 current, callback, masked, orphans, offers>>

\* SetRemoteDescription, CreateAnswer and SetLocalDescription succeed, and the
\* answer is sent.
SendAnswer(c) ==
  /\ handler[c] = "negotiating"
  /\ pubPc[mine[c]] = "new"
  /\ pubPc' = [pubPc EXCEPT ![mine[c]] = "stable"]
  /\ handler' = [handler EXCEPT ![c] = "fanOut"]
  /\ mine' = [mine EXCEPT ![c] = None]
  /\ UNCHANGED <<sfuVars, owner, local, subVars, todo, current, doomed,
                 callback, offers, failures, history>>

\* Mutant: the newcomer is offered nobody who came before it.
FanOutExistingToNobody(c) ==
  /\ handler[c] = "fanOut"
  /\ handler' = [handler EXCEPT ![c] = "reading"]
  /\ UNCHANGED <<sfuVars, pubVars, subVars, mine, todo, current, doomed,
                 callback, offers, failures, history>>

\* fanOutExistingTo: remember the pubs of other users whose track has arrived,
\* to be offered one after the other before the next message is read.
FanOutExistingTo(c) ==
  /\ handler[c] = "fanOut"
  /\ handler' = [handler EXCEPT ![c] = "reading"]
  /\ todo' = [todo EXCEPT ![c] =
       {c} \X (local \cap UNION {PubOf(u) : u \in Users \ {User[c]}})]
  /\ UNCHANGED <<sfuVars, pubVars, subVars, mine, current, doomed, callback,
                 offers, failures, history>>

-----------------------------------------------------------------------------
(* onPublisherTrack                                                        *)

\* Mutant: the publisher's own user is not left out.
OnPublisherTrackToAll(p) ==
  /\ pubPc[p] \in {"stable", "hungUp"} /\ p \notin local
  /\ local' = local \cup {p}
  /\ todo' = [todo EXCEPT ![p] = participants \X {p}]
  /\ UNCHANGED <<sfuVars, owner, pubPc, subVars, handler, mine, current,
                 doomed, callback, offers, failures, history>>

\* The track arrives: set pub.local and remember the participants of other
\* users, in one critical section.  The pc may have been closed before Pion's
\* goroutine gets there: nothing is tested.
OnPublisherTrack(p) ==
  /\ pubPc[p] \in {"stable", "hungUp"} /\ p \notin local
  /\ local' = local \cup {p}
  /\ todo' = [todo EXCEPT ![p] =
       {c \in participants : User[c] # PubUser(p)} \X {p}]
  /\ UNCHANGED <<sfuVars, owner, pubPc, subVars, handler, mine, current,
                 doomed, callback, offers, failures, history>>

-----------------------------------------------------------------------------
(* sendOfferTo, in thread t: for a participant and a pub it remembered,    *)
(* who may both be gone by now                                             *)

\* The SFU is closed, or there is a sub for this user already, perhaps of an
\* earlier pub: close the new pc, of which nobody else knows, and skip.
SkipOffer(t, c, p) ==
  /\ current[t] = None
  /\ <<c, p>> \in todo[t]
  /\ closed \/ subscribers[c][PubUser(p)] # None
  /\ todo' = [todo EXCEPT ![t] = @ \ {<<c, p>>}]
  /\ masked' = IF \E x \in SubAt(c, PubUser(p)) : of[x] # p
               THEN masked \cup {<<c, p>>}
               ELSE masked
  /\ UNCHANGED <<sfuVars, pubVars, subVars, handler, mine, current, doomed,
                 callback, offers, failures, lost, orphans>>

\* NewPeerConnection fails.
CreateSubscriberFails(t, c, p) ==
  /\ current[t] = None
  /\ <<c, p>> \in todo[t]
  /\ MayFail
  /\ todo' = [todo EXCEPT ![t] = @ \ {<<c, p>>}]
  /\ lost' = lost \cup {<<c, p>>}
  /\ UNCHANGED <<sfuVars, pubVars, subVars, handler, mine, current, doomed,
                 callback, masked, orphans, offers>>

\* Make a sub and register it.
NewSubscriber(t, c, p, x) ==
  /\ current[t] = None
  /\ <<c, p>> \in todo[t]
  /\ subPc[x] = "nil"
  /\ todo' = [todo EXCEPT ![t] = @ \ {<<c, p>>}]
  /\ current' = [current EXCEPT ![t] = x]
  /\ subscribers' = [subscribers EXCEPT ![c][PubUser(p)] = x]
  /\ to' = [to EXCEPT ![x] = c]
  /\ of' = [of EXCEPT ![x] = p]
  /\ subPc' = [subPc EXCEPT ![x] = "open"]
  /\ UNCHANGED <<closed, participants, publishers, pubVars, handler, mine,
                 doomed, callback, offers, failures, history>>

\* Mutant: no test for a sub that is there already.
RegisterSubscriberAnyway(t, c, p, x) ==
  NewSubscriber(t, c, p, x) /\ ~closed

\* Mutant: no test for a closed SFU.
RegisterSubscriberWhenClosed(t, c, p, x) ==
  NewSubscriber(t, c, p, x) /\ subscribers[c][PubUser(p)] = None

\* There is none, and the SFU is not closed.
RegisterSubscriber(t, c, p, x) ==
  NewSubscriber(t, c, p, x) /\ ~closed /\ subscribers[c][PubUser(p)] = None

\* AddTrack, CreateOffer and SetLocalDescription succeed; the offer is sent.
SendOffer(t) ==
  /\ current[t] # None
  /\ subPc[current[t]] = "open"
  /\ current' = [current EXCEPT ![t] = None]
  /\ UNCHANGED <<sfuVars, pubVars, subVars, handler, mine, todo, doomed,
                 callback, offers, failures, history>>

\* removeSubscriber(c, u), which takes out whichever sub is registered there by
\* now; its pc is closed after the unlock.
RemoveSubscriber(c, u) ==
  /\ subscribers' = [subscribers EXCEPT ![c][u] = None]
  /\ doomed' = doomed \cup SubAt(c, u)
  /\ lost' = lost \cup {<<c, of[x]>> : x \in SubAt(c, u)}

\* One of them fails.
SendOfferFails(t) ==
  /\ current[t] # None
  /\ Fails(subPc[current[t]])
  /\ RemoveSubscriber(to[current[t]], PubUser(of[current[t]]))
  /\ current' = [current EXCEPT ![t] = None]
  /\ UNCHANGED <<closed, participants, publishers, pubVars, subVars, handler,
                 mine, todo, callback, masked, orphans, offers>>

-----------------------------------------------------------------------------
(* PeerConnections fail, are closed and call back                          *)

\* The connection of a sub is lost.
SubscriberDisconnects(x) ==
  /\ subPc[x] = "open"
  /\ \A t \in Threads : current[t] # x
  /\ MayFail
  /\ callback' = callback \cup {x}
  /\ UNCHANGED <<sfuVars, pubVars, subVars, threadVars, doomed, history>>

\* OnConnectionStateChange of x.
OnSubscriberStateChange(x) ==
  /\ x \in callback
  /\ callback' = callback \ {x}
  /\ RemoveSubscriber(to[x], PubUser(of[x]))
  /\ UNCHANGED <<closed, participants, publishers, pubVars, subVars, threadVars,
                 failures, masked, orphans>>

\* pc.Close() on a sub that was taken out of the map; Pion reports the state
\* "closed" to the callback, which finds nothing to remove in a closed SFU.
CloseSubscriber(x) ==
  /\ x \in doomed
  /\ doomed' = doomed \ {x}
  /\ subPc' = [subPc EXCEPT ![x] = "closed"]
  /\ callback' = IF closed THEN callback ELSE callback \cup {x}
  /\ UNCHANGED <<sfuVars, pubVars, to, of, threadVars, failures, history>>

\* pc.Close() on a pub that was taken out of the map, if it has a pc.
ClosePublisher(p) ==
  /\ p \in doomed
  /\ doomed' = doomed \ {p}
  /\ IF pubPc[p] = "nil"
     THEN orphans' = orphans \cup {p} /\ UNCHANGED pubPc
     ELSE /\ pubPc' = [pubPc EXCEPT ![p] =
                         IF @ = "stable" THEN "hungUp" ELSE "closed"]
          /\ UNCHANGED orphans
  /\ UNCHANGED <<sfuVars, owner, local, subVars, threadVars, callback, failures,
                 lost, masked>>

-----------------------------------------------------------------------------
(* Leaving                                                                 *)

\* Mutant: the pub of the leaving user is forgotten, not closed.
LeavePubOpen(c) == {}

\* The pub of its user id, whichever connection made it.
LeavePub(c) == IF c \in participants THEN PubOf(User[c]) ELSE {}

\* What the others receive from the user of c.
LeaveStale(c) ==
  IF c \in participants
  THEN UNION {SubAt(d, User[c]) : d \in Conns \ {c}}
  ELSE {}

\* RemoveParticipant, when LeaveRoom finds the SFU: take out c, the pub of its
\* user id, its own subs, and everybody's subs for that user id.  In a closed
\* SFU it finds nothing to take out.  The history of what leaves is dropped.
RemoveParticipant(c) ==
  /\ ~closed
  /\ Reading(c)
  /\ handler' = [handler EXCEPT ![c] = "gone"]
  /\ participants' = participants \ {c}
  /\ publishers' = IF c \in participants
                   THEN [publishers EXCEPT ![User[c]] = None]
                   ELSE publishers
  /\ subscribers' = [d \in Conns |-> [u \in Users |->
       IF d = c \/ (c \in participants /\ u = User[c]) THEN None
                                                       ELSE subscribers[d][u]]]
  /\ doomed' = doomed \cup Own(c) \cup LeavePub(c) \cup LeaveStale(c)
  /\ LET over == ({c} \X Pubs) \cup (Conns \X LeavePub(c))
     IN  lost' = lost \ over /\ masked' = masked \ over
  /\ UNCHANGED <<closed, pubVars, subVars, mine, todo, current, callback,
                 offers, failures, orphans>>

\* Close, by RemoveRoom.  The callbacks still pending find nothing to remove,
\* and neither does a call that fails from now on: both are left out.
Close ==
  /\ ~closed
  /\ closed' = TRUE
  /\ participants' = {}
  /\ publishers' = [u \in Users |-> None]
  /\ subscribers' = [c \in Conns |-> [u \in Users |-> None]]
  /\ doomed' = doomed \cup Registered \cup Publishing
  /\ callback' = {}
  /\ failures' = MaxFailures
  /\ lost' = {} /\ masked' = {}
  /\ UNCHANGED <<pubVars, subVars, threadVars, orphans>>

-----------------------------------------------------------------------------
HandleOffer(c) ==
  \/ RegisterParticipant(c)
  \/ OfferClosed(c)
  \/ OfferKnownUser(c)
  \/ \E p \in Pubs : OfferNewPublisher(c, p)
  \/ CreatePublisherPc(c)
  \/ HandleOfferFails(c)
  \/ SendAnswer(c)
  \/ FanOutExistingTo(c)

SendOfferTo(t) ==
  \/ \E c \in Conns, p \in Pubs :
       \/ SkipOffer(t, c, p)
       \/ CreateSubscriberFails(t, c, p)
       \/ \E x \in Subs : RegisterSubscriber(t, c, p, x)
  \/ SendOffer(t)
  \/ SendOfferFails(t)

Pion ==
  \/ \E p \in Pubs : OnPublisherTrack(p) \/ ClosePublisher(p)
  \/ \E x \in Subs : \/ SubscriberDisconnects(x)
                     \/ OnSubscriberStateChange(x)
                     \/ CloseSubscriber(x)

Next ==
  \/ \E c \in Conns : HandleOffer(c) \/ RemoveParticipant(c)
  \/ \E t \in Threads : SendOfferTo(t)
  \/ Pion
  \/ Close

Spec == Init /\ [][Next]_vars

-----------------------------------------------------------------------------
(* Properties                                                              *)

\* No downstream PeerConnection is ever out of everybody's reach, whatever
\* races: an open one is registered, so that RemoveParticipant and Close will
\* find it, or about to be closed (sendOfferTo's two tests, removeSubscriber,
\* RemoveParticipant, Close).
NoStraySubscriber ==
  \A x \in Subs : subPc[x] = "open" => x \in Registered \/ x \in doomed

PubOpen(p) == pubPc[p] \in {"new", "stable"}

\* The same for upstream PeerConnections, unless somebody came to close the
\* pub while HandleOffer was still creating its pc.
NoStrayPublisher ==
  \A p \in Pubs :
    PubOpen(p) =>
      \/ publishers[PubUser(p)] = p
      \/ p \in doomed
      \/ p \in orphans

\* In a closed SFU nothing is registered that Close has not seen, even by an
\* offer that was under way (sendOfferTo tests s.closed again).
NobodyHeardAfterClose ==
  closed => Registered = {}

\* Somebody still has to offer p to c.
OfferUnderWay(c, p) ==
  \/ \E t \in Threads : <<c, p>> \in todo[t]
  \/ handler[c] \in {"registered", "creating", "negotiating", "fanOut"}

\* c takes part and p publishes, for somebody else, and Pion has not failed
\* them.
Apart(c, p) ==
  /\ c \in participants /\ p \in local
  /\ publishers[PubUser(p)] = p
  /\ User[c] # PubUser(p)
  /\ <<c, p>> \notin lost

\* A participant misses nobody: whether it registers first or the track
\* arrives first, in the end it has a sub for this very pub (HandleOffer's
\* comment: "Whichever happens second always sees the other's state"), unless
\* a sub of an earlier pub was in the way.
NobodyMissed ==
  \A c \in Conns, p \in Pubs :
    Apart(c, p) /\ <<c, p>> \notin masked =>
      OfferUnderWay(c, p) \/ \E x \in Own(c) : of[x] = p

\* Nobody is sent the audio of its own user id, on whichever device.
NoEcho ==
  \A x \in Subs : subPc[x] # "nil" => User[to[x]] # PubUser(of[x])

-----------------------------------------------------------------------------
(* What the comments say, and the code does not do                         *)

\* voice_sfu.go:105-108, "every (publisher -> participant) pair gets exactly
\* one offer": nothing failed and nothing is under way, so the participant has
\* been offered the track.
EveryPairOffered ==
  \A c \in Conns, p \in Pubs :
    Apart(c, p) => \/ OfferUnderWay(c, p)
                   \/ \E x \in Subs : to[x] = c /\ of[x] = p
=============================================================================
