----------------------------- MODULE ScreenShare -----------------------------
(***************************************************************************)
(* One screen publisher whose WebM is relayed to its viewers (MSE          *)
(* fallback): BroadcastScreen, the init-pending gate between registration  *)
(* and init, request_keyframe, and the mode the viewers are told.          *)
(*                                                                         *)
(* A step is a critical section of room.mutex, or of screenWriteMu: the    *)
(* publisher's writes are one step each, with the mutex held in between.   *)
(* The units webmRelay.feed returns are numbered (WebmRelay says what is   *)
(* in them): unit 1 is the keyframe.  SFU and mesh are one mode "other",   *)
(* which serves no init.                                                   *)
(***************************************************************************)
EXTENDS Naturals, FiniteSetsExt

CONSTANTS
  Viewers,      \* connections with role=viewer that have resolved this publisher
  MaxUnits,     \* bound: units of the stream
  MaxPerFeed,   \* bound: units one message completes
  MaxHellos,    \* bound: how often the publisher announces a mode
  MaxRequests   \* bound: how often a viewer asks for a keyframe

ASSUME ScreenShareAssumption ==
  /\ MaxUnits \in Nat /\ MaxPerFeed \in Nat
  /\ MaxHellos \in Nat /\ MaxRequests \in Nat

VARIABLES
  mode,         \* pub.mode
  emitted,      \* units relayed so far
  initHeader,   \* pub.initHeader # nil
  watching,     \* pub.viewers
  initPending,  \* pub.initPending
  pub,          \* where the publisher's read loop is
  todo,         \* per viewer: units of BroadcastScreen's writes still to do
  targets,      \* viewers its loop has collected, to tell the mode or to close
  handler,      \* per viewer: where its read loop is
  held,         \* per viewer: the Cluster of the init its loop has in hand, or 0
  modeRead,     \* per viewer: the mode its loop has read
  last,         \* per viewer: the Cluster it has received last, or 0
  fresh,        \* viewers to which it came with an init
  requests,     \* per viewer: how often it has asked for a keyframe
  broken,       \* viewers whose connection is closed
  hellos,       \* modes announced
  informed      \* history: viewers told the mode since it was set

pubVars     == <<mode, emitted, initHeader>>
viewerVars  == <<watching, initPending>>
loopVars    == <<pub, todo, targets, hellos>>
handlerVars == <<handler, held, modeRead, requests>>
inbox       == <<last, fresh>>
vars == <<pubVars, viewerVars, loopVars, handlerVars, inbox, broken, informed>>

Units == 1 .. MaxUnits
Modes == {"mse", "other"}

TypeOK ==
  /\ mode \in Modes
  /\ emitted \in 0 .. MaxUnits
  /\ initHeader \in BOOLEAN
  /\ initPending \subseteq watching /\ watching \subseteq Viewers
  /\ pub \in {"reading", "broadcasting", "writing", "announced", "telling",
              "closing", "gone"}
  /\ todo \in [Viewers -> SUBSET Units]
  /\ targets \subseteq Viewers
  /\ hellos \in 0 .. MaxHellos
  /\ handler \in [Viewers -> {"out", "registered", "notifying", "serving", "served",
                              "reading", "sending", "leaving", "gone"}]
  /\ held \in [Viewers -> 0 .. MaxUnits]
  /\ modeRead \in [Viewers -> Modes \cup {"none"}]
  /\ requests \in [Viewers -> 0 .. MaxRequests]
  /\ last \in [Viewers -> 0 .. MaxUnits]
  /\ fresh \subseteq Viewers
  /\ broken \subseteq Viewers /\ informed \subseteq Viewers

Init ==
  /\ mode = "mse" /\ emitted = 0 /\ initHeader = FALSE
  /\ watching = {} /\ initPending = {}
  /\ pub = "reading" /\ targets = {} /\ hellos = 0
  /\ todo = [v \in Viewers |-> {}]
  /\ handler = [v \in Viewers |-> "out"]
  /\ held = [v \in Viewers |-> 0]
  /\ modeRead = [v \in Viewers |-> "none"]
  /\ requests = [v \in Viewers |-> 0]
  /\ last = [v \in Viewers |-> 0]
  /\ fresh = {} /\ broken = {} /\ informed = {}

-----------------------------------------------------------------------------
\* The publisher's loop holds screenWriteMu.
Locked == pub = "writing"

\* Viewer v receives unit u, with an init or without, unless its connection is
\* closed.
Receive(v, u, init) ==
  IF v \in broken
  THEN UNCHANGED inbox
  ELSE /\ last' = [last EXCEPT ![v] = u]
       /\ fresh' = IF init THEN fresh \cup {v} ELSE fresh \ {v}

\* What is cached for late viewers, by its Cluster: initHeader and lastCluster,
\* or else the keyframe; 0 if there is none.
Served == IF initHeader /\ emitted > 1 THEN emitted
          ELSE IF emitted > 0 THEN 1 ELSE 0

-----------------------------------------------------------------------------
(* handleScreenPublisher                                                   *)

\* Mutant: the gate is not asked.
UnitsForAnyway(v, first, end) ==
  IF v \in watching THEN first .. end ELSE {}

\* BroadcastScreen: the units first .. end that are written to v.
UnitsFor(v, first, end) ==
  IF v \in watching /\ (first = 1 \/ v \notin initPending)
  THEN first .. end ELSE {}

\* Mutant: the keyframe opens no gate.
BroadcastScreenShut(n) ==
  /\ pub = "reading"
  /\ emitted + n <= MaxUnits
  /\ emitted' = emitted + n
  /\ initHeader' \in IF emitted = 0 THEN BOOLEAN ELSE {initHeader}
  /\ todo' = [v \in Viewers |-> UnitsFor(v, emitted + 1, emitted + n)]
  /\ pub' = "broadcasting"
  /\ UNCHANGED <<mode, viewerVars, targets, hellos, handlerVars, inbox, broken,
                 informed>>

\* BroadcastScreen under room.mutex, for a message that completes n units.  The
\* keyframe (unit 1) opens the gate of everybody watching.  It comes with an
\* initHeader, or without one: when a safety valve has flushed it, or when the
\* stream begins with a Cluster ID.
BroadcastScreen(n) ==
  /\ pub = "reading"
  /\ emitted + n <= MaxUnits
  /\ emitted' = emitted + n
  /\ initHeader' \in IF emitted = 0 THEN BOOLEAN ELSE {initHeader}
  /\ todo' = [v \in Viewers |-> UnitsFor(v, emitted + 1, emitted + n)]
  /\ initPending' = IF emitted = 0 THEN initPending \ watching ELSE initPending
  /\ pub' = "broadcasting"
  /\ UNCHANGED <<mode, watching, targets, hellos, handlerVars, inbox, broken,
                 informed>>

\* It locks screenWriteMu ...
LockWrites ==
  /\ pub = "broadcasting"
  /\ pub' = "writing"
  /\ UNCHANGED <<pubVars, viewerVars, todo, targets, hellos, handlerVars, inbox,
                 broken, informed>>

\* ... writes them one by one ...
WriteUnit(v) ==
  /\ pub = "writing"
  /\ todo[v] # {}
  /\ LET u == Min(todo[v])
     IN  /\ Receive(v, u, u = 1)
         /\ todo' = [todo EXCEPT ![v] = @ \ {u}]
  /\ UNCHANGED <<pubVars, viewerVars, pub, targets, hellos, handlerVars, broken,
                 informed>>

\* ... closes a connection to which a write fails ...
WriteFails(v) ==
  /\ pub = "writing"
  /\ todo[v] # {}
  /\ todo' = [todo EXCEPT ![v] = {}]
  /\ broken' = broken \cup {v}
  /\ UNCHANGED <<pubVars, viewerVars, pub, targets, hellos, handlerVars, inbox,
                 informed>>

\* ... and unlocks.
UnlockWrites ==
  /\ pub = "writing"
  /\ \A v \in Viewers : todo[v] = {}
  /\ pub' = "reading"
  /\ UNCHANGED <<pubVars, viewerVars, todo, targets, hellos, handlerVars, inbox,
                 broken, informed>>

\* setScreenPublisherMode, on a "hello".
SetMode(m) ==
  /\ pub = "reading"
  /\ hellos < MaxHellos /\ hellos' = hellos + 1
  /\ mode' = m
  /\ informed' = {}
  /\ pub' = "announced"
  /\ UNCHANGED <<emitted, initHeader, viewerVars, todo, targets, handlerVars,
                 inbox, broken>>

\* Mutant: only viewers that have their init are told.
CollectReadyViewers ==
  /\ pub = "announced"
  /\ targets' = watching \ initPending
  /\ pub' = "telling"
  /\ UNCHANGED <<pubVars, viewerVars, todo, hellos, handlerVars, inbox, broken,
                 informed>>

\* broadcastModeToViewers, under room.mutex.
CollectViewers ==
  /\ pub = "announced"
  /\ targets' = watching
  /\ pub' = "telling"
  /\ UNCHANGED <<pubVars, viewerVars, todo, hellos, handlerVars, inbox, broken,
                 informed>>

\* Its writes, under screenWriteMu; errors are only logged.
TellMode ==
  /\ pub = "telling"
  /\ informed' = informed \cup targets
  /\ targets' = {}
  /\ pub' = "reading"
  /\ UNCHANGED <<pubVars, viewerVars, todo, hellos, handlerVars, inbox, broken>>

\* ClearScreenPublisher, when the read fails: the viewers are taken out ...
ClearScreenPublisher ==
  /\ pub = "reading"
  /\ pub' = "closing"
  /\ targets' = watching
  /\ watching' = {} /\ initPending' = {}
  /\ UNCHANGED <<pubVars, todo, hellos, handlerVars, inbox, broken, informed>>

\* ... and then closed.
CloseViewers ==
  /\ pub = "closing"
  /\ pub' = "gone"
  /\ broken' = broken \cup targets
  /\ targets' = {}
  /\ UNCHANGED <<pubVars, viewerVars, todo, hellos, handlerVars, inbox,
                 informed>>

-----------------------------------------------------------------------------
(* handleScreenViewer                                                      *)

Goto(v, at) == handler' = [handler EXCEPT ![v] = at]

\* RegisterScreenViewer: close the gate and take what is cached.
RegisterScreenViewer(v) ==
  /\ handler[v] = "out"
  /\ Goto(v, "registered")
  /\ watching' = watching \cup {v}
  /\ initPending' = initPending \cup {v}
  /\ held' = [held EXCEPT ![v] = Served]
  /\ UNCHANGED <<pubVars, loopVars, modeRead, requests, inbox, broken, informed>>

\* screenPublisherMode
ReadMode(v) ==
  /\ handler[v] = "registered"
  /\ Goto(v, "notifying")
  /\ modeRead' = [modeRead EXCEPT ![v] = mode]
  /\ UNCHANGED <<pubVars, viewerVars, loopVars, held, requests, inbox, broken,
                 informed>>

\* NotifyViewerMode
NotifyViewerMode(v) ==
  /\ handler[v] = "notifying" /\ ~Locked
  /\ informed' = IF modeRead[v] = mode THEN informed \cup {v} ELSE informed
  /\ Goto(v, IF modeRead[v] = "mse" /\ held[v] # 0 THEN "serving" ELSE "reading")
  /\ UNCHANGED <<pubVars, viewerVars, loopVars, held, modeRead, requests, inbox,
                 broken>>

\* Write the cached init ...
ServeInit(v) ==
  /\ handler[v] = "serving" /\ ~Locked
  /\ v \notin broken
  /\ Receive(v, held[v], TRUE)
  /\ Goto(v, "served")
  /\ UNCHANGED <<pubVars, viewerVars, loopVars, held, modeRead, requests, broken,
                 informed>>

\* ... or give up,
ServeInitFails(v) ==
  /\ handler[v] = "serving" /\ ~Locked
  /\ Goto(v, "leaving")
  /\ broken' = broken \cup {v}
  /\ UNCHANGED <<pubVars, viewerVars, loopVars, held, modeRead, requests, inbox,
                 informed>>

\* and open the gate.
MarkScreenInitDelivered(v) ==
  /\ handler[v] = "served"
  /\ Goto(v, "reading")
  /\ initPending' = initPending \ {v}
  /\ UNCHANGED <<pubVars, watching, loopVars, held, modeRead, requests, inbox,
                 broken, informed>>

\* SendScreenKeyframe, on a request_keyframe, under room.mutex ...
RequestKeyframe(v) ==
  /\ handler[v] = "reading" /\ v \notin broken
  /\ requests[v] < MaxRequests
  /\ requests' = [requests EXCEPT ![v] = @ + 1]
  /\ held' = [held EXCEPT ![v] = Served]
  /\ Goto(v, IF Served = 0 THEN "reading" ELSE "sending")
  /\ UNCHANGED <<pubVars, viewerVars, loopVars, modeRead, inbox, broken, informed>>

\* ... and under screenWriteMu; an error is only logged.
SendScreenKeyframe(v) ==
  /\ handler[v] = "sending" /\ ~Locked
  /\ Receive(v, held[v], TRUE)
  /\ Goto(v, "reading")
  /\ UNCHANGED <<pubVars, viewerVars, loopVars, held, modeRead, requests, broken,
                 informed>>

\* Mutant: initPending keeps the viewer.
RemoveScreenViewerOnly(v) ==
  /\ handler[v] \in {"reading", "leaving"}
  /\ Goto(v, "gone")
  /\ watching' = watching \ {v}
  /\ broken' = broken \cup {v}
  /\ UNCHANGED <<pubVars, initPending, loopVars, held, modeRead, requests, inbox,
                 informed>>

\* RemoveScreenViewer, when the read fails.
RemoveScreenViewer(v) ==
  /\ handler[v] \in {"reading", "leaving"}
  /\ Goto(v, "gone")
  /\ watching' = watching \ {v}
  /\ initPending' = initPending \ {v}
  /\ broken' = broken \cup {v}
  /\ UNCHANGED <<pubVars, loopVars, held, modeRead, requests, inbox, informed>>

-----------------------------------------------------------------------------
HandleScreenPublisher ==
  \/ \E n \in 1 .. MaxPerFeed : BroadcastScreen(n)
  \/ LockWrites
  \/ \E v \in Viewers : WriteUnit(v) \/ WriteFails(v)
  \/ UnlockWrites
  \/ \E m \in Modes : SetMode(m)
  \/ CollectViewers
  \/ TellMode
  \/ ClearScreenPublisher
  \/ CloseViewers

HandleScreenViewer(v) ==
  \/ RegisterScreenViewer(v)
  \/ ReadMode(v)
  \/ NotifyViewerMode(v)
  \/ ServeInit(v)
  \/ ServeInitFails(v)
  \/ MarkScreenInitDelivered(v)
  \/ RequestKeyframe(v)
  \/ SendScreenKeyframe(v)
  \/ RemoveScreenViewer(v)

Next ==
  \/ HandleScreenPublisher
  \/ \E v \in Viewers : HandleScreenViewer(v)

Spec == Init /\ [][Next]_vars

\* A goroutine runs on, and sync.Mutex lets nobody starve; no peer has to send
\* anything.
FairSpec ==
  /\ Spec
  /\ WF_vars(LockWrites) /\ WF_vars(UnlockWrites)
  /\ WF_vars(CollectViewers) /\ WF_vars(TellMode) /\ WF_vars(CloseViewers)
  /\ \A v \in Viewers :
       /\ WF_vars(WriteUnit(v))
       /\ WF_vars(ReadMode(v)) /\ WF_vars(MarkScreenInitDelivered(v))
       /\ SF_vars(NotifyViewerMode(v)) /\ SF_vars(SendScreenKeyframe(v))
       /\ SF_vars(ServeInit(v) \/ ServeInitFails(v))

-----------------------------------------------------------------------------
(* Correctness                                                             *)

\* Disconnected, or in the hands of the publisher's loop to be.
Ended == broken \cup (IF pub = "closing" THEN targets ELSE {})

\* The unit that will be written next to v, or 0 while its gate is shut.  (The
\* first unit opens every gate, so before it nobody's is really shut.)
NextUnit(v) ==
  IF v \notin watching \/ v \in Ended THEN 0
  ELSE IF emitted = 0 THEN 1
  ELSE IF v \in initPending THEN 0
  ELSE IF todo[v] = {} THEN emitted + 1
  ELSE Min(todo[v])

Promise == INSTANCE ViewerStream WITH
  produced <- emitted,
  headed   <- initHeader,
  asked    <- {v \in Viewers : handler[v] = "sending"},
  next     <- [v \in Viewers |-> NextUnit(v)],
  ended    <- Ended

\* Whatever the interleaving of the gate with the broadcast, a viewer gets one
\* keyframe before any Cluster, one more for each request, and from the moment
\* its gate opens every Cluster once and in order.  What it misses are Clusters
\* relayed between RegisterScreenViewer, which takes the init, and
\* MarkScreenInitDelivered: BroadcastScreen drops them (room.go:845).
StreamsInOrder == Promise!Spec

\* Nobody is left out when the mode changes while viewers join: a viewer whose
\* loop is reading has been told the mode since it was set, by its own loop or
\* the publisher's (handleScreenViewer reads the mode after it has registered,
\* setScreenPublisherMode comes before broadcastModeToViewers).
ModeReachesViewers ==
  pub \in {"reading", "broadcasting", "writing"} =>
    \A v \in watching : handler[v] \in {"reading", "sending"} => v \in informed

\* A viewer of an MSE stream gets its init in the end, from its own loop or
\* with the broadcast, if the stream has one and both connections last: the gate
\* never stays shut.  (One that joined in another mode is not served: see
\* handleScreenViewer.)
ViewersServed ==
  \A v \in Viewers :
    v \in watching /\ emitted > 0
      ~> \/ last[v] > 0 /\ v \notin initPending
         \/ modeRead[v] = "other"
         \/ v \in broken \/ v \notin watching

=============================================================================
