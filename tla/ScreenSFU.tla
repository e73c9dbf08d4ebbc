------------------------------ MODULE ScreenSFU ------------------------------
(***************************************************************************)
(* The SFU of one screen publisher (sfu.go) and the two read loops that    *)
(* drive it (screen.go): the publisher announces "sfu" and offers its      *)
(* track, viewers come and go, and each of them is offered the track over  *)
(* a PeerConnection of its own, at once or when the track arrives.         *)
(*                                                                         *)
(* A step is one critical section of room.mutex or s.mutex, or one call    *)
(* into Pion.  Pion is external: its calls may fail and do on a closed     *)
(* PeerConnection; it gathers a candidate after SetLocalDescription, calls *)
(* OnTrack after the answer and OnConnectionStateChange after a failure or *)
(* Close, each in a goroutine of its own and only if the callback is set.  *)
(* A viewer's PeerConnection gathers one candidate, the publisher's one    *)
(* per offer (each restarts ICE).  Media, SDP and what is only passed on   *)
(* to Pion (answers, the peers' candidates, keyframe requests) are left    *)
(* out.                                                                    *)
(***************************************************************************)
EXTENDS Naturals, FiniteSets

CONSTANTS
  Viewers,      \* screen connections with role=viewer
  Pcs,          \* sfuViewer objects, each with its PeerConnection
  Publisher,    \* the publisher's read loop
  MaxTracks,    \* bound: how many tracks the publisher sends
  MaxFailures,  \* bound: how often Pion fails by itself
  MaxHellos,    \* bound: how often the publisher announces "sfu"
  MaxOffers,    \* bound: how often the publisher offers
  None

ASSUME ScreenSFUAssumption ==
  /\ None \notin Viewers \cup Pcs
  /\ Publisher \notin Viewers \cup Nat
  /\ Viewers \cap Nat = {}
  /\ MaxTracks \in Nat /\ MaxFailures \in Nat
  /\ MaxHellos \in Nat /\ MaxOffers \in Nat

Tracks == 1 .. MaxTracks             \* numbered as they arrive

Adders  == Viewers \cup {Publisher}  \* who calls AddViewer
Threads == Adders \cup Tracks        \* who calls sendOfferToViewer
Rounds  == 1 .. MaxOffers            \* offers of the publisher

VARIABLES
  sfuMode,      \* pub.mode = "sfu"
  sfu,          \* pub.sfu: "nil", "open", "collected" when RemoveRoom is about
                \* to close it, or "dropped" when set to nil again
  watching,     \* pub.viewers
  closed,       \* s.closed
  viewers,      \* s.viewers: conn -> Pcs or None
  localTrack,   \* s.localTrack: 0 if nil
  conn,         \* per pc: the connection it was made for
  state,        \* per pc: its PeerConnection
  wired,        \* pcs whose callbacks are set
  offerSent,    \* pcs with v.offerSent
  iceReady,     \* pcs with v.iceReady
  ice,          \* per pc: its candidate (see Candidate)
  offered,      \* pcs whose offer has been written to the viewer
  handler,      \* per viewer: where its read loop is
  pub,          \* where the publisher's read loop is
  batch,        \* the viewers setupAllSFUViewers still has to add
  job,          \* per adder: its AddViewer: how far it has come, the viewer,
                \* the pc it has made and the localTrack it has read
  deferred,     \* per track: pcs its OnTrack callback still has to offer
  offering,     \* per thread: the pc its sendOfferToViewer is about
  progress,     \* per thread: where its sendOfferToViewer is
  round,        \* offers of the publisher so far
  answered,     \* rounds whose answer has been written to the publisher
  ready,        \* s.publisherReady
  pubIce,       \* per round: the publisher-side candidate
  doomed,       \* taken out of s.viewers, and somebody will close its pc
  callback,     \* pcs with a pending OnConnectionStateChange
  failures,     \* how often Pion has failed by itself
  hellos,       \* how often the publisher has announced "sfu"
  overwritten,  \* history: pcs replaced in s.viewers by another one
  failed,       \* history: viewers that Pion has failed; all of them when it
                \* refuses the SFU itself
  tardy         \* history: viewers added when they had left

roomVars   == <<sfuMode, sfu, watching>>
sfuVars    == <<closed, viewers, localTrack>>
pcVars     == <<conn, state, wired>>
signalVars == <<offerSent, iceReady, ice, offered>>
offerVars  == <<deferred, offering, progress>>
pubVars    == <<pub, batch, hellos>>
answerVars == <<round, answered, ready, pubIce>>
closeVars  == <<doomed, callback>>
history    == <<overwritten, failed, tardy>>
vars == <<roomVars, sfuVars, pcVars, signalVars, handler, job, offerVars, pubVars,
          answerVars, closeVars, failures, history>>

\* "lost": gathered before OnICECandidate was set.
Candidate == {"none", "gathered", "pending", "delivered", "lost"}

Job == [at: {"idle", "check", "create", "wire", "mark"},
        viewer: Viewers \cup {None},
        pc: Pcs \cup {None},
        track: 0 .. MaxTracks]

Idle == [at |-> "idle", viewer |-> None, pc |-> None, track |-> 0]

TypeOK ==
  /\ sfuMode \in BOOLEAN
  /\ sfu \in {"nil", "open", "collected", "dropped"}
  /\ watching \subseteq Viewers
  /\ closed \in BOOLEAN
  /\ viewers \in [Viewers -> Pcs \cup {None}]
  /\ localTrack \in 0 .. MaxTracks
  /\ conn \in [Pcs -> Viewers \cup {None}]
  /\ state \in [Pcs -> {"nil", "open", "closed"}]
  /\ wired \subseteq Pcs /\ offerSent \subseteq Pcs
  /\ iceReady \subseteq Pcs /\ offered \subseteq Pcs
  /\ ice \in [Pcs -> Candidate]
  /\ handler \in [Viewers -> {"out", "registered", "sfu", "reading", "leaving",
                              "gone"}]
  /\ pub \in {"reading", "announced", "ensured", "offering", "answering",
              "answered", "sent", "gone"}
  /\ batch \subseteq Viewers
  /\ job \in [Adders -> Job]
  /\ deferred \in [Tracks -> SUBSET Pcs]
  /\ offering \in [Threads -> Pcs \cup {None}]
  /\ progress \in [Threads -> {"idle", "describe", "send", "flush"}]
  /\ round \in 0 .. MaxOffers
  /\ answered \subseteq Rounds
  /\ ready \in BOOLEAN
  /\ pubIce \in [Rounds -> Candidate]
  /\ doomed \subseteq Pcs /\ callback \subseteq Pcs
  /\ failures \in 0 .. MaxFailures
  /\ hellos \in 0 .. MaxHellos
  /\ overwritten \subseteq Pcs
  /\ failed \subseteq Viewers /\ tardy \subseteq Viewers

Init ==
  /\ sfuMode = FALSE /\ sfu = "nil" /\ watching = {}
  /\ closed = FALSE
  /\ viewers = [v \in Viewers |-> None]
  /\ localTrack = 0
  /\ conn = [x \in Pcs |-> None]
  /\ state = [x \in Pcs |-> "nil"]
  /\ wired = {} /\ offerSent = {} /\ iceReady = {} /\ offered = {}
  /\ ice = [x \in Pcs |-> "none"]
  /\ handler = [v \in Viewers |-> "out"]
  /\ pub = "reading" /\ batch = {} /\ hellos = 0
  /\ job = [a \in Adders |-> Idle]
  /\ deferred = [k \in Tracks |-> {}]
  /\ offering = [t \in Threads |-> None]
  /\ progress = [t \in Threads |-> "idle"]
  /\ round = 0 /\ answered = {} /\ ready = FALSE
  /\ pubIce = [r \in Rounds |-> "none"]
  /\ doomed = {} /\ callback = {} /\ failures = 0
  /\ overwritten = {} /\ failed = {} /\ tardy = {}

-----------------------------------------------------------------------------
(* Shared pieces                                                           *)

\* A call into Pion may fail by itself, so often; on a closed pc it does.
MayFail == failures < MaxFailures /\ failures' = failures + 1

Fails(x) ==
  IF state[x] = "closed" THEN UNCHANGED failures ELSE MayFail

\* A read loop is in none of the calls it makes into the SFU.
Free(a) == job[a] = Idle /\ offering[a] = None

PublisherFree == pub = "reading" /\ batch = {} /\ Free(Publisher)

Registered == {viewers[v] : v \in Viewers} \ {None}

\* getScreenSFU # nil
HasSFU == sfu \in {"open", "collected"}

\* Mutant: the pc is left open.
RemoveViewerOpen(v) ==
  /\ viewers' = [viewers EXCEPT ![v] = None]
  /\ UNCHANGED doomed

\* Mutant: v is not tested for nil before v.pc.Close().
RemoveViewerUnchecked(v) ==
  /\ viewers' = [viewers EXCEPT ![v] = None]
  /\ doomed' = doomed \cup {viewers[v]}

\* RemoveViewer: take out whichever pc is there by now, and close it after the
\* unlock.
RemoveViewer(v) ==
  /\ viewers' = [viewers EXCEPT ![v] = None]
  /\ doomed' = doomed \cup ({viewers[v]} \ {None})

-----------------------------------------------------------------------------
(* handleScreenViewer                                                      *)

\* RegisterScreenViewer
RegisterScreenViewer(v) ==
  /\ handler[v] = "out"
  /\ handler' = [handler EXCEPT ![v] = "registered"]
  /\ watching' = watching \cup {v}
  /\ UNCHANGED <<sfuMode, sfu, sfuVars, pcVars, signalVars, job, offerVars,
                 pubVars, answerVars, closeVars, failures, history>>

\* screenPublisherMode
ReadMode(v) ==
  /\ handler[v] = "registered"
  /\ handler' = [handler EXCEPT ![v] = IF sfuMode THEN "sfu" ELSE "reading"]
  /\ UNCHANGED <<roomVars, sfuVars, pcVars, signalVars, job, offerVars, pubVars,
                 answerVars, closeVars, failures, history>>

\* addSFUViewer: call AddViewer if there is an SFU.
AddSFUViewer(v) ==
  /\ handler[v] = "sfu"
  /\ handler' = [handler EXCEPT ![v] = "reading"]
  /\ job' = IF HasSFU
            THEN [job EXCEPT ![v] = [Idle EXCEPT !.at = "check", !.viewer = v]]
            ELSE job
  /\ UNCHANGED <<roomVars, sfuVars, pcVars, signalVars, offerVars, pubVars,
                 answerVars, closeVars, failures, history>>

\* Mutant: the SFU is not told.
RemoveScreenViewerOnly(v) ==
  /\ handler[v] = "reading" /\ Free(v)
  /\ watching' = watching \ {v}
  /\ handler' = [handler EXCEPT ![v] = "gone"]
  /\ UNCHANGED <<sfuMode, sfu, sfuVars, pcVars, signalVars, job, offerVars,
                 pubVars, answerVars, closeVars, failures, history>>

\* RemoveScreenViewer, under room.mutex.
RemoveScreenViewer(v) ==
  /\ handler[v] = "reading" /\ Free(v)
  /\ watching' = watching \ {v}
  /\ handler' = [handler EXCEPT ![v] = IF HasSFU THEN "leaving" ELSE "gone"]
  /\ UNCHANGED <<sfuMode, sfu, sfuVars, pcVars, signalVars, job, offerVars,
                 pubVars, answerVars, closeVars, failures, history>>

\* Its call of sfu.RemoveViewer.
LeaveSFU(v) ==
  /\ handler[v] = "leaving"
  /\ RemoveViewer(v)
  /\ handler' = [handler EXCEPT ![v] = "gone"]
  /\ UNCHANGED <<roomVars, closed, localTrack, pcVars, signalVars, job,
                 offerVars, pubVars, answerVars, callback, failures, history>>

-----------------------------------------------------------------------------
(* handleScreenPublisher: "hello" and "offer"                              *)

\* setScreenPublisherMode, to "sfu" or another mode; broadcastModeToViewers
\* reads nothing used here.
Hello ==
  /\ PublisherFree
  /\ hellos < MaxHellos /\ hellos' = hellos + 1
  /\ sfuMode' \in BOOLEAN
  /\ pub' = IF sfuMode' THEN "announced" ELSE "reading"
  /\ UNCHANGED <<sfu, watching, sfuVars, pcVars, signalVars, handler, job,
                 offerVars, batch, answerVars, closeVars, failures, history>>

\* ensureScreenSFU: keep the one there is, even if RemoveRoom has collected it.
EnsureScreenSFU ==
  /\ pub \in {"announced", "offering"}
  /\ \/ HasSFU /\ UNCHANGED <<sfu, failures, failed>>
     \/ sfu = "nil" /\ sfu' = "open" /\ UNCHANGED <<failures, failed>>
     \/ sfu = "nil" /\ MayFail /\ failed' = Viewers /\ UNCHANGED sfu
  /\ pub' = IF pub = "announced" THEN "ensured"
            ELSE IF HasSFU' THEN "answering" ELSE "reading"
  /\ UNCHANGED <<sfuMode, watching, sfuVars, pcVars, signalVars, handler, job,
                 offerVars, batch, hellos, answerVars, closeVars, overwritten,
                 tardy>>

\* Mutant: only those who have asked for the SFU themselves.
SetupNoSFUViewers ==
  /\ pub = "ensured"
  /\ pub' = "reading"
  /\ UNCHANGED <<roomVars, sfuVars, pcVars, signalVars, handler, job, offerVars,
                 batch, hellos, answerVars, closeVars, failures, history>>

\* setupAllSFUViewers, under room.mutex: remember who is watching.
SetupAllSFUViewers ==
  /\ pub = "ensured"
  /\ pub' = "reading"
  /\ batch' = IF HasSFU THEN watching ELSE {}
  /\ UNCHANGED <<roomVars, sfuVars, pcVars, signalVars, handler, job, offerVars,
                 hellos, answerVars, closeVars, failures, history>>

\* Its loop: AddViewer for the next of them.
SetupNext(v) ==
  /\ v \in batch /\ Free(Publisher)
  /\ batch' = batch \ {v}
  /\ job' = [job EXCEPT ![Publisher] =
               [Idle EXCEPT !.at = "check", !.viewer = v]]
  /\ UNCHANGED <<roomVars, sfuVars, pcVars, signalVars, handler, offerVars, pub,
                 hellos, answerVars, closeVars, failures, history>>

\* An offer arrives in mode "sfu".
PublisherOffers ==
  /\ PublisherFree /\ sfuMode
  /\ round < MaxOffers
  /\ pub' = "offering"
  /\ UNCHANGED <<roomVars, sfuVars, pcVars, signalVars, handler, job, offerVars,
                 batch, hellos, answerVars, closeVars, failures, history>>

\* HandlePublisherOffer: SetRemoteDescription, CreateAnswer and
\* SetLocalDescription succeed, which starts to gather a candidate.
HandlePublisherOffer ==
  /\ pub = "answering" /\ ~closed
  /\ pub' = "answered"
  /\ round' = round + 1
  /\ pubIce' = [pubIce EXCEPT ![round + 1] = "gathered"]
  /\ UNCHANGED <<roomVars, sfuVars, pcVars, signalVars, handler, job, offerVars,
                 batch, hellos, answered, ready, closeVars, failures, history>>

\* One of them fails.
HandlePublisherOfferFails ==
  /\ pub = "answering"
  /\ \/ closed /\ UNCHANGED failures
     \/ MayFail
  /\ pub' = "reading"
  /\ UNCHANGED <<roomVars, sfuVars, pcVars, signalVars, handler, job, offerVars,
                 batch, hellos, answerVars, closeVars, history>>

\* The answer is written.
SendAnswer ==
  /\ pub = "answered"
  /\ pub' = "sent"
  /\ answered' = answered \cup {round}
  /\ UNCHANGED <<roomVars, sfuVars, pcVars, signalVars, handler, job, offerVars,
                 batch, hellos, round, ready, pubIce, closeVars, failures,
                 history>>

\* publisherReady is set and what is pending is written.
FlushPublisherICE ==
  /\ pub = "sent"
  /\ pub' = "reading"
  /\ ready' = TRUE
  /\ pubIce' = [r \in Rounds |->
       IF pubIce[r] = "pending" THEN "delivered" ELSE pubIce[r]]
  /\ UNCHANGED <<roomVars, sfuVars, pcVars, signalVars, handler, job, offerVars,
                 batch, hellos, round, answered, closeVars, failures, history>>

\* The publisher PeerConnection's OnICECandidate.
OnPublisherICECandidate(r) ==
  /\ pubIce[r] = "gathered"
  /\ pubIce' = [pubIce EXCEPT ![r] = IF ready THEN "delivered" ELSE "pending"]
  /\ UNCHANGED <<roomVars, sfuVars, pcVars, signalVars, handler, job, offerVars,
                 pubVars, round, answered, ready, closeVars, failures, history>>

-----------------------------------------------------------------------------
(* AddViewer, called by a                                                  *)

\* The first critical section.
AddViewerCheck(a) ==
  /\ job[a].at = "check"
  /\ job' = IF closed \/ viewers[job[a].viewer] # None
            THEN [job EXCEPT ![a] = Idle]
            ELSE [job EXCEPT ![a].at = "create"]
  /\ UNCHANGED <<roomVars, sfuVars, pcVars, signalVars, handler, offerVars,
                 pubVars, answerVars, closeVars, failures, history>>

\* NewPeerConnection fails.
AddViewerFails(a) ==
  /\ job[a].at = "create"
  /\ MayFail
  /\ job' = [job EXCEPT ![a] = Idle]
  /\ failed' = failed \cup {job[a].viewer}
  /\ UNCHANGED <<roomVars, sfuVars, pcVars, signalVars, handler, offerVars,
                 pubVars, answerVars, closeVars, overwritten, tardy>>

\* The SFU was closed in the meantime: close the new pc and forget it.
AddViewerClosed(a) ==
  /\ job[a].at = "create" /\ closed
  /\ job' = [job EXCEPT ![a] = Idle]
  /\ UNCHANGED <<roomVars, sfuVars, pcVars, signalVars, handler, offerVars,
                 pubVars, answerVars, closeVars, failures, history>>

\* The second critical section, with the pc x and track k as localTrack.
Insert(a, x, k) ==
  LET v == job[a].viewer
  IN  /\ job[a].at = "create"
      /\ state[x] = "nil"
      /\ state' = [state EXCEPT ![x] = "open"]
      /\ conn' = [conn EXCEPT ![x] = v]
      /\ viewers' = [viewers EXCEPT ![v] = x]
      /\ job' = [job EXCEPT ![a] = [@ EXCEPT !.at = "wire", !.pc = x,
                                            !.track = k]]
      /\ overwritten' = overwritten \cup ({viewers[v]} \ {None})
      /\ tardy' = IF handler[v] = "gone" THEN tardy \cup {v} ELSE tardy
      /\ UNCHANGED <<roomVars, closed, localTrack, wired, signalVars, handler,
                     offerVars, pubVars, answerVars, closeVars, failures,
                     failed>>

\* Insert the viewer, over another one that was inserted since the check, and
\* read the track.
AddViewerInsert(a, x) == ~closed /\ Insert(a, x, localTrack)

\* Mutant: the track is read when the callbacks are set.
WireViewerReadsTrack(a) ==
  /\ job[a].at = "wire"
  /\ wired' = wired \cup {job[a].pc}
  /\ job' = IF localTrack = 0
            THEN [job EXCEPT ![a] = Idle]
            ELSE [job EXCEPT ![a] = [@ EXCEPT !.at = "mark", !.track = localTrack]]
  /\ UNCHANGED <<roomVars, sfuVars, conn, state, signalVars, handler, offerVars,
                 pubVars, answerVars, closeVars, failures, history>>

\* Set OnICECandidate and OnConnectionStateChange.  Without a track that is all.
WireViewer(a) ==
  /\ job[a].at = "wire"
  /\ wired' = wired \cup {job[a].pc}
  /\ job' = IF job[a].track = 0
            THEN [job EXCEPT ![a] = Idle]
            ELSE [job EXCEPT ![a].at = "mark"]
  /\ UNCHANGED <<roomVars, sfuVars, conn, state, signalVars, handler, offerVars,
                 pubVars, answerVars, closeVars, failures, history>>

\* Set offerSent and call sendOfferToViewer.
MarkViewer(a) ==
  /\ job[a].at = "mark"
  /\ offerSent' = offerSent \cup {job[a].pc}
  /\ offering' = [offering EXCEPT ![a] = job[a].pc]
  /\ progress' = [progress EXCEPT ![a] = "describe"]
  /\ job' = [job EXCEPT ![a] = Idle]
  /\ UNCHANGED <<roomVars, sfuVars, pcVars, iceReady, ice, offered, handler,
                 deferred, pubVars, answerVars, closeVars, failures, history>>

-----------------------------------------------------------------------------
(* onPublisherTrack, and sendOfferToViewer in thread t                     *)

\* A track arrives: publish it, and mark and remember those without an offer.
OnPublisherTrack(k) ==
  /\ answered # {} /\ ~closed
  /\ k = localTrack + 1
  /\ localTrack' = k
  /\ deferred' = [deferred EXCEPT ![k] = Registered \ offerSent]
  /\ offerSent' = offerSent \cup Registered
  /\ UNCHANGED <<roomVars, closed, viewers, pcVars, iceReady, ice, offered,
                 handler, job, offering, progress, pubVars, answerVars,
                 closeVars, failures, history>>

\* Its loop: sendOfferToViewer for the next of them.
OfferDeferred(k, x) ==
  /\ x \in deferred[k] /\ offering[k] = None
  /\ deferred' = [deferred EXCEPT ![k] = @ \ {x}]
  /\ offering' = [offering EXCEPT ![k] = x]
  /\ progress' = [progress EXCEPT ![k] = "describe"]
  /\ UNCHANGED <<roomVars, sfuVars, pcVars, signalVars, handler, job, pubVars,
                 answerVars, closeVars, failures, history>>

Finish(t) ==
  /\ offering' = [offering EXCEPT ![t] = None]
  /\ progress' = [progress EXCEPT ![t] = "idle"]

\* AddTrack, CreateOffer and SetLocalDescription succeed, which starts to
\* gather a candidate.
DescribeOffer(t) ==
  /\ progress[t] = "describe"
  /\ state[offering[t]] = "open"
  /\ progress' = [progress EXCEPT ![t] = "send"]
  /\ ice' = [ice EXCEPT ![offering[t]] = IF @ = "none" THEN "gathered" ELSE @]
  /\ UNCHANGED <<roomVars, sfuVars, pcVars, offerSent, iceReady, offered,
                 handler, job, deferred, offering, pubVars, answerVars,
                 closeVars, failures, history>>

\* One of them fails: RemoveViewer.
DescribeOfferFails(t) ==
  /\ progress[t] = "describe"
  /\ Fails(offering[t])
  /\ RemoveViewer(conn[offering[t]])
  /\ failed' = failed \cup {conn[offering[t]]}
  /\ Finish(t)
  /\ UNCHANGED <<roomVars, closed, localTrack, pcVars, signalVars, handler, job,
                 deferred, pubVars, answerVars, callback, overwritten, tardy>>

\* SendToScreenViewerConn; an error is only logged.
SendOffer(t) ==
  /\ progress[t] = "send"
  /\ progress' = [progress EXCEPT ![t] = "flush"]
  /\ offered' = offered \cup {offering[t]}
  /\ UNCHANGED <<roomVars, sfuVars, pcVars, offerSent, iceReady, ice, handler,
                 job, deferred, offering, pubVars, answerVars, closeVars,
                 failures, history>>

\* iceReady is set and what is pending is written.
FlushViewerICE(t) ==
  /\ progress[t] = "flush"
  /\ iceReady' = iceReady \cup {offering[t]}
  /\ ice' = IF ice[offering[t]] = "pending"
            THEN [ice EXCEPT ![offering[t]] = "delivered"]
            ELSE ice
  /\ Finish(t)
  /\ UNCHANGED <<roomVars, sfuVars, pcVars, offerSent, offered, handler, job,
                 deferred, pubVars, answerVars, closeVars, failures, history>>

-----------------------------------------------------------------------------
(* Viewer PeerConnections call back, fail and are closed                   *)

\* Mutant: the candidate is written at once.
OnViewerICECandidateAtOnce(x) ==
  /\ ice[x] = "gathered"
  /\ ice' = [ice EXCEPT ![x] = IF x \in wired THEN "delivered" ELSE "lost"]
  /\ UNCHANGED <<roomVars, sfuVars, pcVars, offerSent, iceReady, offered,
                 handler, job, offerVars, pubVars, answerVars, closeVars,
                 failures, history>>

\* A viewer PeerConnection's OnICECandidate, if it is set.
OnViewerICECandidate(x) ==
  /\ ice[x] = "gathered"
  /\ ice' = [ice EXCEPT ![x] = IF x \notin wired THEN "lost"
                              ELSE IF x \in iceReady THEN "delivered" ELSE "pending"]
  /\ UNCHANGED <<roomVars, sfuVars, pcVars, offerSent, iceReady, offered,
                 handler, job, offerVars, pubVars, answerVars, closeVars,
                 failures, history>>

\* The connection of x fails or disconnects.
ViewerDisconnects(x) ==
  /\ state[x] = "open" /\ x \in offered
  /\ MayFail
  /\ callback' = callback \cup ({x} \cap wired)
  /\ UNCHANGED <<roomVars, sfuVars, pcVars, signalVars, handler, job, offerVars,
                 pubVars, answerVars, doomed, history>>

\* OnConnectionStateChange of x: RemoveViewer of its connection.
OnViewerStateChange(x) ==
  /\ x \in callback
  /\ callback' = callback \ {x}
  /\ RemoveViewer(conn[x])
  /\ failed' = failed \cup {conn[x]}
  /\ UNCHANGED <<roomVars, closed, localTrack, pcVars, signalVars, handler, job,
                 offerVars, pubVars, answerVars, failures, overwritten, tardy>>

\* pc.Close() on a pc that was taken out of the map; Pion reports it to the
\* callback, which finds nothing to remove in a closed SFU.
ClosePc(x) ==
  /\ x \in doomed
  /\ doomed' = doomed \ {x}
  /\ state' = [state EXCEPT ![x] = "closed"]
  /\ callback' = IF closed THEN callback ELSE callback \cup ({x} \cap wired)
  /\ UNCHANGED <<roomVars, sfuVars, conn, wired, signalVars, handler, job,
                 offerVars, pubVars, answerVars, failures, history>>

-----------------------------------------------------------------------------
(* The end                                                                 *)

\* ClearScreenPublisher, when the publisher's read loop has ended, unless
\* RemoveRoom has taken the publisher out of the room before.
DropSFU ==
  /\ PublisherFree
  /\ sfu # "collected"
  /\ sfu' = IF sfu = "open" THEN "dropped" ELSE sfu
  /\ watching' = {}
  /\ pub' = "gone"
  /\ UNCHANGED <<sfuMode, sfuVars, pcVars, signalVars, handler, job, offerVars,
                 batch, hellos, answerVars, closeVars, failures, history>>

\* RemoveRoom remembers the SFU, at any time: pub.sfu and pub.viewers stay, and
\* ClearScreenPublisher will find nothing to do.
CollectSFU ==
  /\ sfu = "open"
  /\ sfu' = "collected"
  /\ UNCHANGED <<sfuMode, watching, sfuVars, pcVars, signalVars, handler, job,
                 offerVars, pubVars, answerVars, closeVars, failures, history>>

\* Close, called by either of them after the unlock.
Close ==
  /\ sfu \in {"dropped", "collected"} /\ ~closed
  /\ closed' = TRUE
  /\ viewers' = [v \in Viewers |-> None]
  /\ doomed' = doomed \cup Registered
  /\ UNCHANGED <<roomVars, localTrack, pcVars, signalVars, handler, job,
                 offerVars, pubVars, answerVars, callback, failures, history>>

-----------------------------------------------------------------------------
HandleScreenViewer(v) ==
  \/ RegisterScreenViewer(v)
  \/ ReadMode(v)
  \/ AddSFUViewer(v)
  \/ RemoveScreenViewer(v)
  \/ LeaveSFU(v)

HandleScreenPublisher ==
  \/ Hello
  \/ EnsureScreenSFU
  \/ SetupAllSFUViewers
  \/ \E v \in Viewers : SetupNext(v)
  \/ PublisherOffers
  \/ HandlePublisherOffer
  \/ HandlePublisherOfferFails
  \/ SendAnswer
  \/ FlushPublisherICE

AddViewer(a) ==
  \/ AddViewerCheck(a)
  \/ AddViewerFails(a)
  \/ AddViewerClosed(a)
  \/ \E x \in Pcs : AddViewerInsert(a, x)
  \/ WireViewer(a)
  \/ MarkViewer(a)

SendOfferToViewer(t) ==
  \/ DescribeOffer(t)
  \/ DescribeOfferFails(t)
  \/ SendOffer(t)
  \/ FlushViewerICE(t)

Pion ==
  \/ \E r \in Rounds : OnPublisherICECandidate(r)
  \/ \E k \in Tracks : \/ OnPublisherTrack(k)
                       \/ \E x \in Pcs : OfferDeferred(k, x)
  \/ \E x \in Pcs : \/ OnViewerICECandidate(x)
                    \/ ViewerDisconnects(x)
                    \/ OnViewerStateChange(x)
                    \/ ClosePc(x)

Next ==
  \/ \E v \in Viewers : HandleScreenViewer(v)
  \/ HandleScreenPublisher
  \/ \E a \in Adders : AddViewer(a)
  \/ \E t \in Threads : SendOfferToViewer(t)
  \/ Pion
  \/ DropSFU
  \/ CollectSFU
  \/ Close

Spec == Init /\ [][Next]_vars

-----------------------------------------------------------------------------
(* Correctness                                                             *)

\* A viewer PeerConnection (sfu.go:340) that is open is in the map, or on its
\* way to pc.Close() (RemoveViewer, Close), unless a second AddViewer of the
\* same viewer has put another one in its place (sfu.go:353).  And nobody gets
\* into the map after Close (sfu.go:347-352): an AddViewer that was creating its
\* PeerConnection in the meantime drops it.
NoStrayViewer ==
  /\ \A x \in Pcs :
       state[x] = "open" => x \in Registered \cup doomed \cup overwritten
  /\ closed => Registered = {}

\* What will still offer x the track: an AddViewer that has read the track, an
\* OnTrack callback that has found x without an offer, a sendOfferToViewer.
Plans(x) ==
  {a \in Adders : job[a].pc = x /\ job[a].track # 0}
    \cup {k \in Tracks : x \in deferred[k]}
    \cup {t \in Threads : offering[t] = x}

\* The track that arrives while AddViewer is between its critical sections
\* (sfu.go:354, 389) and the OnTrack callback (sfu.go:202-212) agree on who
\* offers it: every viewer in the map has been offered the track or somebody is
\* about to, and while there is one track nobody is offered it twice.
OfferedOnce ==
  /\ localTrack # 0 =>
       \A x \in Registered : x \in offered \/ Plans(x) # {}
  /\ localTrack < 2 =>
       \A x \in Pcs :
         /\ Cardinality(Plans(x)) <= 1
         /\ x \in offered => \A t \in Plans(x) : progress[t] = "flush"

\* Nothing is left to do for viewer v.
Settled(v) ==
  /\ handler[v] = "reading" /\ PublisherFree
  /\ \A a \in Adders : job[a].viewer # v
  /\ \A x \in doomed \cup callback : conn[x] # v

\* A viewer that registers while the publisher announces "sfu" is added by one
\* of the two read loops (api.go handleScreenViewer, handleScreenPublisher),
\* whichever way they interleave; only a failure keeps it out.
EveryWatcherAdded ==
  \A v \in watching :
    sfuMode /\ sfu = "open" /\ Settled(v) => viewers[v] # None \/ v \in failed

\* RemoveScreenViewer leaves nothing of a viewer in the SFU, unless the
\* publisher's loop adds it after it has left (room.go setupAllSFUViewers
\* iterates over a snapshot); an SFU out of the room is left to Close.
LeaverReleased ==
  \A v \in Viewers :
    handler[v] = "gone" /\ v \notin tardy /\ sfu # "dropped" => viewers[v] = None

\* A candidate is written after the description it belongs to and none stays
\* behind in the buffer (sfu.go:363-369, 427-434; for the publisher up to its
\* first offer).
CandidatesInOrder ==
  /\ \A x \in Pcs :
       /\ ice[x] = "delivered" => x \in offered
       /\ x \in iceReady => ice[x] # "pending"
  /\ \A r \in Rounds :
       /\ pubIce[r] = "delivered" /\ r = 1 => r \in answered
       /\ ready => pubIce[r] # "pending"

=============================================================================
