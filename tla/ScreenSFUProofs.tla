--------------------------- MODULE ScreenSFUProofs ----------------------------
(***************************************************************************)
(* Proofs about ScreenSFU, for any number of viewers, PeerConnections and  *)
(* tracks: no PeerConnection goes astray, everybody who watches is added   *)
(* and offered the track, and candidates follow their description.         *)
(***************************************************************************)
EXTENDS ScreenSFU, FiniteSetTheorems, TLAPS

\* A pc that AddViewer has made belongs to a viewer; nobody knows of one that it
\* has not made.
MadeOf(x) ==
  IF state[x] # "nil"
  THEN conn[x] \in Viewers
  ELSE /\ x \notin wired \cup offerSent \cup iceReady \cup offered
       /\ x \notin doomed \cup callback \cup overwritten
       /\ \A v \in Viewers : viewers[v] # x
       /\ \A a \in Adders : job[a].pc # x
       /\ \A k \in Tracks : x \notin deferred[k]
       /\ \A t \in Threads : offering[t] # x

\* RemoveViewer(conn[x]) finds x, if it is in the map.
MapOf(v) == viewers[v] # None => conn[viewers[v]] = v

\* How far an AddViewer has come says what it holds.
JobOf(a) ==
  /\ job[a].at = "idle" => job[a] = Idle
  /\ job[a].at # "idle" => job[a].viewer \in Viewers /\ offering[a] = None
  /\ job[a].at \in {"check", "create"} => job[a].pc = None /\ job[a].track = 0
  /\ job[a].at \in {"wire", "mark"} => job[a].pc # None
  /\ job[a].at = "mark" => job[a].track # 0
  /\ job[a].track <= localTrack

\* sendOfferToViewer is about a pc, and has offered it before it flushes.
ThreadOf(t) ==
  /\ progress[t] = "idle" <=> offering[t] = None
  /\ progress[t] = "flush" => offering[t] \in offered

\* A track has no callback before it has arrived, and an AddViewer knows of none.
TrackOf(k) == k > localTrack => deferred[k] = {} /\ offering[k] = None

\* A read loop calls AddViewer from "reading" only, and watches until it leaves.
HandlerOf(v) ==
  /\ handler[v] # "reading" => Free(v)
  /\ v \in watching => handler[v] \in {"registered", "sfu", "reading"}

ObjInv ==
  /\ \A x \in Pcs : MadeOf(x)
  /\ \A v \in Viewers : MapOf(v) /\ HandlerOf(v)
  /\ \A a \in Adders : JobOf(a)
  /\ \A t \in Threads : ThreadOf(t)
  /\ \A k \in Tracks : TrackOf(k)
  /\ pub # "reading" => batch = {} /\ Free(Publisher)

\* Answers, one round after the other.
AnswerInv ==
  /\ pub \in {"offering", "answering"} => round < MaxOffers
  /\ pub \in {"answered", "sent"} => round # 0
  /\ answered = IF pub = "answered" THEN 1 .. round - 1 ELSE 1 .. round
  /\ ready => 1 \in answered

\* There is nothing before the SFU is made nor after it is closed; who has
\* announced "sfu" has made it, or failed.
LifeInv ==
  /\ sfu = "nil" =>
       /\ batch = {}
       /\ \A a \in Adders : job[a] = Idle
       /\ \A v \in Viewers : viewers[v] = None
       /\ sfuMode => pub = "announced" \/ failed = Viewers
  /\ closed => /\ sfu \in {"dropped", "collected"}
               /\ \A v \in Viewers : viewers[v] = None

\* An open pc is in the map, on its way to pc.Close(), or overwritten.
StrayOf(x) ==
  state[x] = "open" =>
    x \in doomed \cup overwritten \/ \E v \in Viewers : viewers[v] = x

\* t will offer x the track: it is in Plans(x).
JobPlan(a, x) == job[a].pc = x /\ job[a].track # 0

Plan(t, x) ==
  \/ t \in Adders /\ JobPlan(t, x)
  \/ t \in Tracks /\ x \in deferred[t]
  \/ offering[t] = x

\* Who has been marked, or was there when a track arrived, is offered it.
PlannedOf(x) ==
  (\E v \in Viewers : viewers[v] = x) /\ (localTrack # 0 \/ x \in offerSent) =>
    x \in offered \/ \E t \in Threads : Plan(t, x)

\* While there is one track nobody plans to offer it to x again.
OnceOf(x) ==
  /\ localTrack = 0 => x \notin offered /\ \A t \in Threads : ~Plan(t, x)
  /\ localTrack < 2 =>
       /\ \A t, u \in Threads : Plan(t, x) /\ Plan(u, x) => t = u
       /\ \A k \in Tracks : x \in deferred[k] => offering[k] # x
       /\ x \in offered =>
            \A t \in Threads : Plan(t, x) => offering[t] = x /\ progress[t] = "flush"

\* a's AddViewer is about to insert v.
Adding(a, v) == job[a].viewer = v /\ job[a].at \in {"check", "create"}

\* A viewer that watches is known to whoever will add it.
WatchOf(v) ==
  v \in watching /\ sfuMode /\ sfu = "open" /\ v \notin failed =>
    \/ viewers[v] # None
    \/ handler[v] \in {"registered", "sfu"}
    \/ pub \in {"announced", "ensured"} \/ v \in batch
    \/ \E a \in Adders : Adding(a, v)

\* Buffers are flushed after the description has been written.
IceOf(x) ==
  /\ ice[x] = "delivered" \/ x \in iceReady => x \in offered
  /\ x \in iceReady => ice[x] # "pending"

PubIceInv ==
  /\ \A r \in Rounds : pubIce[r] = "delivered" /\ r = 1 => r \in answered
  /\ \A r \in Rounds : ready => pubIce[r] # "pending"

OfferInv == \A x \in Pcs : PlannedOf(x) /\ OnceOf(x)

IInv ==
  /\ TypeOK /\ ObjInv /\ AnswerInv /\ LifeInv
  /\ \A x \in Pcs : StrayOf(x) /\ IceOf(x)
  /\ OfferInv
  /\ \A v \in Viewers : WatchOf(v)
  /\ LeaverReleased /\ PubIceInv

-----------------------------------------------------------------------------
\* Nobody watches and nothing is made.
LEMMA InitIInv == Init => IInv
<1> SUFFICES ASSUME Init PROVE IInv
  OBVIOUS
<1> USE ScreenSFUAssumption DEF ScreenSFUAssumption, Init, Idle
<1>1. TypeOK
  <2>1. Idle \in Job
    BY DEF Job
  <2> HIDE DEF Idle
  <2>2. /\ sfuMode \in BOOLEAN /\ closed \in BOOLEAN /\ ready \in BOOLEAN
    OBVIOUS
  <2> QED
    BY <2>1, <2>2 DEF TypeOK, Candidate
<1>2. ObjInv
  <2>1. \A x \in Pcs : MadeOf(x)
    BY DEF MadeOf
  <2>2. \A a \in Adders : JobOf(a)
    BY DEF JobOf
  <2>3. \A t \in Threads : ThreadOf(t)
    BY DEF ThreadOf
  <2>4. \A k \in Tracks : TrackOf(k)
    BY DEF TrackOf, Threads
  <2>5. \A v \in Viewers : MapOf(v) /\ HandlerOf(v)
    BY DEF MapOf, HandlerOf, Free, Adders, Threads
  <2> QED
    BY <2>1, <2>2, <2>3, <2>4, <2>5 DEF ObjInv
<1>3. AnswerInv /\ PubIceInv
  BY DEF AnswerInv, PubIceInv
<1>4. LifeInv /\ LeaverReleased
  BY DEF LifeInv, LeaverReleased
<1>5. \A x \in Pcs : StrayOf(x) /\ IceOf(x)
  BY DEF StrayOf, IceOf
<1>6. OfferInv
  <2>1. \A x \in Pcs, t \in Threads : ~Plan(t, x)
    BY DEF Plan, JobPlan
  <2> QED
    BY <2>1 DEF OfferInv, PlannedOf, OnceOf
<1>7. \A v \in Viewers : WatchOf(v)
  BY DEF WatchOf
<1> QED
  BY <1>1, <1>2, <1>3, <1>4, <1>5, <1>6, <1>7 DEF IInv

\* What a job holds.
LEMMA JobTyped ==
  ASSUME TypeOK, NEW a \in Adders
  PROVE  /\ job[a].at \in {"idle", "check", "create", "wire", "mark"}
         /\ job[a].viewer \in Viewers \cup {None}
         /\ job[a].pc \in Pcs \cup {None}
         /\ job[a].track \in 0 .. MaxTracks /\ job[a].track \in Nat
         /\ job[a] = [at |-> job[a].at, viewer |-> job[a].viewer,
                      pc |-> job[a].pc, track |-> job[a].track]
BY DEF TypeOK, Job

\* What RemoveViewer takes out of the map it closes.
LEMMA RemoveViewerFacts ==
  ASSUME TypeOK, NEW v \in Viewers, RemoveViewer(v)
  PROVE  /\ viewers'[v] = None /\ \A w \in Viewers \ {v} : viewers'[w] = viewers[w]
         /\ doomed' = doomed \cup ({viewers[v]} \ {None})
         /\ viewers' \in [Viewers -> Pcs \cup {None}] /\ doomed' \subseteq Pcs
BY DEF TypeOK, RemoveViewer

\* Where the publisher's read loop goes on.
LEMMA EnsureGoesOn ==
  ASSUME EnsureScreenSFU
  PROVE  /\ pub = "announced" => pub' = "ensured"
         /\ pub # "announced" => pub' \in {"answering", "reading"}
<1>1. CASE pub = "announced"
  BY <1>1 DEF EnsureScreenSFU
<1>2. CASE pub # "announced"
  <2>1. CASE HasSFU'
    BY <1>2, <2>1 DEF EnsureScreenSFU
  <2>2. CASE ~HasSFU'
    BY <1>2, <2>2 DEF EnsureScreenSFU
  <2> QED
    BY <1>2, <2>1, <2>2
<1> QED
  BY <1>1, <1>2

\* The jobs of the others stay.
OthersStay(a) ==
  /\ job' \in [Adders -> Job]
  /\ \A b \in Adders \ {a} : job'[b] = job[b]

\* a's job is at such a place now, for v, with the pc x and the track k.
JobIs(a, at, v, x, k) ==
  /\ OthersStay(a)
  /\ job'[a].at = at /\ job'[a].viewer = v
  /\ job'[a].pc = x /\ job'[a].track = k

\* There is no job.
LEMMA IdleIsJob ==
  Idle \in Job /\ Idle.at = "idle" /\ Idle.viewer = None /\ Idle.pc = None
    /\ Idle.track = 0
BY ScreenSFUAssumption DEF ScreenSFUAssumption, Job, Idle

\* A job that is put in its place is the only one that changes.
LEMMA JobBecomes ==
  ASSUME TypeOK, NEW a \in Adders, NEW j \in Job, job' = [job EXCEPT ![a] = j]
  PROVE  OthersStay(a) /\ job'[a] = j
<1>1. job \in [Adders -> Job]
  BY DEF TypeOK
<1> QED
  BY <1>1 DEF OthersStay

\* AddViewer is called for v.
LEMMA JobBegins ==
  ASSUME TypeOK, NEW a \in Adders, NEW v \in Viewers,
         job' = [job EXCEPT ![a] = [Idle EXCEPT !.at = "check", !.viewer = v]]
  PROVE  JobIs(a, "check", v, None, 0)
<1> DEFINE j == [Idle EXCEPT !.at = "check", !.viewer = v]
<1>1. \A r \in Job :
        LET e == [r EXCEPT !.at = "check", !.viewer = v]
        IN  e \in Job /\ e.at = "check" /\ e.viewer = v /\ e.pc = r.pc
              /\ e.track = r.track
  BY DEF Job
<1>2. j \in Job /\ j.at = "check" /\ j.viewer = v /\ j.pc = None /\ j.track = 0
  BY <1>1, IdleIsJob
<1> HIDE DEF j
<1>3. job' = [job EXCEPT ![a] = j]
  BY DEF j
<1>4. OthersStay(a) /\ job'[a] = j
  BY <1>2, <1>3, JobBecomes
<1> QED
  BY <1>2, <1>4 DEF JobIs

\* AddViewer returns.
LEMMA JobEnds ==
  ASSUME TypeOK, NEW a \in Adders, job' = [job EXCEPT ![a] = Idle]
  PROVE  OthersStay(a) /\ job'[a] = Idle
BY IdleIsJob, JobBecomes

\* It goes on to another place.
LEMMA JobGoesOn ==
  ASSUME TypeOK, NEW a \in Adders, NEW at \in {"create", "mark"},
         job' = [job EXCEPT ![a].at = at]
  PROVE  JobIs(a, at, job[a].viewer, job[a].pc, job[a].track)
<1> DEFINE j == [job[a] EXCEPT !.at = at]
<1>1. job[a] \in Job
  BY DEF TypeOK
<1>2. \A r \in Job :
        LET e == [r EXCEPT !.at = at]
        IN  e \in Job /\ e.at = at /\ e.viewer = r.viewer /\ e.pc = r.pc
              /\ e.track = r.track
  BY DEF Job
<1>3. /\ j \in Job /\ j.at = at /\ j.viewer = job[a].viewer
      /\ j.pc = job[a].pc /\ j.track = job[a].track
  BY <1>1, <1>2
<1> HIDE DEF j
<1>4. job' = [job EXCEPT ![a] = j]
  BY DEF j
<1>5. OthersStay(a) /\ job'[a] = j
  BY <1>3, <1>4, JobBecomes
<1> QED
  BY <1>3, <1>5 DEF JobIs

\* What the insertion changes.
LEMMA InsertFacts ==
  ASSUME TypeOK, ObjInv, NEW a \in Adders, NEW x \in Pcs, AddViewerInsert(a, x)
  PROVE  /\ job[a].at = "create" /\ job[a].viewer \in Viewers
         /\ job[a].pc = None /\ job[a].track = 0 /\ offering[a] = None
         /\ state[x] = "nil" /\ ~closed
         /\ state' = [state EXCEPT ![x] = "open"]
         /\ conn' = [conn EXCEPT ![x] = job[a].viewer]
         /\ viewers' = [viewers EXCEPT ![job[a].viewer] = x]
         /\ JobIs(a, "wire", job[a].viewer, x, localTrack)
         /\ overwritten' = overwritten \cup ({viewers[job[a].viewer]} \ {None})
         /\ tardy \subseteq tardy' /\ tardy' \subseteq tardy \cup {job[a].viewer}
         /\ handler[job[a].viewer] = "gone" => job[a].viewer \in tardy'
         /\ UNCHANGED <<roomVars, closed, localTrack, wired, signalVars, handler,
                        offerVars, pubVars, answerVars, closeVars, failures,
                        failed>>
<1> USE DEF AddViewerInsert, Insert
<1> DEFINE j == [job[a] EXCEPT !.at = "wire", !.pc = x, !.track = localTrack]
<1>1. JobOf(a) /\ job[a].at = "create"
  BY DEF ObjInv
<1>2. job[a] \in Job /\ localTrack \in 0 .. MaxTracks
  BY DEF TypeOK
<1>3. \A r \in Job :
        LET e == [r EXCEPT !.at = "wire", !.pc = x, !.track = localTrack]
        IN  e \in Job /\ e.at = "wire" /\ e.viewer = r.viewer /\ e.pc = x
              /\ e.track = localTrack
  BY <1>2 DEF Job
<1>4. /\ j \in Job /\ j.at = "wire" /\ j.viewer = job[a].viewer /\ j.pc = x
      /\ j.track = localTrack
  BY <1>2, <1>3
<1>5. job' = [job EXCEPT ![a] = j]
  OBVIOUS
<1>6. JobIs(a, "wire", job[a].viewer, x, localTrack)
  <2> HIDE DEF j, AddViewerInsert, Insert
  <2>1. OthersStay(a) /\ job'[a] = j
    BY <1>4, <1>5, JobBecomes
  <2> QED
    BY <1>4, <2>1 DEF JobIs
<1> QED
  BY <1>1, <1>6 DEF JobOf

\* Those who still look for a viewer, or have found no track, plan nothing.
QuietJob(z) ==
  /\ UNCHANGED <<viewers, localTrack, offerSent, offered, deferred, offering,
                 progress>>
  /\ \A b \in Adders : JobPlan(b, z)' <=> JobPlan(b, z)

\* Most of AddViewer is quiet.
LEMMA QuietJobs ==
  ASSUME TypeOK, ObjInv, NEW z \in Pcs
  PROVE  /\ \A v \in Viewers : AddSFUViewer(v) \/ SetupNext(v) => QuietJob(z)
         /\ \A a \in Adders :
              AddViewerCheck(a) \/ AddViewerFails(a) \/ AddViewerClosed(a)
                \/ WireViewer(a) => QuietJob(z)
<1>0. z # None
  BY ScreenSFUAssumption DEF ScreenSFUAssumption
<1>1. ASSUME NEW a \in Adders, OthersStay(a), ~JobPlan(a, z),
             job'[a].pc # z \/ job'[a].track = 0
      PROVE  \A b \in Adders : JobPlan(b, z)' <=> JobPlan(b, z)
  BY <1>1 DEF JobPlan, OthersStay
<1>2. ASSUME NEW a \in Adders, job[a].at \in {"idle", "check", "create"}
      PROVE  ~JobPlan(a, z)
  BY <1>0, <1>2, IdleIsJob DEF ObjInv, JobOf, JobPlan
<1>3. ASSUME NEW v \in Viewers, AddSFUViewer(v) PROVE QuietJob(z)
  <2>1. UNCHANGED <<viewers, localTrack, offerSent, offered, deferred, offering,
                    progress>>
    BY <1>3 DEF AddSFUViewer, sfuVars, signalVars, offerVars
  <2>2. CASE job' = job
    BY <2>1, <2>2 DEF QuietJob, JobPlan
  <2>3. CASE job' # job
    <3>1. v \in Adders
      BY DEF Adders
    <3>2. JobIs(v, "check", v, None, 0)
      BY <1>3, <2>3, <3>1, JobBegins DEF AddSFUViewer
    <3>3. job[v] = Idle
      BY <1>3 DEF AddSFUViewer, ObjInv, HandlerOf, Free
    <3>4. ~JobPlan(v, z)
      BY <1>2, <3>1, <3>3, IdleIsJob
    <3>5. OthersStay(v) /\ job'[v].pc # z
      BY <1>0, <3>2 DEF JobIs
    <3> QED
      BY <1>1, <2>1, <3>1, <3>4, <3>5 DEF QuietJob
  <2> QED
    BY <2>2, <2>3
<1>4. ASSUME NEW v \in Viewers, SetupNext(v) PROVE QuietJob(z)
  <2>1. UNCHANGED <<viewers, localTrack, offerSent, offered, deferred, offering,
                    progress>>
    BY <1>4 DEF SetupNext, sfuVars, signalVars, offerVars
  <2>2. Publisher \in Adders
    BY DEF Adders
  <2>3. JobIs(Publisher, "check", v, None, 0) /\ job[Publisher] = Idle
    BY <1>4, <2>2, JobBegins DEF SetupNext, Free
  <2>4. ~JobPlan(Publisher, z)
    BY <1>2, <2>2, <2>3, IdleIsJob
  <2>5. OthersStay(Publisher) /\ job'[Publisher].pc # z
    BY <1>0, <2>3 DEF JobIs
  <2> QED
    BY <1>1, <2>1, <2>2, <2>4, <2>5 DEF QuietJob
<1>5. ASSUME NEW a \in Adders, AddViewerCheck(a) PROVE QuietJob(z)
  <2>1. UNCHANGED <<viewers, localTrack, offerSent, offered, deferred, offering,
                    progress>>
    BY <1>5 DEF AddViewerCheck, sfuVars, signalVars, offerVars
  <2>2. ~JobPlan(a, z) /\ job[a].pc = None
    BY <1>2, <1>5 DEF AddViewerCheck, ObjInv, JobOf
  <2>3. OthersStay(a) /\ job'[a].pc = None
    BY <1>5, <2>2, JobEnds, JobGoesOn, IdleIsJob DEF AddViewerCheck, JobIs
  <2> QED
    BY <1>0, <1>1, <2>1, <2>2, <2>3 DEF QuietJob
<1>6. ASSUME NEW a \in Adders, AddViewerFails(a) \/ AddViewerClosed(a)
      PROVE  QuietJob(z)
  <2>1. UNCHANGED <<viewers, localTrack, offerSent, offered, deferred, offering,
                    progress>>
    BY <1>6 DEF AddViewerFails, AddViewerClosed, sfuVars, signalVars, offerVars
  <2>2. ~JobPlan(a, z)
    BY <1>2, <1>6 DEF AddViewerFails, AddViewerClosed
  <2>3. OthersStay(a) /\ job'[a].pc = None
    BY <1>6, JobEnds, IdleIsJob DEF AddViewerFails, AddViewerClosed
  <2> QED
    BY <1>0, <1>1, <2>1, <2>2, <2>3 DEF QuietJob
<1>7. ASSUME NEW a \in Adders, WireViewer(a) PROVE QuietJob(z)
  <2>1. UNCHANGED <<viewers, localTrack, offerSent, offered, deferred, offering,
                    progress>>
    BY <1>7 DEF WireViewer, sfuVars, signalVars, offerVars
  <2>2. CASE job[a].track = 0
    <3>1. ~JobPlan(a, z)
      BY <2>2 DEF JobPlan
    <3>2. OthersStay(a) /\ job'[a].pc = None
      BY <1>7, <2>2, JobEnds, IdleIsJob DEF WireViewer
    <3> QED
      BY <1>0, <1>1, <2>1, <3>1, <3>2 DEF QuietJob
  <2>3. CASE job[a].track # 0
    <3>1. JobIs(a, "mark", job[a].viewer, job[a].pc, job[a].track)
      BY <1>7, <2>3, JobGoesOn DEF WireViewer
    <3> QED
      BY <2>1, <3>1 DEF QuietJob, JobPlan, JobIs, OthersStay
  <2> QED
    BY <2>2, <2>3
<1> QED
  BY <1>3, <1>4, <1>5, <1>6, <1>7

\* What moves a plan from one place to the next.
LEMMA MarkViewerPlans ==
  ASSUME TypeOK, ObjInv, NEW z \in Pcs, NEW a \in Adders, MarkViewer(a)
  PROVE  /\ \A t \in Threads : Plan(t, z)' <=> Plan(t, z)
         /\ JobPlan(a, job[a].pc) /\ offering[a] = None
         /\ \A t \in Threads \ {a} : offering'[t] = offering[t]
<1>0. z # None /\ a \notin Tracks /\ a \in Threads
  BY ScreenSFUAssumption DEF ScreenSFUAssumption, Tracks, Adders, Threads
<1>1. /\ job[a].track # 0 /\ offering[a] = None
      /\ offering' = [offering EXCEPT ![a] = job[a].pc] /\ UNCHANGED deferred
  BY <1>0 DEF MarkViewer, ObjInv, JobOf
<1>2. OthersStay(a) /\ job'[a].pc = None
  BY JobEnds, IdleIsJob DEF MarkViewer
<1>3. /\ offering'[a] = job[a].pc
      /\ \A t \in Threads \ {a} : offering'[t] = offering[t]
  BY <1>0, <1>1 DEF TypeOK
<1>4. Plan(a, z)' <=> Plan(a, z)
  BY <1>0, <1>1, <1>2, <1>3 DEF Plan, JobPlan
<1>5. \A t \in Threads \ {a} : Plan(t, z)' <=> Plan(t, z)
  BY <1>1, <1>2, <1>3 DEF Plan, JobPlan, OthersStay
<1> QED
  BY <1>1, <1>3, <1>4, <1>5 DEF JobPlan

\* So does the loop of the callback.
LEMMA OfferDeferredPlans ==
  ASSUME TypeOK, NEW z \in Pcs, NEW k \in Tracks, NEW x \in Pcs,
         OfferDeferred(k, x)
  PROVE  /\ \A t \in Threads : Plan(t, z)' <=> Plan(t, z)
         /\ offering[k] = None /\ offering'[k] = x /\ Plan(k, x)
         /\ x \notin deferred'[k] /\ \A l \in Tracks : deferred'[l] \subseteq deferred[l]
         /\ \A t \in Threads \ {k} : offering'[t] = offering[t]
<1>0. z # None /\ k \notin Adders /\ k \in Threads
  BY ScreenSFUAssumption DEF ScreenSFUAssumption, Tracks, Adders, Threads
<1>1. /\ x \in deferred[k] /\ offering[k] = None /\ UNCHANGED job
      /\ deferred'[k] = deferred[k] \ {x} /\ offering'[k] = x
      /\ \A l \in Tracks \ {k} : deferred'[l] = deferred[l]
      /\ \A t \in Threads \ {k} : offering'[t] = offering[t]
  BY <1>0 DEF OfferDeferred, TypeOK
<1>2. Plan(k, z)' <=> Plan(k, z)
  BY <1>0, <1>1 DEF Plan
<1>3. \A t \in Threads \ {k} : Plan(t, z)' <=> Plan(t, z)
  BY <1>1 DEF Plan, JobPlan
<1> QED
  BY <1>1, <1>2, <1>3 DEF Plan

\* sendOfferToViewer leaves nothing else undone.
LEMMA FinishPlans ==
  ASSUME TypeOK, NEW z \in Pcs, NEW t \in Threads, Finish(t),
         UNCHANGED <<job, deferred>>
  PROVE  /\ \A u \in Threads : Plan(u, z)' => Plan(u, z)
         /\ \A u \in Threads :
              Plan(u, z) /\ offering[t] # z => Plan(u, z)'
         /\ offering'[t] = None /\ progress'[t] = "idle"
         /\ \A u \in Threads \ {t} :
              offering'[u] = offering[u] /\ progress'[u] = progress[u]
<1>0. z # None
  BY ScreenSFUAssumption DEF ScreenSFUAssumption
<1>1. /\ offering'[t] = None /\ progress'[t] = "idle"
      /\ \A u \in Threads \ {t} :
           offering'[u] = offering[u] /\ progress'[u] = progress[u]
  BY DEF Finish, TypeOK
<1>2. \A u \in Threads : Plan(u, z)' => Plan(u, z)
  BY <1>0, <1>1 DEF Plan, JobPlan
<1>3. \A u \in Threads : Plan(u, z) /\ offering[t] # z => Plan(u, z)'
  BY <1>1 DEF Plan, JobPlan
<1> QED
  BY <1>1, <1>2, <1>3

\* A new pc is planned for if there is a track; the others' plans stay.
LEMMA InsertPlans ==
  ASSUME TypeOK, ObjInv, NEW z \in Pcs, NEW a \in Adders, NEW x \in Pcs,
         AddViewerInsert(a, x)
  PROVE  /\ z # x => \A t \in Threads : Plan(t, z)' <=> Plan(t, z)
         /\ \A t \in Threads : Plan(t, x)' <=> t = a /\ localTrack # 0
         /\ x \notin offered \cup offerSent /\ \A k \in Tracks : x \notin deferred[k]
<1>0. z # None /\ a \in Threads
  BY ScreenSFUAssumption DEF ScreenSFUAssumption, Adders, Threads
<1>1. /\ job[a].pc = None /\ state[x] = "nil"
      /\ JobIs(a, "wire", job[a].viewer, x, localTrack)
      /\ UNCHANGED <<deferred, offering>>
  BY InsertFacts DEF offerVars
<1>2. /\ \A b \in Adders : job[b].pc # x
      /\ \A k \in Tracks : x \notin deferred[k]
      /\ \A t \in Threads : offering[t] # x
      /\ x \notin offered \cup offerSent
  BY <1>1 DEF ObjInv, MadeOf
<1>3. z # x => \A t \in Threads : Plan(t, z)' <=> Plan(t, z)
  BY <1>0, <1>1 DEF Plan, JobPlan, JobIs, OthersStay
<1>4. \A t \in Threads : Plan(t, x)' <=> t = a /\ localTrack # 0
  BY <1>1, <1>2 DEF Plan, JobPlan, JobIs, OthersStay
<1> QED
  BY <1>2, <1>3, <1>4

\* A track adds a plan for whoever has no offer, and is new.
LEMMA TrackPlans ==
  ASSUME TypeOK, ObjInv, NEW z \in Pcs, NEW k \in Tracks, OnPublisherTrack(k)
  PROVE  /\ UNCHANGED <<viewers, offered, offering, progress>>
         /\ localTrack' = localTrack + 1 /\ localTrack \in Nat
         /\ \A t \in Threads :
              Plan(t, z)' <=> Plan(t, z) \/ (t = k /\ z \in Registered \ offerSent)
         /\ offering[k] = None /\ deferred[k] = {}
         /\ \A l \in Tracks \ {k} : deferred'[l] = deferred[l]
<1>1. /\ UNCHANGED <<viewers, offered, offering, progress, job>>
      /\ localTrack' = localTrack + 1 /\ k = localTrack + 1
      /\ deferred' = [deferred EXCEPT ![k] = Registered \ offerSent]
  BY DEF OnPublisherTrack
<1>2. localTrack \in Nat
  BY DEF TypeOK
<1>3. k > localTrack
  BY <1>1, <1>2
<1>4. deferred[k] = {} /\ offering[k] = None
  BY <1>3 DEF ObjInv, TrackOf
<1>5. /\ deferred'[k] = Registered \ offerSent
      /\ \A l \in Tracks \ {k} : deferred'[l] = deferred[l]
  BY <1>1 DEF TypeOK
<1>6. Plan(k, z)' <=> Plan(k, z) \/ z \in Registered \ offerSent
  <2>1. z # None /\ k \notin Adders
    BY ScreenSFUAssumption DEF ScreenSFUAssumption, Tracks, Adders
  <2>2. ~Plan(k, z)
    BY <1>4, <2>1 DEF Plan
  <2>3. Plan(k, z)' <=> z \in Registered \ offerSent
    BY <1>1, <1>4, <1>5, <2>1 DEF Plan
  <2> QED
    BY <2>2, <2>3
<1>7. \A t \in Threads \ {k} : Plan(t, z)' <=> Plan(t, z)
  BY <1>1, <1>5 DEF Plan, JobPlan
<1> QED
  <2>1. \A t \in Threads :
          Plan(t, z)' <=> Plan(t, z) \/ (t = k /\ z \in Registered \ offerSent)
    BY <1>6, <1>7
  <2> QED
    BY <1>1, <1>2, <1>4, <1>5, <2>1

\* Every action keeps the types.
LEMMA TypeStep ==
  TypeOK /\ ObjInv /\ AnswerInv /\ [Next]_vars => TypeOK'
<1> SUFFICES ASSUME TypeOK, ObjInv, AnswerInv, [Next]_vars
             PROVE  TypeOK'
  OBVIOUS
<1> USE ScreenSFUAssumption DEF ScreenSFUAssumption, TypeOK, Tracks, Threads,
   Adders, Rounds, roomVars, sfuVars, pcVars, signalVars, offerVars, pubVars,
   answerVars, closeVars, history
<1>1. ASSUME NEW v \in Viewers, RegisterScreenViewer(v) PROVE TypeOK'
  BY <1>1 DEF RegisterScreenViewer
<1>2. ASSUME NEW v \in Viewers, ReadMode(v) PROVE TypeOK'
  BY <1>2 DEF ReadMode
<1>3. ASSUME NEW v \in Viewers, AddSFUViewer(v) PROVE TypeOK'
  <2>1. job' \in [Adders -> Job]
    <3>1. job \in [Adders -> Job]
      OBVIOUS
    <3> HIDE DEF TypeOK
    <3> QED
      BY <1>3, <3>1, JobBegins DEF AddSFUViewer, JobIs, OthersStay
  <2> QED
    BY <1>3, <2>1 DEF AddSFUViewer
<1>4. ASSUME NEW v \in Viewers, RemoveScreenViewer(v) PROVE TypeOK'
  BY <1>4 DEF RemoveScreenViewer
<1>5. ASSUME NEW v \in Viewers, LeaveSFU(v) PROVE TypeOK'
  BY <1>5 DEF LeaveSFU, RemoveViewer
<1>6. CASE Hello
  BY <1>6 DEF Hello, PublisherFree
<1>7. CASE EnsureScreenSFU
  BY <1>7 DEF EnsureScreenSFU, MayFail
<1>8. CASE SetupAllSFUViewers
  BY <1>8 DEF SetupAllSFUViewers
<1>9. ASSUME NEW v \in Viewers, SetupNext(v) PROVE TypeOK'
  <2>1. job' \in [Adders -> Job]
    <3> HIDE DEF TypeOK
    <3> QED
      BY <1>9, JobBegins DEF SetupNext, JobIs, OthersStay
  <2> QED
    BY <1>9, <2>1 DEF SetupNext
<1>10. CASE PublisherOffers
  BY <1>10 DEF PublisherOffers, PublisherFree
<1>11. CASE HandlePublisherOffer
  <2>1. round + 1 \in Rounds
    <3>1. round \in Nat /\ round < MaxOffers
      BY <1>11 DEF HandlePublisherOffer, AnswerInv
    <3> QED
      BY <3>1
  <2>2. round' \in 0 .. MaxOffers
    BY <1>11, <2>1 DEF HandlePublisherOffer
  <2>3. pubIce' \in [Rounds -> Candidate]
    BY <1>11, <2>1 DEF HandlePublisherOffer, Candidate
  <2> QED
    BY <1>11, <2>2, <2>3 DEF HandlePublisherOffer
<1>12. CASE HandlePublisherOfferFails
  BY <1>12 DEF HandlePublisherOfferFails, MayFail
<1>13. CASE SendAnswer
  <2>1. answered' \subseteq Rounds
    <3>1. round \in Rounds
      BY <1>13 DEF SendAnswer, AnswerInv
    <3> QED
      BY <1>13, <3>1 DEF SendAnswer
  <2> QED
    BY <1>13, <2>1 DEF SendAnswer
<1>14. CASE FlushPublisherICE
  <2>1. pubIce' \in [Rounds -> Candidate]
    BY <1>14 DEF FlushPublisherICE, Candidate
  <2>2. ready' \in BOOLEAN
    BY <1>14 DEF FlushPublisherICE
  <2> QED
    BY <1>14, <2>1, <2>2 DEF FlushPublisherICE
<1>15. ASSUME NEW r \in Rounds, OnPublisherICECandidate(r) PROVE TypeOK'
  <2>1. pubIce' \in [Rounds -> Candidate]
    BY <1>15 DEF OnPublisherICECandidate, Candidate
  <2> QED
    BY <1>15, <2>1 DEF OnPublisherICECandidate
<1>16. ASSUME NEW a \in Adders, AddViewerCheck(a) PROVE TypeOK'
  <2>1. job' \in [Adders -> Job]
    <3> HIDE DEF TypeOK
    <3> QED
      BY <1>16, JobEnds, JobGoesOn DEF AddViewerCheck, JobIs, OthersStay
  <2> QED
    BY <1>16, <2>1 DEF AddViewerCheck
<1>17. ASSUME NEW a \in Adders, AddViewerFails(a) PROVE TypeOK'
  <2>1. job' \in [Adders -> Job]
    <3> HIDE DEF TypeOK
    <3> QED
      BY <1>17, JobEnds DEF AddViewerFails, JobIs, OthersStay
  <2>2. job[a].viewer \in Viewers
    BY <1>17 DEF AddViewerFails, ObjInv, JobOf
  <2>3. failures' \in 0 .. MaxFailures
    BY <1>17 DEF AddViewerFails, MayFail
  <2> QED
    BY <1>17, <2>1, <2>2, <2>3 DEF AddViewerFails
<1>18. ASSUME NEW a \in Adders, AddViewerClosed(a) PROVE TypeOK'
  <2>1. job' \in [Adders -> Job]
    <3> HIDE DEF TypeOK
    <3> QED
      BY <1>18, JobEnds DEF AddViewerClosed, JobIs, OthersStay
  <2> QED
    BY <1>18, <2>1 DEF AddViewerClosed
<1>19. ASSUME NEW a \in Adders, NEW x \in Pcs, AddViewerInsert(a, x)
      PROVE  TypeOK'
  <2> HIDE DEF TypeOK
  <2>1. /\ job[a].viewer \in Viewers
        /\ state' = [state EXCEPT ![x] = "open"]
        /\ conn' = [conn EXCEPT ![x] = job[a].viewer]
        /\ viewers' = [viewers EXCEPT ![job[a].viewer] = x]
        /\ job' \in [Adders -> Job]
        /\ overwritten' = overwritten \cup ({viewers[job[a].viewer]} \ {None})
        /\ tardy' \subseteq tardy \cup {job[a].viewer}
        /\ UNCHANGED <<roomVars, closed, localTrack, wired, signalVars, handler,
                       offerVars, pubVars, answerVars, closeVars, failures,
                       failed>>
    BY <1>19, InsertFacts DEF JobIs, OthersStay
  <2> QED
    BY <2>1 DEF TypeOK
<1>20. ASSUME NEW a \in Adders, WireViewer(a) PROVE TypeOK'
  <2>1. job' \in [Adders -> Job]
    <3> HIDE DEF TypeOK
    <3> QED
      BY <1>20, JobEnds, JobGoesOn DEF WireViewer, JobIs, OthersStay
  <2>2. job[a].pc \in Pcs
    BY <1>20, JobTyped DEF WireViewer, ObjInv, JobOf
  <2> QED
    BY <1>20, <2>1, <2>2 DEF WireViewer
<1>21. ASSUME NEW a \in Adders, MarkViewer(a) PROVE TypeOK'
  <2>1. job' \in [Adders -> Job]
    <3> HIDE DEF TypeOK
    <3> QED
      BY <1>21, JobEnds DEF MarkViewer, JobIs, OthersStay
  <2>2. job[a].pc \in Pcs
    BY <1>21, JobTyped DEF MarkViewer, ObjInv, JobOf
  <2> QED
    BY <1>21, <2>1, <2>2 DEF MarkViewer
<1>22. ASSUME NEW t \in Threads, DescribeOffer(t) PROVE TypeOK'
  <2>1. offering[t] \in Pcs
    BY <1>22 DEF DescribeOffer, ObjInv, ThreadOf
  <2>2. ice' \in [Pcs -> Candidate]
    BY <1>22, <2>1 DEF DescribeOffer, Candidate
  <2> QED
    BY <1>22, <2>2 DEF DescribeOffer
<1>23. ASSUME NEW t \in Threads, DescribeOfferFails(t) PROVE TypeOK'
  <2>1. offering[t] \in Pcs
    BY <1>23 DEF DescribeOfferFails, ObjInv, ThreadOf
  <2>2. conn[offering[t]] \in Viewers
    BY <2>1 DEF ObjInv, MadeOf
  <2>3. viewers' \in [Viewers -> Pcs \cup {None}] /\ doomed' \subseteq Pcs
    <3> HIDE DEF TypeOK
    <3> QED
      BY <1>23, <2>2, RemoveViewerFacts DEF DescribeOfferFails
  <2>4. failures' \in 0 .. MaxFailures
    BY <1>23 DEF DescribeOfferFails, Fails, MayFail
  <2> QED
    BY <1>23, <2>2, <2>3, <2>4 DEF DescribeOfferFails, Finish
<1>24. ASSUME NEW t \in Threads, SendOffer(t) PROVE TypeOK'
  <2>1. offering[t] \in Pcs
    BY <1>24 DEF SendOffer, ObjInv, ThreadOf
  <2> QED
    BY <1>24, <2>1 DEF SendOffer
<1>25. ASSUME NEW t \in Threads, FlushViewerICE(t) PROVE TypeOK'
  <2>1. offering[t] \in Pcs
    BY <1>25 DEF FlushViewerICE, ObjInv, ThreadOf
  <2>2. ice' \in [Pcs -> Candidate]
    BY <1>25, <2>1 DEF FlushViewerICE, Candidate
  <2> QED
    BY <1>25, <2>1, <2>2 DEF FlushViewerICE, Finish
<1>26. ASSUME NEW k \in Tracks, OnPublisherTrack(k) PROVE TypeOK'
  <2>1. Registered \subseteq Pcs
    BY DEF Registered
  <2> QED
    BY <1>26, <2>1 DEF OnPublisherTrack
<1>27. ASSUME NEW k \in Tracks, NEW x \in Pcs, OfferDeferred(k, x)
      PROVE  TypeOK'
  BY <1>27 DEF OfferDeferred
<1>28. ASSUME NEW x \in Pcs, OnViewerICECandidate(x) PROVE TypeOK'
  <2>1. ice' \in [Pcs -> Candidate]
    BY <1>28 DEF OnViewerICECandidate, Candidate
  <2> QED
    BY <1>28, <2>1 DEF OnViewerICECandidate
<1>29. ASSUME NEW x \in Pcs, ViewerDisconnects(x) PROVE TypeOK'
  BY <1>29 DEF ViewerDisconnects, MayFail
<1>30. ASSUME NEW x \in Pcs, OnViewerStateChange(x) PROVE TypeOK'
  <2>2. conn[x] \in Viewers
    BY <1>30 DEF OnViewerStateChange, ObjInv, MadeOf
  <2>3. viewers' \in [Viewers -> Pcs \cup {None}] /\ doomed' \subseteq Pcs
    <3> HIDE DEF TypeOK
    <3> QED
      BY <1>30, <2>2, RemoveViewerFacts DEF OnViewerStateChange
  <2> QED
    BY <1>30, <2>2, <2>3 DEF OnViewerStateChange
<1>31. ASSUME NEW x \in Pcs, ClosePc(x) PROVE TypeOK'
  BY <1>31 DEF ClosePc
<1>32. CASE DropSFU \/ CollectSFU
  BY <1>32 DEF DropSFU, CollectSFU
<1>33. CASE Close
  <2>1. Registered \subseteq Pcs
    BY DEF Registered
  <2>2. closed' \in BOOLEAN
    BY <1>33 DEF Close
  <2> QED
    BY <1>33, <2>1, <2>2 DEF Close
<1>34. CASE UNCHANGED vars
  BY <1>34 DEF vars
<1> QED
  BY <1>1, <1>2, <1>3, <1>4, <1>5, <1>6, <1>7, <1>8, <1>9, <1>10, <1>11, <1>12,
     <1>13, <1>14, <1>15, <1>16, <1>17, <1>18, <1>19, <1>20, <1>21, <1>22,
     <1>23, <1>24, <1>25, <1>26, <1>27, <1>28, <1>29, <1>30, <1>31, <1>32,
     <1>33, <1>34 DEF Next, HandleScreenViewer, HandleScreenPublisher,
     AddViewer, SendOfferToViewer, Pion

\* What is not made is unknown to everybody.
LEMMA MadeStep ==
  TypeOK /\ TypeOK' /\ ObjInv /\ [Next]_vars => (\A z \in Pcs : MadeOf(z))'
<1> SUFFICES ASSUME TypeOK, TypeOK', ObjInv, [Next]_vars
             PROVE  (\A z \in Pcs : MadeOf(z))'
  OBVIOUS
<1> SUFFICES ASSUME NEW z \in Pcs PROVE MadeOf(z)'
  OBVIOUS
<1>a. MadeOf(z)
  BY DEF ObjInv
<1> USE DEF TypeOK, ObjInv, MadeOf, JobIs, OthersStay, Registered
<1>1. ASSUME NEW v \in Viewers, AddSFUViewer(v) PROVE MadeOf(z)'
  <2> HIDE DEF TypeOK, MadeOf, ObjInv
  <2>1. \A b \in Adders : job'[b].pc \in {job[b].pc, None}
    BY <1>1, JobBegins DEF AddSFUViewer, Adders
  <2>2. z # None
    BY ScreenSFUAssumption DEF ScreenSFUAssumption
  <2>3. UNCHANGED <<conn, state, wired, offerSent, iceReady, offered, doomed,
     callback, overwritten, viewers, deferred, offering>>
    BY <1>1 DEF AddSFUViewer, sfuVars, pcVars, signalVars, offerVars, closeVars,
       history
  <2> QED
    BY <1>a, <2>1, <2>2, <2>3 DEF MadeOf
<1>2. ASSUME NEW v \in Viewers, LeaveSFU(v) PROVE MadeOf(z)'
  <2> HIDE DEF TypeOK, MadeOf, ObjInv
  <2>1. /\ \A w \in Viewers : viewers'[w] \in {viewers[w], None}
        /\ doomed' \subseteq doomed \cup {viewers[w] : w \in Viewers}
    BY <1>2, RemoveViewerFacts DEF LeaveSFU
  <2>2. z # None
    BY ScreenSFUAssumption DEF ScreenSFUAssumption
  <2>3. UNCHANGED <<conn, state, wired, offerSent, iceReady, offered, callback,
     overwritten, deferred, offering, job>>
    BY <1>2 DEF LeaveSFU, sfuVars, pcVars, signalVars, offerVars, closeVars,
       history
  <2> QED
    BY <1>a, <2>1, <2>2, <2>3 DEF MadeOf
<1>3. ASSUME NEW v \in Viewers, SetupNext(v) PROVE MadeOf(z)'
  <2> HIDE DEF TypeOK, MadeOf, ObjInv
  <2>1. \A b \in Adders : job'[b].pc \in {job[b].pc, None}
    BY <1>3, JobBegins DEF SetupNext, Adders
  <2>2. z # None
    BY ScreenSFUAssumption DEF ScreenSFUAssumption
  <2>3. UNCHANGED <<conn, state, wired, offerSent, iceReady, offered, doomed,
     callback, overwritten, viewers, deferred, offering>>
    BY <1>3 DEF SetupNext, sfuVars, pcVars, signalVars, offerVars, closeVars,
       history
  <2> QED
    BY <1>a, <2>1, <2>2, <2>3 DEF MadeOf
<1>4. ASSUME NEW a \in Adders, AddViewerCheck(a) PROVE MadeOf(z)'
  <2> HIDE DEF TypeOK, MadeOf, ObjInv
  <2>1. \A b \in Adders : job'[b].pc \in {job[b].pc, None}
    BY <1>4, JobEnds, JobGoesOn, IdleIsJob DEF AddViewerCheck, Adders
  <2>2. z # None
    BY ScreenSFUAssumption DEF ScreenSFUAssumption
  <2>3. UNCHANGED <<conn, state, wired, offerSent, iceReady, offered, doomed,
     callback, overwritten, viewers, deferred, offering>>
    BY <1>4 DEF AddViewerCheck, sfuVars, pcVars, signalVars, offerVars,
       closeVars, history
  <2> QED
    BY <1>a, <2>1, <2>2, <2>3 DEF MadeOf
<1>5. ASSUME NEW a \in Adders, AddViewerFails(a) PROVE MadeOf(z)'
  <2> HIDE DEF TypeOK, MadeOf, ObjInv
  <2>1. \A b \in Adders : job'[b].pc \in {job[b].pc, None}
    BY <1>5, JobEnds, IdleIsJob DEF AddViewerFails, Adders
  <2>2. z # None
    BY ScreenSFUAssumption DEF ScreenSFUAssumption
  <2>3. UNCHANGED <<conn, state, wired, offerSent, iceReady, offered, doomed,
     callback, overwritten, viewers, deferred, offering>>
    BY <1>5 DEF AddViewerFails, sfuVars, pcVars, signalVars, offerVars, closeVars
  <2> QED
    BY <1>a, <2>1, <2>2, <2>3 DEF MadeOf
<1>6. ASSUME NEW a \in Adders, AddViewerClosed(a) PROVE MadeOf(z)'
  <2> HIDE DEF TypeOK, MadeOf, ObjInv
  <2>1. \A b \in Adders : job'[b].pc \in {job[b].pc, None}
    BY <1>6, JobEnds, IdleIsJob DEF AddViewerClosed, Adders
  <2>2. z # None
    BY ScreenSFUAssumption DEF ScreenSFUAssumption
  <2>3. UNCHANGED <<conn, state, wired, offerSent, iceReady, offered, doomed,
     callback, overwritten, viewers, deferred, offering>>
    BY <1>6 DEF AddViewerClosed, sfuVars, pcVars, signalVars, offerVars,
       closeVars, history
  <2> QED
    BY <1>a, <2>1, <2>2, <2>3 DEF MadeOf
<1>7. ASSUME NEW a \in Adders, NEW x \in Pcs, AddViewerInsert(a, x)
      PROVE  MadeOf(z)'
  BY <1>7, <1>a DEF AddViewerInsert, Insert, signalVars, offerVars, closeVars
<1>8. ASSUME NEW a \in Adders, WireViewer(a) PROVE MadeOf(z)'
  <2> HIDE DEF TypeOK, MadeOf, ObjInv
  <2>1. \A b \in Adders : job'[b].pc \in {job[b].pc, None}
    BY <1>8, JobEnds, JobGoesOn, IdleIsJob DEF WireViewer, Adders
  <2>2. z # None
    BY ScreenSFUAssumption DEF ScreenSFUAssumption
  <2>3. UNCHANGED <<conn, state, offerSent, iceReady, offered, doomed,
     callback, overwritten, viewers, deferred, offering>>
    BY <1>8 DEF WireViewer, sfuVars, signalVars, offerVars, closeVars, history
  <2>4. wired' = wired \cup {job[a].pc}
    BY <1>8 DEF WireViewer
  <2> QED
    BY <1>a, <2>1, <2>2, <2>3, <2>4 DEF MadeOf
<1>9. ASSUME NEW a \in Adders, MarkViewer(a) PROVE MadeOf(z)'
  <2> HIDE DEF TypeOK, MadeOf, ObjInv
  <2>1. \A b \in Adders : job'[b].pc \in {job[b].pc, None}
    BY <1>9, JobEnds, IdleIsJob DEF MarkViewer, Adders
  <2>2. z # None
    BY ScreenSFUAssumption DEF ScreenSFUAssumption
  <2>3. UNCHANGED <<conn, state, wired, iceReady, offered, doomed, callback,
     overwritten, viewers, deferred>>
    BY <1>9 DEF MarkViewer, roomVars, sfuVars, pcVars, closeVars, history
  <2>4. /\ offerSent' = offerSent \cup {job[a].pc}
        /\ \A u \in Threads : offering'[u] \in {offering[u], job[a].pc}
    BY <1>9 DEF MarkViewer, TypeOK
  <2> QED
    BY <1>a, <2>1, <2>2, <2>3, <2>4 DEF MadeOf
<1>10. ASSUME NEW t \in Threads, DescribeOfferFails(t) PROVE MadeOf(z)'
  <2> HIDE DEF TypeOK, MadeOf, ObjInv
  <2>0. conn[offering[t]] \in Viewers
    BY <1>10 DEF DescribeOfferFails, ObjInv, ThreadOf, MadeOf, TypeOK
  <2>1. /\ \A w \in Viewers : viewers'[w] \in {viewers[w], None}
        /\ doomed' \subseteq doomed \cup {viewers[w] : w \in Viewers}
    BY <1>10, <2>0, RemoveViewerFacts DEF DescribeOfferFails
  <2>2. z # None
    BY ScreenSFUAssumption DEF ScreenSFUAssumption
  <2>3. UNCHANGED <<conn, state, wired, offerSent, iceReady, offered, callback,
     overwritten, deferred, job>>
    BY <1>10 DEF DescribeOfferFails, sfuVars, pcVars, signalVars, offerVars,
       closeVars, history
  <2>4. \A u \in Threads : offering'[u] \in {offering[u], None}
    BY <1>10 DEF DescribeOfferFails, Finish, TypeOK
  <2> QED
    BY <1>a, <2>1, <2>2, <2>3, <2>4 DEF MadeOf
<1>11. ASSUME NEW t \in Threads, SendOffer(t) PROVE MadeOf(z)'
  BY <1>11, <1>a DEF SendOffer, sfuVars, pcVars, closeVars, history
<1>12. ASSUME NEW t \in Threads, FlushViewerICE(t) PROVE MadeOf(z)'
  <2> HIDE DEF TypeOK, MadeOf, ObjInv
  <2>1. /\ iceReady' = iceReady \cup {offering[t]}
        /\ \A u \in Threads : offering'[u] \in {offering[u], None}
    BY <1>12 DEF FlushViewerICE, Finish, TypeOK
  <2>2. z # None
    BY ScreenSFUAssumption DEF ScreenSFUAssumption
  <2>3. UNCHANGED <<conn, state, wired, offerSent, offered, doomed, callback,
     overwritten, viewers, deferred, job>>
    BY <1>12 DEF FlushViewerICE, sfuVars, pcVars, signalVars, offerVars,
       closeVars, history
  <2> QED
    BY <1>a, <2>1, <2>2, <2>3 DEF MadeOf
<1>13. ASSUME NEW k \in Tracks, OnPublisherTrack(k) PROVE MadeOf(z)'
  BY <1>13, <1>a DEF OnPublisherTrack, pcVars, closeVars, history
<1>14. ASSUME NEW k \in Tracks, NEW x \in Pcs, OfferDeferred(k, x)
      PROVE  MadeOf(z)'
  BY <1>14, <1>a DEF OfferDeferred, sfuVars, pcVars, signalVars, closeVars,
     history
<1>15. ASSUME NEW x \in Pcs, ViewerDisconnects(x) PROVE MadeOf(z)'
  BY <1>15, <1>a DEF ViewerDisconnects, MayFail, sfuVars, pcVars, signalVars,
     offerVars, history
<1>16. ASSUME NEW x \in Pcs, OnViewerStateChange(x) PROVE MadeOf(z)'
  <2> HIDE DEF TypeOK, MadeOf, ObjInv
  <2>0. conn[x] \in Viewers
    BY <1>16 DEF OnViewerStateChange, ObjInv, MadeOf
  <2>1. /\ \A w \in Viewers : viewers'[w] \in {viewers[w], None}
        /\ doomed' \subseteq doomed \cup {viewers[w] : w \in Viewers}
    BY <1>16, <2>0, RemoveViewerFacts DEF OnViewerStateChange
  <2>2. z # None
    BY ScreenSFUAssumption DEF ScreenSFUAssumption
  <2>3. UNCHANGED <<conn, state, wired, offerSent, iceReady, offered,
     overwritten, deferred, offering, job>>
    BY <1>16 DEF OnViewerStateChange, sfuVars, pcVars, signalVars, offerVars,
       closeVars, history
  <2>4. callback' \subseteq callback
    BY <1>16 DEF OnViewerStateChange
  <2> QED
    BY <1>a, <2>1, <2>2, <2>3, <2>4 DEF MadeOf
<1>17. ASSUME NEW x \in Pcs, ClosePc(x) PROVE MadeOf(z)'
  BY <1>17, <1>a DEF ClosePc, sfuVars, signalVars, offerVars, history
<1>18. CASE Close
  <2> HIDE DEF TypeOK, MadeOf, ObjInv
  <2>1. /\ \A w \in Viewers : viewers'[w] = None
        /\ doomed' \subseteq doomed \cup {viewers[w] : w \in Viewers}
    BY <1>18 DEF Close, Registered
  <2>2. z # None
    BY ScreenSFUAssumption DEF ScreenSFUAssumption
  <2>3. UNCHANGED <<conn, state, wired, offerSent, iceReady, offered, callback,
     overwritten, deferred, offering, job>>
    BY <1>18 DEF Close, pcVars, signalVars, offerVars, closeVars, history
  <2> QED
    BY <1>a, <2>1, <2>2, <2>3 DEF MadeOf
<1>19. ASSUME NEW v \in Viewers, RegisterScreenViewer(v) \/ ReadMode(v) \/
              RemoveScreenViewer(v)
      PROVE  UNCHANGED <<pcVars, closeVars, offerSent, iceReady, offered,
                         overwritten, viewers, job, deferred, offering>>
  BY <1>19 DEF RegisterScreenViewer, ReadMode, RemoveScreenViewer, sfuVars,
     signalVars, offerVars, history
<1>20. ASSUME Hello \/ EnsureScreenSFU \/ SetupAllSFUViewers \/ PublisherOffers
              \/ HandlePublisherOffer \/ HandlePublisherOfferFails
      PROVE  UNCHANGED <<pcVars, closeVars, offerSent, iceReady, offered,
                         overwritten, viewers, job, deferred, offering>>
  BY <1>20 DEF Hello, EnsureScreenSFU, SetupAllSFUViewers, PublisherOffers,
     HandlePublisherOffer, HandlePublisherOfferFails, sfuVars, signalVars,
     offerVars, history
<1>21. ASSUME SendAnswer \/ FlushPublisherICE \/ DropSFU \/ CollectSFU
      PROVE  UNCHANGED <<pcVars, closeVars, offerSent, iceReady, offered,
                         overwritten, viewers, job, deferred, offering>>
  BY <1>21 DEF SendAnswer, FlushPublisherICE, DropSFU, CollectSFU,
     sfuVars, signalVars,
     offerVars, history
<1>22. ASSUME NEW r \in Rounds, OnPublisherICECandidate(r)
      PROVE  UNCHANGED <<pcVars, closeVars, offerSent, iceReady, offered,
                         overwritten, viewers, job, deferred, offering>>
  BY <1>22 DEF OnPublisherICECandidate, sfuVars, signalVars, offerVars, history
<1>23. ASSUME NEW t \in Threads, DescribeOffer(t)
      PROVE  UNCHANGED <<pcVars, closeVars, offerSent, iceReady, offered,
                         overwritten, viewers, job, deferred, offering>>
  BY <1>23 DEF DescribeOffer, sfuVars, history
<1>24. ASSUME NEW x \in Pcs, OnViewerICECandidate(x)
      PROVE  UNCHANGED <<pcVars, closeVars, offerSent, iceReady, offered,
                         overwritten, viewers, job, deferred, offering>>
  BY <1>24 DEF OnViewerICECandidate, sfuVars, offerVars, history
<1>25. CASE UNCHANGED <<pcVars, closeVars, offerSent, iceReady, offered,
                        overwritten, viewers, job, deferred, offering>>
  BY <1>25, <1>a DEF pcVars, closeVars
<1> QED
  BY <1>1, <1>2, <1>3, <1>4, <1>5, <1>6, <1>7, <1>8, <1>9, <1>10, <1>11, <1>12,
     <1>13, <1>14, <1>15, <1>16, <1>17, <1>18, <1>19, <1>20, <1>21, <1>22,
     <1>23, <1>24, <1>25 DEF vars, Next, HandleScreenViewer,
     HandleScreenPublisher, AddViewer, SendOfferToViewer, Pion, sfuVars,
     signalVars, offerVars, history

\* A pc is in the map at its connection.
LEMMA MapStep ==
  TypeOK /\ TypeOK' /\ ObjInv /\ [Next]_vars => (\A w \in Viewers : MapOf(w))'
<1> SUFFICES ASSUME TypeOK, TypeOK', ObjInv, [Next]_vars
             PROVE  (\A w \in Viewers : MapOf(w))'
  OBVIOUS
<1> SUFFICES ASSUME NEW w \in Viewers PROVE MapOf(w)'
  OBVIOUS
<1>a. MapOf(w)
  BY DEF ObjInv
<1> USE DEF TypeOK, MapOf
<1>1. ASSUME NEW v \in Viewers, LeaveSFU(v) PROVE MapOf(w)'
  BY <1>1, <1>a DEF LeaveSFU, RemoveViewer, pcVars
<1>2. ASSUME NEW a \in Adders, NEW x \in Pcs, AddViewerInsert(a, x)
      PROVE  MapOf(w)'
  <2> HIDE DEF TypeOK
  <2>1. /\ job[a].viewer \in Viewers /\ state[x] = "nil"
        /\ conn' = [conn EXCEPT ![x] = job[a].viewer]
        /\ viewers' = [viewers EXCEPT ![job[a].viewer] = x]
    BY <1>2, InsertFacts
  <2>2. viewers[w] # x
    BY <2>1 DEF ObjInv, MadeOf
  <2> QED
    BY <1>a, <2>1, <2>2 DEF TypeOK
<1>3. ASSUME NEW t \in Threads, DescribeOfferFails(t) PROVE MapOf(w)'
  BY <1>3, <1>a DEF DescribeOfferFails, RemoveViewer, Finish, Fails, MayFail,
     pcVars
<1>4. ASSUME NEW x \in Pcs, OnViewerStateChange(x) PROVE MapOf(w)'
  BY <1>4, <1>a DEF OnViewerStateChange, RemoveViewer, pcVars
<1>5. CASE Close
  BY <1>5, <1>a DEF Close, pcVars
<1>6. ASSUME NEW v \in Viewers, RegisterScreenViewer(v) \/ ReadMode(v) \/
              AddSFUViewer(v) \/ RemoveScreenViewer(v) \/ SetupNext(v)
      PROVE  UNCHANGED <<viewers, conn>>
  BY <1>6 DEF RegisterScreenViewer, ReadMode, AddSFUViewer, RemoveScreenViewer,
     SetupNext, sfuVars, pcVars
<1>7. ASSUME Hello \/ EnsureScreenSFU \/ SetupAllSFUViewers \/ PublisherOffers
              \/ HandlePublisherOffer \/ HandlePublisherOfferFails
      PROVE  UNCHANGED <<viewers, conn>>
  BY <1>7 DEF Hello, EnsureScreenSFU, SetupAllSFUViewers, PublisherOffers,
     HandlePublisherOffer, HandlePublisherOfferFails, sfuVars, pcVars
<1>8. ASSUME SendAnswer \/ FlushPublisherICE \/ DropSFU \/ CollectSFU
      PROVE  UNCHANGED <<viewers, conn>>
  BY <1>8 DEF SendAnswer, FlushPublisherICE, DropSFU, CollectSFU, sfuVars, pcVars
<1>9. ASSUME NEW r \in Rounds, OnPublisherICECandidate(r)
      PROVE  UNCHANGED <<viewers, conn>>
  BY <1>9 DEF OnPublisherICECandidate, sfuVars, pcVars
<1>10. ASSUME NEW a \in Adders, AddViewerCheck(a) \/ AddViewerFails(a) \/
              AddViewerClosed(a) \/ WireViewer(a) \/ MarkViewer(a)
      PROVE  UNCHANGED <<viewers, conn>>
  BY <1>10 DEF AddViewerCheck, AddViewerFails, AddViewerClosed, WireViewer,
     MarkViewer, sfuVars, pcVars
<1>11. ASSUME NEW t \in Threads, DescribeOffer(t) \/ SendOffer(t) \/
              FlushViewerICE(t)
      PROVE  UNCHANGED <<viewers, conn>>
  BY <1>11 DEF DescribeOffer, SendOffer, FlushViewerICE, sfuVars, pcVars
<1>12. ASSUME NEW k \in Tracks, OnPublisherTrack(k)
      PROVE  UNCHANGED <<viewers, conn>>
  BY <1>12 DEF OnPublisherTrack, pcVars
<1>13. ASSUME NEW k \in Tracks, NEW x \in Pcs, OfferDeferred(k, x)
      PROVE  UNCHANGED <<viewers, conn>>
  BY <1>13 DEF OfferDeferred, sfuVars, pcVars
<1>14. ASSUME NEW x \in Pcs, OnViewerICECandidate(x) \/ ViewerDisconnects(x) \/
              ClosePc(x)
      PROVE  UNCHANGED <<viewers, conn>>
  BY <1>14 DEF OnViewerICECandidate, ViewerDisconnects, ClosePc, sfuVars,
     pcVars
<1>15. CASE UNCHANGED <<viewers, conn>>
  BY <1>15, <1>a
<1> QED
  BY <1>1, <1>2, <1>3, <1>4, <1>5, <1>6, <1>7, <1>8, <1>9, <1>10, <1>11, <1>12,
     <1>13, <1>14, <1>15 DEF vars, Next, HandleScreenViewer,
     HandleScreenPublisher, AddViewer, SendOfferToViewer, Pion, sfuVars, pcVars

\* AddViewer goes one step after the other.
LEMMA JobStep ==
  TypeOK /\ TypeOK' /\ ObjInv /\ [Next]_vars => (\A b \in Adders : JobOf(b))'
<1> SUFFICES ASSUME TypeOK, TypeOK', ObjInv, [Next]_vars
             PROVE  (\A b \in Adders : JobOf(b))'
  OBVIOUS
<1> SUFFICES ASSUME NEW b \in Adders PROVE JobOf(b)'
  OBVIOUS
<1>a. JobOf(b)
  BY DEF ObjInv
<1> USE ScreenSFUAssumption DEF ScreenSFUAssumption, TypeOK, JobOf, ObjInv,
   Adders, Threads, Tracks, JobIs, OthersStay
<1>1. ASSUME NEW v \in Viewers, AddSFUViewer(v) PROVE JobOf(b)'
  <2> HIDE DEF TypeOK, JobOf, ObjInv, JobIs, OthersStay
  <2>0. UNCHANGED <<offering, localTrack>> /\ localTrack \in Nat
    BY <1>1 DEF AddSFUViewer, TypeOK, sfuVars, offerVars
  <2>1. offering[v] = None
    BY <1>1 DEF AddSFUViewer, ObjInv, HandlerOf, Free
  <2>2. JobIs(v, "check", v, None, 0) \/ job' = job
    BY <1>1, JobBegins DEF AddSFUViewer
  <2>3. CASE job' = job
    BY <1>a, <2>0, <2>3 DEF JobOf
  <2>4. CASE JobIs(v, "check", v, None, 0) /\ b = v
    BY <2>0, <2>1, <2>4 DEF JobOf, JobIs
  <2>5. CASE JobIs(v, "check", v, None, 0) /\ b # v
    BY <1>a, <2>0, <2>5 DEF JobOf, JobIs, OthersStay
  <2> QED
    BY <2>2, <2>3, <2>4, <2>5
<1>2. ASSUME NEW v \in Viewers, SetupNext(v) PROVE JobOf(b)'
  <2> HIDE DEF TypeOK, JobOf, ObjInv, JobIs, OthersStay
  <2>0. UNCHANGED <<offering, localTrack>> /\ localTrack \in Nat
    BY <1>2 DEF SetupNext, TypeOK, sfuVars, offerVars
  <2>1. offering[Publisher] = None
    BY <1>2 DEF SetupNext, Free
  <2>2. JobIs(Publisher, "check", v, None, 0) \/ job' = job
    BY <1>2, JobBegins DEF SetupNext
  <2>3. CASE job' = job
    BY <1>a, <2>0, <2>3 DEF JobOf
  <2>4. CASE JobIs(Publisher, "check", v, None, 0) /\ b = Publisher
    BY <2>0, <2>1, <2>4 DEF JobOf, JobIs
  <2>5. CASE JobIs(Publisher, "check", v, None, 0) /\ b # Publisher
    BY <1>a, <2>0, <2>5 DEF JobOf, JobIs, OthersStay
  <2> QED
    BY <2>2, <2>3, <2>4, <2>5
<1>3. ASSUME NEW a \in Adders, AddViewerCheck(a) PROVE JobOf(b)'
  <2> HIDE DEF TypeOK, JobOf, ObjInv, JobIs, OthersStay
  <2>0. UNCHANGED <<offering, localTrack>> /\ localTrack \in Nat
    BY <1>3 DEF AddViewerCheck, TypeOK, sfuVars, offerVars
  <2>1. \/ OthersStay(a) /\ job'[a] = Idle
        \/ JobIs(a, "create", job[a].viewer, job[a].pc, job[a].track)
    BY <1>3, JobEnds, JobGoesOn DEF AddViewerCheck
  <2>2. CASE b # a
    BY <1>a, <2>0, <2>1, <2>2 DEF JobOf, JobIs, OthersStay
  <2>3. CASE b = a /\ job'[a] = Idle
    BY <2>0, <2>3, IdleIsJob DEF JobOf
  <2>4. CASE b = a /\ job'[a] # Idle
    BY <1>3, <1>a, <2>0, <2>1, <2>4 DEF AddViewerCheck, JobOf, JobIs
  <2> QED
    BY <2>2, <2>3, <2>4
<1>4. ASSUME NEW a \in Adders, AddViewerFails(a) PROVE JobOf(b)'
  <2> HIDE DEF TypeOK, JobOf, ObjInv, JobIs, OthersStay
  <2>0. localTrack \in Nat
    BY DEF TypeOK
  <2>1. CASE b # a
    <3>1. UNCHANGED <<job[b], offering[b], localTrack>>
      BY <1>4, <2>1, JobEnds, IdleIsJob, <2>0 DEF AddViewerFails, OthersStay,
         JobIs, sfuVars, offerVars
    <3> QED
      BY <1>a, <3>1 DEF JobOf
  <2>2. CASE b = a
    <3>1. job'[a] = Idle /\ Idle.track = 0 /\ localTrack' \in Nat
          /\ Idle.at = "idle"
      BY <1>4, JobEnds, IdleIsJob, <2>0 DEF AddViewerFails, sfuVars, offerVars
    <3> QED
      BY <1>a, <2>2, <3>1 DEF JobOf, JobIs
  <2> QED
    BY <2>1, <2>2
<1>5. ASSUME NEW a \in Adders, AddViewerClosed(a) PROVE JobOf(b)'
  <2> HIDE DEF TypeOK, JobOf, ObjInv, JobIs, OthersStay
  <2>0. localTrack \in Nat
    BY DEF TypeOK
  <2>1. CASE b # a
    <3>1. UNCHANGED <<job[b], offering[b], localTrack>>
      BY <1>5, <2>1, JobEnds, IdleIsJob, <2>0 DEF AddViewerClosed, OthersStay,
         JobIs, sfuVars, offerVars
    <3> QED
      BY <1>a, <3>1 DEF JobOf
  <2>2. CASE b = a
    <3>1. job'[a] = Idle /\ Idle.track = 0 /\ localTrack' \in Nat
          /\ Idle.at = "idle"
      BY <1>5, JobEnds, IdleIsJob, <2>0 DEF AddViewerClosed, sfuVars, offerVars
    <3> QED
      BY <1>a, <2>2, <3>1 DEF JobOf, JobIs
  <2> QED
    BY <2>1, <2>2
<1>6. ASSUME NEW a \in Adders, NEW x \in Pcs, AddViewerInsert(a, x)
      PROVE  JobOf(b)'
  BY <1>6, <1>a DEF AddViewerInsert, Insert, offerVars
<1>7. ASSUME NEW a \in Adders, WireViewer(a) PROVE JobOf(b)'
  <2> HIDE DEF TypeOK, JobOf, ObjInv, JobIs, OthersStay
  <2>0. UNCHANGED <<offering, localTrack>> /\ localTrack \in Nat
    BY <1>7 DEF WireViewer, TypeOK, sfuVars, offerVars
  <2>1. \/ OthersStay(a) /\ job'[a] = Idle
        \/ /\ JobIs(a, "mark", job[a].viewer, job[a].pc, job[a].track)
           /\ job[a].track # 0
    BY <1>7, JobEnds, JobGoesOn DEF WireViewer
  <2>2. CASE b # a
    BY <1>a, <2>0, <2>1, <2>2 DEF JobOf, JobIs, OthersStay
  <2>3. CASE b = a /\ job'[a] = Idle
    BY <2>0, <2>3, IdleIsJob DEF JobOf
  <2>4. CASE b = a /\ job'[a] # Idle
    BY <1>7, <1>a, <2>0, <2>1, <2>4 DEF WireViewer, JobOf, JobIs
  <2> QED
    BY <2>2, <2>3, <2>4
<1>8. ASSUME NEW a \in Adders, MarkViewer(a) PROVE JobOf(b)'
  <2> HIDE DEF TypeOK, JobOf, ObjInv, JobIs, OthersStay
  <2>0. localTrack' \in Nat /\ localTrack' = localTrack
    BY <1>8 DEF MarkViewer, TypeOK, sfuVars
  <2>1. OthersStay(a) /\ job'[a] = Idle
    BY <1>8, JobEnds DEF MarkViewer
  <2>2. CASE b # a
    <3>1. UNCHANGED <<job[b], offering[b]>>
      BY <1>8, <2>1, <2>2 DEF MarkViewer, OthersStay, TypeOK
    <3> QED
      BY <1>a, <2>0, <3>1 DEF JobOf
  <2>3. CASE b = a
    BY <2>0, <2>1, <2>3, IdleIsJob DEF JobOf
  <2> QED
    BY <2>2, <2>3
<1>9. ASSUME NEW t \in Threads, DescribeOfferFails(t) PROVE JobOf(b)'
  BY <1>9, <1>a DEF DescribeOfferFails, RemoveViewer, Finish, Fails, MayFail
<1>10. ASSUME NEW t \in Threads, FlushViewerICE(t) PROVE JobOf(b)'
  BY <1>10, <1>a DEF FlushViewerICE, Finish, sfuVars
<1>11. ASSUME NEW k \in Tracks, OnPublisherTrack(k) PROVE JobOf(b)'
  <2> HIDE DEF TypeOK, ObjInv, JobOf
  <2>1. localTrack' = localTrack + 1 /\ UNCHANGED <<job, offering>>
    BY <1>11 DEF OnPublisherTrack
  <2>2. localTrack \in Nat
    BY DEF TypeOK
  <2>3. job[b].track \in Nat
    <3> HIDE DEF Adders, Threads, Tracks
    <3> QED
      BY JobTyped
  <2> QED
    BY <1>a, <2>1, <2>2, <2>3 DEF JobOf
<1>12. ASSUME NEW k \in Tracks, NEW x \in Pcs, OfferDeferred(k, x)
      PROVE  JobOf(b)'
  BY <1>12, <1>a DEF OfferDeferred, sfuVars
<1>13. ASSUME NEW v \in Viewers, RegisterScreenViewer(v) \/ ReadMode(v) \/
              RemoveScreenViewer(v) \/ LeaveSFU(v)
      PROVE  UNCHANGED <<job, offering, localTrack>>
  BY <1>13 DEF RegisterScreenViewer, ReadMode, RemoveScreenViewer, LeaveSFU,
     sfuVars, offerVars
<1>14. ASSUME Hello \/ EnsureScreenSFU \/ SetupAllSFUViewers \/ PublisherOffers
              \/ HandlePublisherOffer \/ HandlePublisherOfferFails
      PROVE  UNCHANGED <<job, offering, localTrack>>
  BY <1>14 DEF Hello, EnsureScreenSFU, SetupAllSFUViewers, PublisherOffers,
     HandlePublisherOffer, HandlePublisherOfferFails, sfuVars, offerVars
<1>15. ASSUME SendAnswer \/ FlushPublisherICE \/ DropSFU \/ CollectSFU \/ Close
      PROVE  UNCHANGED <<job, offering, localTrack>>
  BY <1>15 DEF SendAnswer, FlushPublisherICE, DropSFU, CollectSFU, Close, sfuVars,
     offerVars
<1>16. ASSUME NEW r \in Rounds, OnPublisherICECandidate(r)
      PROVE  UNCHANGED <<job, offering, localTrack>>
  BY <1>16 DEF OnPublisherICECandidate, sfuVars, offerVars
<1>17. ASSUME NEW t \in Threads, DescribeOffer(t) \/ SendOffer(t)
      PROVE  UNCHANGED <<job, offering, localTrack>>
  BY <1>17 DEF DescribeOffer, SendOffer, sfuVars
<1>18. ASSUME NEW x \in Pcs, OnViewerICECandidate(x) \/ ViewerDisconnects(x) \/
              OnViewerStateChange(x) \/ ClosePc(x)
      PROVE  UNCHANGED <<job, offering, localTrack>>
  BY <1>18 DEF OnViewerICECandidate, ViewerDisconnects, OnViewerStateChange,
     ClosePc, sfuVars, offerVars
<1>19. CASE UNCHANGED <<job, offering, localTrack>>
  BY <1>19, <1>a
<1> QED
  BY <1>1, <1>2, <1>3, <1>4, <1>5, <1>6, <1>7, <1>8, <1>9, <1>10, <1>11, <1>12,
     <1>13, <1>14, <1>15, <1>16, <1>17, <1>18, <1>19 DEF vars, Next,
     HandleScreenViewer, HandleScreenPublisher, AddViewer, SendOfferToViewer,
     Pion, sfuVars, offerVars

\* So does sendOfferToViewer.
LEMMA ThreadStep ==
  TypeOK /\ TypeOK' /\ ObjInv /\ [Next]_vars =>
    (\A u \in Threads : ThreadOf(u))'
<1> SUFFICES ASSUME TypeOK, TypeOK', ObjInv, [Next]_vars
             PROVE  (\A u \in Threads : ThreadOf(u))'
  OBVIOUS
<1> SUFFICES ASSUME NEW u \in Threads PROVE ThreadOf(u)'
  OBVIOUS
<1>a. ThreadOf(u)
  BY DEF ObjInv
<1> USE ScreenSFUAssumption DEF ScreenSFUAssumption, TypeOK, ThreadOf, ObjInv,
   JobOf, Adders, Threads
<1>1. ASSUME NEW a \in Adders, MarkViewer(a) PROVE ThreadOf(u)'
  BY <1>1, <1>a DEF MarkViewer
<1>2. ASSUME NEW t \in Threads, DescribeOffer(t) PROVE ThreadOf(u)'
  BY <1>2, <1>a DEF DescribeOffer
<1>3. ASSUME NEW t \in Threads, DescribeOfferFails(t) PROVE ThreadOf(u)'
  BY <1>3, <1>a DEF DescribeOfferFails, RemoveViewer, Finish, Fails, MayFail,
     signalVars
<1>4. ASSUME NEW t \in Threads, SendOffer(t) PROVE ThreadOf(u)'
  BY <1>4, <1>a DEF SendOffer
<1>5. ASSUME NEW t \in Threads, FlushViewerICE(t) PROVE ThreadOf(u)'
  BY <1>5, <1>a DEF FlushViewerICE, Finish
<1>6. ASSUME NEW k \in Tracks, NEW x \in Pcs, OfferDeferred(k, x)
      PROVE  ThreadOf(u)'
  BY <1>6, <1>a DEF OfferDeferred, signalVars
<1>7. ASSUME NEW v \in Viewers, RegisterScreenViewer(v) \/ ReadMode(v) \/
              AddSFUViewer(v) \/ RemoveScreenViewer(v) \/ LeaveSFU(v) \/
              SetupNext(v)
      PROVE  UNCHANGED <<offering, progress, offered>>
  BY <1>7 DEF RegisterScreenViewer, ReadMode, AddSFUViewer, RemoveScreenViewer,
     LeaveSFU, SetupNext, signalVars, offerVars
<1>8. ASSUME Hello \/ EnsureScreenSFU \/ SetupAllSFUViewers \/ PublisherOffers
              \/ HandlePublisherOffer \/ HandlePublisherOfferFails
      PROVE  UNCHANGED <<offering, progress, offered>>
  BY <1>8 DEF Hello, EnsureScreenSFU, SetupAllSFUViewers, PublisherOffers,
     HandlePublisherOffer, HandlePublisherOfferFails, signalVars, offerVars
<1>9. ASSUME SendAnswer \/ FlushPublisherICE \/ DropSFU \/ CollectSFU \/ Close
      PROVE  UNCHANGED <<offering, progress, offered>>
  BY <1>9 DEF SendAnswer, FlushPublisherICE, DropSFU, CollectSFU, Close,
     signalVars,
     offerVars
<1>10. ASSUME NEW r \in Rounds, OnPublisherICECandidate(r)
      PROVE  UNCHANGED <<offering, progress, offered>>
  BY <1>10 DEF OnPublisherICECandidate, signalVars, offerVars
<1>11. ASSUME NEW a \in Adders, AddViewerCheck(a) \/ AddViewerFails(a) \/
              AddViewerClosed(a) \/ WireViewer(a)
      PROVE  UNCHANGED <<offering, progress, offered>>
  BY <1>11 DEF AddViewerCheck, AddViewerFails, AddViewerClosed, WireViewer,
     signalVars, offerVars
<1>12. ASSUME NEW a \in Adders, NEW x \in Pcs, AddViewerInsert(a, x)
      PROVE  UNCHANGED <<offering, progress, offered>>
  BY <1>12 DEF AddViewerInsert, Insert, signalVars, offerVars
<1>13. ASSUME NEW k \in Tracks, OnPublisherTrack(k)
      PROVE  UNCHANGED <<offering, progress, offered>>
  BY <1>13 DEF OnPublisherTrack
<1>14. ASSUME NEW x \in Pcs, OnViewerICECandidate(x) \/ ViewerDisconnects(x) \/
              OnViewerStateChange(x) \/ ClosePc(x)
      PROVE  UNCHANGED <<offering, progress, offered>>
  BY <1>14 DEF OnViewerICECandidate, ViewerDisconnects, OnViewerStateChange,
     ClosePc, signalVars, offerVars
<1>15. CASE UNCHANGED <<offering, progress, offered>>
  BY <1>15, <1>a
<1> QED
  BY <1>1, <1>2, <1>3, <1>4, <1>5, <1>6, <1>7, <1>8, <1>9, <1>10, <1>11, <1>12,
     <1>13, <1>14, <1>15 DEF vars, Next, HandleScreenViewer,
     HandleScreenPublisher, AddViewer, SendOfferToViewer, Pion, signalVars,
     offerVars

\* Callbacks come with their track.
LEMMA TrackStep ==
  TypeOK /\ TypeOK' /\ ObjInv /\ [Next]_vars => (\A l \in Tracks : TrackOf(l))'
<1> SUFFICES ASSUME TypeOK, TypeOK', ObjInv, [Next]_vars
             PROVE  (\A l \in Tracks : TrackOf(l))'
  OBVIOUS
<1> SUFFICES ASSUME NEW l \in Tracks PROVE TrackOf(l)'
  OBVIOUS
<1>a. TrackOf(l)
  BY DEF ObjInv
<1> USE ScreenSFUAssumption DEF ScreenSFUAssumption, TypeOK, TrackOf, Adders,
   Threads, Tracks
<1>1. ASSUME NEW a \in Adders, MarkViewer(a) PROVE TrackOf(l)'
  BY <1>1, <1>a DEF MarkViewer, sfuVars
<1>2. ASSUME NEW t \in Threads, DescribeOfferFails(t) PROVE TrackOf(l)'
  BY <1>2, <1>a DEF DescribeOfferFails, RemoveViewer, Finish, Fails, MayFail
<1>3. ASSUME NEW t \in Threads, FlushViewerICE(t) PROVE TrackOf(l)'
  BY <1>3, <1>a DEF FlushViewerICE, Finish, sfuVars
<1>4. ASSUME NEW k \in Tracks, OnPublisherTrack(k) PROVE TrackOf(l)'
  BY <1>4, <1>a DEF OnPublisherTrack
<1>5. ASSUME NEW k \in Tracks, NEW x \in Pcs, OfferDeferred(k, x)
      PROVE  TrackOf(l)'
  BY <1>5, <1>a DEF OfferDeferred, sfuVars
<1>6. ASSUME NEW v \in Viewers, RegisterScreenViewer(v) \/ ReadMode(v) \/
              AddSFUViewer(v) \/ RemoveScreenViewer(v) \/ LeaveSFU(v) \/
              SetupNext(v)
      PROVE  UNCHANGED <<localTrack, deferred, offering>>
  BY <1>6 DEF RegisterScreenViewer, ReadMode, AddSFUViewer, RemoveScreenViewer,
     LeaveSFU, SetupNext, sfuVars, offerVars
<1>7. ASSUME Hello \/ EnsureScreenSFU \/ SetupAllSFUViewers \/ PublisherOffers
              \/ HandlePublisherOffer \/ HandlePublisherOfferFails
      PROVE  UNCHANGED <<localTrack, deferred, offering>>
  BY <1>7 DEF Hello, EnsureScreenSFU, SetupAllSFUViewers, PublisherOffers,
     HandlePublisherOffer, HandlePublisherOfferFails, sfuVars, offerVars
<1>8. ASSUME SendAnswer \/ FlushPublisherICE \/ DropSFU \/ CollectSFU \/ Close
      PROVE  UNCHANGED <<localTrack, deferred, offering>>
  BY <1>8 DEF SendAnswer, FlushPublisherICE, DropSFU, CollectSFU, Close,
     sfuVars, offerVars
<1>9. ASSUME NEW r \in Rounds, OnPublisherICECandidate(r)
      PROVE  UNCHANGED <<localTrack, deferred, offering>>
  BY <1>9 DEF OnPublisherICECandidate, sfuVars, offerVars
<1>10. ASSUME NEW a \in Adders, AddViewerCheck(a) \/ AddViewerFails(a) \/
              AddViewerClosed(a) \/ WireViewer(a)
      PROVE  UNCHANGED <<localTrack, deferred, offering>>
  BY <1>10 DEF AddViewerCheck, AddViewerFails, AddViewerClosed, WireViewer,
     sfuVars, offerVars
<1>11. ASSUME NEW a \in Adders, NEW x \in Pcs, AddViewerInsert(a, x)
      PROVE  UNCHANGED <<localTrack, deferred, offering>>
  BY <1>11 DEF AddViewerInsert, Insert, offerVars
<1>12. ASSUME NEW t \in Threads, DescribeOffer(t) \/ SendOffer(t)
      PROVE  UNCHANGED <<localTrack, deferred, offering>>
  BY <1>12 DEF DescribeOffer, SendOffer, sfuVars
<1>13. ASSUME NEW x \in Pcs, OnViewerICECandidate(x) \/ ViewerDisconnects(x) \/
              OnViewerStateChange(x) \/ ClosePc(x)
      PROVE  UNCHANGED <<localTrack, deferred, offering>>
  BY <1>13 DEF OnViewerICECandidate, ViewerDisconnects, OnViewerStateChange,
     ClosePc, sfuVars, offerVars
<1>14. CASE UNCHANGED <<localTrack, deferred, offering>>
  BY <1>14, <1>a
<1> QED
  BY <1>1, <1>2, <1>3, <1>4, <1>5, <1>6, <1>7, <1>8, <1>9, <1>10, <1>11, <1>12,
     <1>13, <1>14 DEF vars, Next, HandleScreenViewer, HandleScreenPublisher,
     AddViewer, SendOfferToViewer, Pion, sfuVars, offerVars

\* A read loop is busy with one thing at a time.
LEMMA HandlerStep ==
  TypeOK /\ TypeOK' /\ ObjInv /\ [Next]_vars =>
    (\A w \in Viewers : HandlerOf(w))'
<1> SUFFICES ASSUME TypeOK, TypeOK', ObjInv, [Next]_vars
             PROVE  (\A w \in Viewers : HandlerOf(w))'
  OBVIOUS
<1> SUFFICES ASSUME NEW w \in Viewers PROVE HandlerOf(w)'
  OBVIOUS
<1>a. HandlerOf(w)
  BY DEF ObjInv
<1> USE ScreenSFUAssumption DEF ScreenSFUAssumption, TypeOK, HandlerOf, ObjInv,
   ThreadOf, Free, Idle, Adders, Threads, Tracks, JobIs, OthersStay
<1>1. ASSUME NEW v \in Viewers, RegisterScreenViewer(v) PROVE HandlerOf(w)'
  BY <1>1, <1>a DEF RegisterScreenViewer, offerVars
<1>2. ASSUME NEW v \in Viewers, ReadMode(v) PROVE HandlerOf(w)'
  BY <1>2, <1>a DEF ReadMode, roomVars, offerVars
<1>3. ASSUME NEW v \in Viewers, AddSFUViewer(v) PROVE HandlerOf(w)'
  BY <1>3, <1>a DEF AddSFUViewer, roomVars, offerVars
<1>4. ASSUME NEW v \in Viewers, RemoveScreenViewer(v) PROVE HandlerOf(w)'
  BY <1>4, <1>a DEF RemoveScreenViewer, offerVars
<1>5. ASSUME NEW v \in Viewers, LeaveSFU(v) PROVE HandlerOf(w)'
  BY <1>5, <1>a DEF LeaveSFU, RemoveViewer, roomVars, offerVars
<1>6. ASSUME NEW v \in Viewers, SetupNext(v) PROVE HandlerOf(w)'
  BY <1>6, <1>a DEF SetupNext, roomVars, offerVars
<1>7. ASSUME NEW a \in Adders, AddViewerCheck(a) PROVE HandlerOf(w)'
  BY <1>7, <1>a DEF AddViewerCheck, roomVars, offerVars
<1>8. ASSUME NEW a \in Adders, AddViewerFails(a) PROVE HandlerOf(w)'
  BY <1>8, <1>a DEF AddViewerFails, MayFail, roomVars, offerVars
<1>9. ASSUME NEW a \in Adders, AddViewerClosed(a) PROVE HandlerOf(w)'
  BY <1>9, <1>a DEF AddViewerClosed, roomVars, offerVars
<1>10. ASSUME NEW a \in Adders, NEW x \in Pcs, AddViewerInsert(a, x)
      PROVE  HandlerOf(w)'
  BY <1>10, <1>a DEF AddViewerInsert, Insert, roomVars, offerVars
<1>11. ASSUME NEW a \in Adders, WireViewer(a) PROVE HandlerOf(w)'
  BY <1>11, <1>a DEF WireViewer, roomVars, offerVars
<1>12. ASSUME NEW a \in Adders, MarkViewer(a) PROVE HandlerOf(w)'
  BY <1>12, <1>a DEF MarkViewer, roomVars
<1>13. ASSUME NEW t \in Threads, DescribeOfferFails(t) PROVE HandlerOf(w)'
  BY <1>13, <1>a DEF DescribeOfferFails, RemoveViewer, Finish, Fails, MayFail,
     roomVars
<1>14. ASSUME NEW t \in Threads, FlushViewerICE(t) PROVE HandlerOf(w)'
  BY <1>14, <1>a DEF FlushViewerICE, Finish, roomVars
<1>15. ASSUME NEW k \in Tracks, NEW x \in Pcs, OfferDeferred(k, x)
      PROVE  HandlerOf(w)'
  <2>1. /\ UNCHANGED <<watching, handler, job>>
        /\ \A b \in Adders : offering'[b] = offering[b]
    BY <1>15 DEF OfferDeferred, roomVars
  <2> QED
    BY <1>a, <2>1
<1>16. CASE DropSFU \/ CollectSFU
  BY <1>16, <1>a DEF DropSFU, CollectSFU, offerVars
<1>17. ASSUME Hello \/ EnsureScreenSFU \/ SetupAllSFUViewers \/ PublisherOffers
              \/ HandlePublisherOffer \/ HandlePublisherOfferFails
      PROVE  UNCHANGED <<watching, handler, job, offering>>
  BY <1>17 DEF Hello, EnsureScreenSFU, SetupAllSFUViewers, PublisherOffers,
     HandlePublisherOffer, HandlePublisherOfferFails, roomVars, offerVars
<1>18. ASSUME SendAnswer \/ FlushPublisherICE \/ Close
      PROVE  UNCHANGED <<watching, handler, job, offering>>
  BY <1>18 DEF SendAnswer, FlushPublisherICE, Close, roomVars, offerVars
<1>19. ASSUME NEW r \in Rounds, OnPublisherICECandidate(r)
      PROVE  UNCHANGED <<watching, handler, job, offering>>
  BY <1>19 DEF OnPublisherICECandidate, roomVars, offerVars
<1>20. ASSUME NEW t \in Threads, DescribeOffer(t) \/ SendOffer(t)
      PROVE  UNCHANGED <<watching, handler, job, offering>>
  BY <1>20 DEF DescribeOffer, SendOffer, roomVars
<1>21. ASSUME NEW k \in Tracks, OnPublisherTrack(k)
      PROVE  UNCHANGED <<watching, handler, job, offering>>
  BY <1>21 DEF OnPublisherTrack, roomVars
<1>22. ASSUME NEW x \in Pcs, OnViewerICECandidate(x) \/ ViewerDisconnects(x) \/
              OnViewerStateChange(x) \/ ClosePc(x)
      PROVE  UNCHANGED <<watching, handler, job, offering>>
  BY <1>22 DEF OnViewerICECandidate, ViewerDisconnects, OnViewerStateChange,
     ClosePc, roomVars, offerVars
<1>23. CASE UNCHANGED <<watching, handler, job, offering>>
  BY <1>23, <1>a
<1> QED
  BY <1>1, <1>2, <1>3, <1>4, <1>5, <1>6, <1>7, <1>8, <1>9, <1>10, <1>11, <1>12,
     <1>13, <1>14, <1>15, <1>16, <1>17, <1>18, <1>19, <1>20, <1>21, <1>22,
     <1>23 DEF vars, Next, HandleScreenViewer, HandleScreenPublisher,
     AddViewer, SendOfferToViewer, Pion, roomVars, offerVars

\* The publisher's read loop is busy with one thing at a time.
LEMMA BusyStep ==
  TypeOK /\ TypeOK' /\ ObjInv /\ [Next]_vars =>
    (pub # "reading" => batch = {} /\ Free(Publisher))'
<1> SUFFICES ASSUME TypeOK, TypeOK', ObjInv, [Next]_vars
             PROVE  (pub # "reading" => batch = {} /\ Free(Publisher))'
  OBVIOUS
<1>a. (pub # "reading" => batch = {} /\ Free(Publisher))
  BY DEF ObjInv
<1> USE ScreenSFUAssumption DEF ScreenSFUAssumption, TypeOK, ObjInv, Free,
   Adders, Threads, Tracks, JobIs, OthersStay
<1>1. ASSUME NEW v \in Viewers, AddSFUViewer(v)
      PROVE  (pub # "reading" => batch = {} /\ Free(Publisher))'
  BY <1>1, <1>a DEF AddSFUViewer, offerVars, pubVars
<1>2. CASE Hello
  BY <1>2, <1>a DEF Hello, PublisherFree, offerVars
<1>3. CASE EnsureScreenSFU
  BY <1>3, <1>a DEF EnsureScreenSFU, MayFail, offerVars
<1>4. CASE SetupAllSFUViewers
  BY <1>4, <1>a DEF SetupAllSFUViewers, offerVars
<1>5. ASSUME NEW v \in Viewers, SetupNext(v)
      PROVE  (pub # "reading" => batch = {} /\ Free(Publisher))'
  BY <1>5, <1>a DEF SetupNext, offerVars
<1>6. CASE PublisherOffers
  BY <1>6, <1>a DEF PublisherOffers, PublisherFree, offerVars
<1>7. CASE HandlePublisherOffer
  BY <1>7, <1>a DEF HandlePublisherOffer, offerVars
<1>8. CASE HandlePublisherOfferFails
  BY <1>8, <1>a DEF HandlePublisherOfferFails, MayFail, offerVars
<1>9. CASE SendAnswer
  BY <1>9, <1>a DEF SendAnswer, offerVars
<1>10. CASE FlushPublisherICE
  BY <1>10, <1>a DEF FlushPublisherICE, offerVars
<1>11. ASSUME NEW a \in Adders, AddViewerCheck(a)
      PROVE  (pub # "reading" => batch = {} /\ Free(Publisher))'
  <2> HIDE DEF TypeOK, ObjInv, JobIs, OthersStay
  <2>1. OthersStay(a) /\ job[a] # Idle
    BY <1>11, JobEnds, JobGoesOn, IdleIsJob DEF AddViewerCheck, JobIs
  <2>2. /\ UNCHANGED <<pub, batch>>
        /\ \A b \in Adders \ {a} : offering'[b] = offering[b]
    BY <1>11 DEF AddViewerCheck, offerVars, pubVars, TypeOK
  <2> QED
    BY <1>a, <2>1, <2>2 DEF OthersStay
<1>12. ASSUME NEW a \in Adders, AddViewerFails(a)
      PROVE  (pub # "reading" => batch = {} /\ Free(Publisher))'
  BY <1>12, <1>a DEF AddViewerFails, MayFail, offerVars, pubVars
<1>13. ASSUME NEW a \in Adders, AddViewerClosed(a)
      PROVE  (pub # "reading" => batch = {} /\ Free(Publisher))'
  BY <1>13, <1>a DEF AddViewerClosed, offerVars, pubVars
<1>14. ASSUME NEW a \in Adders, NEW x \in Pcs, AddViewerInsert(a, x)
      PROVE  (pub # "reading" => batch = {} /\ Free(Publisher))'
  <2> HIDE DEF TypeOK, ObjInv, JobIs, OthersStay
  <2>1. OthersStay(a) /\ job[a] # Idle
    BY <1>14, InsertFacts, IdleIsJob DEF AddViewerInsert, JobIs
  <2>2. /\ UNCHANGED <<pub, batch>>
        /\ \A b \in Adders \ {a} : offering'[b] = offering[b]
    BY <1>14 DEF AddViewerInsert, Insert, offerVars, pubVars, TypeOK
  <2> QED
    BY <1>a, <2>1, <2>2 DEF OthersStay
<1>15. ASSUME NEW a \in Adders, WireViewer(a)
      PROVE  (pub # "reading" => batch = {} /\ Free(Publisher))'
  <2> HIDE DEF TypeOK, ObjInv, JobIs, OthersStay
  <2>1. OthersStay(a) /\ job[a] # Idle
    BY <1>15, JobEnds, JobGoesOn, IdleIsJob DEF WireViewer, JobIs
  <2>2. /\ UNCHANGED <<pub, batch>>
        /\ \A b \in Adders \ {a} : offering'[b] = offering[b]
    BY <1>15 DEF WireViewer, offerVars, pubVars, TypeOK
  <2> QED
    BY <1>a, <2>1, <2>2 DEF OthersStay
<1>16. ASSUME NEW a \in Adders, MarkViewer(a)
      PROVE  (pub # "reading" => batch = {} /\ Free(Publisher))'
  <2> HIDE DEF TypeOK, ObjInv, JobIs, OthersStay
  <2>1. OthersStay(a) /\ job[a] # Idle
    BY <1>16, JobEnds, IdleIsJob DEF MarkViewer, JobIs
  <2>2. /\ UNCHANGED <<pub, batch>>
        /\ \A b \in Adders \ {a} : offering'[b] = offering[b]
    BY <1>16 DEF MarkViewer, pubVars, TypeOK
  <2> QED
    BY <1>a, <2>1, <2>2 DEF OthersStay
<1>17. ASSUME NEW t \in Threads, DescribeOfferFails(t)
      PROVE  (pub # "reading" => batch = {} /\ Free(Publisher))'
  BY <1>17, <1>a DEF DescribeOfferFails, RemoveViewer, Finish, Fails, MayFail,
     pubVars
<1>18. ASSUME NEW t \in Threads, FlushViewerICE(t)
      PROVE  (pub # "reading" => batch = {} /\ Free(Publisher))'
  BY <1>18, <1>a DEF FlushViewerICE, Finish, pubVars
<1>19. ASSUME NEW k \in Tracks, NEW x \in Pcs, OfferDeferred(k, x)
      PROVE  (pub # "reading" => batch = {} /\ Free(Publisher))'
  BY <1>19, <1>a DEF OfferDeferred, pubVars
<1>20. ASSUME NEW v \in Viewers, RegisterScreenViewer(v) \/ ReadMode(v) \/
              RemoveScreenViewer(v) \/ LeaveSFU(v)
      PROVE  UNCHANGED <<pub, batch, job, offering>>
  BY <1>20 DEF RegisterScreenViewer, ReadMode, RemoveScreenViewer, LeaveSFU,
     offerVars, pubVars
<1>21. ASSUME NEW r \in Rounds, OnPublisherICECandidate(r)
      PROVE  UNCHANGED <<pub, batch, job, offering>>
  BY <1>21 DEF OnPublisherICECandidate, offerVars, pubVars
<1>22. ASSUME NEW t \in Threads, DescribeOffer(t) \/ SendOffer(t)
      PROVE  UNCHANGED <<pub, batch, job, offering>>
  BY <1>22 DEF DescribeOffer, SendOffer, pubVars
<1>23. ASSUME NEW k \in Tracks, OnPublisherTrack(k)
      PROVE  UNCHANGED <<pub, batch, job, offering>>
  BY <1>23 DEF OnPublisherTrack, pubVars
<1>24. ASSUME NEW x \in Pcs, OnViewerICECandidate(x) \/ ViewerDisconnects(x) \/
              OnViewerStateChange(x) \/ ClosePc(x)
      PROVE  UNCHANGED <<pub, batch, job, offering>>
  BY <1>24 DEF OnViewerICECandidate, ViewerDisconnects, OnViewerStateChange,
     ClosePc, offerVars, pubVars
<1>25. ASSUME CollectSFU \/ Close
      PROVE  UNCHANGED <<pub, batch, job, offering>>
  BY <1>25 DEF CollectSFU, Close, offerVars, pubVars
<1>26. CASE UNCHANGED <<pub, batch, job, offering>>
  BY <1>26, <1>a
<1>27. CASE DropSFU
  BY <1>27 DEF DropSFU, PublisherFree, offerVars
<1> QED
  BY <1>1, <1>2, <1>3, <1>4, <1>5, <1>6, <1>7, <1>8, <1>9, <1>10, <1>11, <1>12,
     <1>13, <1>14, <1>15, <1>16, <1>17, <1>18, <1>19, <1>20, <1>21, <1>22,
     <1>23, <1>24, <1>25, <1>26, <1>27 DEF vars, Next, HandleScreenViewer,
     HandleScreenPublisher, AddViewer, SendOfferToViewer, Pion, offerVars,
     pubVars

\* Offers are answered one by one.
LEMMA AnswerStep ==
  TypeOK /\ TypeOK' /\ AnswerInv /\ [Next]_vars => AnswerInv'
<1> SUFFICES ASSUME TypeOK, TypeOK', AnswerInv, [Next]_vars
             PROVE  AnswerInv'
  OBVIOUS
<1> USE ScreenSFUAssumption DEF ScreenSFUAssumption, AnswerInv
<1>1. CASE Hello
  BY <1>1 DEF Hello, PublisherFree, answerVars
<1>2. CASE EnsureScreenSFU
  <2>1. UNCHANGED <<round, answered, ready>> /\ pub \in {"announced", "offering"}
    BY <1>2 DEF EnsureScreenSFU, answerVars
  <2>2. /\ pub' \in {"ensured", "answering", "reading"}
        /\ pub' = "answering" => pub = "offering"
    BY <1>2, <2>1, EnsureGoesOn
  <2> QED
    BY <2>1, <2>2
<1>3. CASE SetupAllSFUViewers
  BY <1>3 DEF SetupAllSFUViewers, answerVars
<1>4. CASE PublisherOffers
  BY <1>4 DEF PublisherOffers, PublisherFree, answerVars
<1>5. CASE HandlePublisherOffer
  <2>0. round \in Nat /\ MaxOffers \in Nat
    BY DEF TypeOK
  <2>1. /\ round' = round + 1 /\ UNCHANGED <<answered, ready>>
        /\ pub = "answering" /\ pub' = "answered"
    BY <1>5 DEF HandlePublisherOffer
  <2>2. answered' = 1 .. round' - 1
    BY <2>0, <2>1
  <2>3. round' # 0
    BY <2>0, <2>1
  <2> QED
    BY <2>1, <2>2, <2>3
<1>6. CASE HandlePublisherOfferFails
  BY <1>6 DEF HandlePublisherOfferFails, MayFail, answerVars
<1>7. CASE SendAnswer
  <2>0. round \in Nat /\ MaxOffers \in Nat
    BY DEF TypeOK
  <2>1. /\ answered' = answered \cup {round} /\ UNCHANGED <<round, ready>>
        /\ pub = "answered" /\ pub' = "sent"
    BY <1>7 DEF SendAnswer
  <2>2. answered' = 1 .. round'
    BY <2>0, <2>1
  <2> QED
    BY <2>1, <2>2
<1>8. CASE FlushPublisherICE
  <2>0. round \in Nat /\ MaxOffers \in Nat
    BY DEF TypeOK
  <2>1. UNCHANGED <<round, answered>> /\ pub = "sent" /\ pub' = "reading"
    BY <1>8 DEF FlushPublisherICE
  <2>2. 1 \in answered
    BY <2>0, <2>1
  <2> QED
    BY <2>1, <2>2
<1>9. ASSUME NEW v \in Viewers, RegisterScreenViewer(v) \/ ReadMode(v) \/
              AddSFUViewer(v) \/ RemoveScreenViewer(v) \/ LeaveSFU(v) \/
              SetupNext(v)
      PROVE  UNCHANGED <<pub, round, answered, ready>>
  BY <1>9 DEF RegisterScreenViewer, ReadMode, AddSFUViewer, RemoveScreenViewer,
     LeaveSFU, SetupNext, pubVars, answerVars
<1>10. ASSUME NEW r \in Rounds, OnPublisherICECandidate(r)
      PROVE  UNCHANGED <<pub, round, answered, ready>>
  BY <1>10 DEF OnPublisherICECandidate, pubVars
<1>11. ASSUME NEW a \in Adders, AddViewerCheck(a) \/ AddViewerFails(a) \/
              AddViewerClosed(a) \/ WireViewer(a) \/ MarkViewer(a)
      PROVE  UNCHANGED <<pub, round, answered, ready>>
  BY <1>11 DEF AddViewerCheck, AddViewerFails, AddViewerClosed, WireViewer,
     MarkViewer, pubVars, answerVars
<1>12. ASSUME NEW a \in Adders, NEW x \in Pcs, AddViewerInsert(a, x)
      PROVE  UNCHANGED <<pub, round, answered, ready>>
  BY <1>12 DEF AddViewerInsert, Insert, pubVars, answerVars
<1>13. ASSUME NEW t \in Threads, DescribeOffer(t) \/ DescribeOfferFails(t) \/
              SendOffer(t) \/ FlushViewerICE(t)
      PROVE  UNCHANGED <<pub, round, answered, ready>>
  BY <1>13 DEF DescribeOffer, DescribeOfferFails, SendOffer, FlushViewerICE,
     pubVars, answerVars
<1>14. ASSUME NEW k \in Tracks, OnPublisherTrack(k)
      PROVE  UNCHANGED <<pub, round, answered, ready>>
  BY <1>14 DEF OnPublisherTrack, pubVars, answerVars
<1>15. ASSUME NEW k \in Tracks, NEW x \in Pcs, OfferDeferred(k, x)
      PROVE  UNCHANGED <<pub, round, answered, ready>>
  BY <1>15 DEF OfferDeferred, pubVars, answerVars
<1>16. ASSUME NEW x \in Pcs, OnViewerICECandidate(x) \/ ViewerDisconnects(x) \/
              OnViewerStateChange(x) \/ ClosePc(x)
      PROVE  UNCHANGED <<pub, round, answered, ready>>
  BY <1>16 DEF OnViewerICECandidate, ViewerDisconnects, OnViewerStateChange,
     ClosePc, pubVars, answerVars
<1>17. ASSUME CollectSFU \/ Close
      PROVE  UNCHANGED <<pub, round, answered, ready>>
  BY <1>17 DEF CollectSFU, Close, pubVars, answerVars
<1>18. CASE UNCHANGED <<pub, round, answered, ready>>
  BY <1>18
<1>19. CASE DropSFU
  BY <1>19 DEF DropSFU, PublisherFree, answerVars
<1> QED
  BY <1>1, <1>2, <1>3, <1>4, <1>5, <1>6, <1>7, <1>8, <1>9, <1>10, <1>11, <1>12,
     <1>13, <1>14, <1>15, <1>16, <1>17, <1>18, <1>19 DEF vars, Next,
     HandleScreenViewer, HandleScreenPublisher, AddViewer, SendOfferToViewer,
     Pion, pubVars, answerVars

\* Everything begins with the SFU and ends with it.
LEMMA LifeStep ==
  TypeOK /\ TypeOK' /\ ObjInv /\ LifeInv /\ [Next]_vars => LifeInv'
<1> SUFFICES ASSUME TypeOK, TypeOK', ObjInv, LifeInv, [Next]_vars
             PROVE  LifeInv'
  OBVIOUS
<1> USE DEF TypeOK, LifeInv, ObjInv, JobOf
<1>1. ASSUME NEW v \in Viewers, AddSFUViewer(v) PROVE LifeInv'
  BY <1>1 DEF AddSFUViewer, HasSFU, roomVars, sfuVars, pubVars, history
<1>2. ASSUME NEW v \in Viewers, LeaveSFU(v) PROVE LifeInv'
  BY <1>2 DEF LeaveSFU, RemoveViewer, roomVars, pubVars, history
<1>3. CASE Hello
  BY <1>3 DEF Hello, PublisherFree, sfuVars, history
<1>4. CASE EnsureScreenSFU
  BY <1>4 DEF EnsureScreenSFU, HasSFU, MayFail, sfuVars
<1>5. CASE SetupAllSFUViewers
  BY <1>5 DEF SetupAllSFUViewers, HasSFU, roomVars, sfuVars, history
<1>6. ASSUME NEW v \in Viewers, SetupNext(v) PROVE LifeInv'
  BY <1>6 DEF SetupNext, roomVars, sfuVars, history
<1>7. CASE PublisherOffers
  BY <1>7 DEF PublisherOffers, PublisherFree, roomVars, sfuVars, history
<1>8. CASE HandlePublisherOffer
  BY <1>8 DEF HandlePublisherOffer, roomVars, sfuVars, history
<1>9. CASE HandlePublisherOfferFails
  BY <1>9 DEF HandlePublisherOfferFails, MayFail, roomVars, sfuVars, history
<1>10. CASE SendAnswer
  BY <1>10 DEF SendAnswer, roomVars, sfuVars, history
<1>11. CASE FlushPublisherICE
  BY <1>11 DEF FlushPublisherICE, roomVars, sfuVars, history
<1>12. ASSUME NEW a \in Adders, AddViewerCheck(a) PROVE LifeInv'
  <2>1. OthersStay(a) /\ job[a] # Idle
    <3> HIDE DEF TypeOK, ObjInv, JobOf, LifeInv
    <3> QED
      BY <1>12, JobEnds, JobGoesOn, IdleIsJob DEF AddViewerCheck, JobIs
  <2>2. sfu # "nil"
    BY <2>1
  <2>3. UNCHANGED <<sfu, closed, viewers>>
    BY <1>12 DEF AddViewerCheck, roomVars, sfuVars
  <2> QED
    BY <2>2, <2>3
<1>13. ASSUME NEW a \in Adders, AddViewerFails(a) PROVE LifeInv'
  BY <1>13 DEF AddViewerFails, MayFail, roomVars, sfuVars, pubVars
<1>14. ASSUME NEW a \in Adders, AddViewerClosed(a) PROVE LifeInv'
  BY <1>14 DEF AddViewerClosed, roomVars, sfuVars, pubVars, history
<1>15. ASSUME NEW a \in Adders, NEW x \in Pcs, AddViewerInsert(a, x)
      PROVE  LifeInv'
  <2>1. job[a] # Idle /\ ~closed /\ UNCHANGED <<sfu, closed>>
    <3> HIDE DEF TypeOK, ObjInv, JobOf, LifeInv
    <3> QED
      BY <1>15, InsertFacts, IdleIsJob DEF roomVars
  <2>2. sfu # "nil"
    BY <2>1
  <2> QED
    BY <2>1, <2>2
<1>16. ASSUME NEW a \in Adders, WireViewer(a) PROVE LifeInv'
  <2>1. OthersStay(a) /\ job[a] # Idle
    <3> HIDE DEF TypeOK, ObjInv, JobOf, LifeInv
    <3> QED
      BY <1>16, JobEnds, JobGoesOn, IdleIsJob DEF WireViewer, JobIs
  <2>2. sfu # "nil"
    BY <2>1
  <2>3. UNCHANGED <<sfu, closed, viewers>>
    BY <1>16 DEF WireViewer, roomVars, sfuVars
  <2> QED
    BY <2>2, <2>3
<1>17. ASSUME NEW a \in Adders, MarkViewer(a) PROVE LifeInv'
  BY <1>17 DEF MarkViewer, roomVars, sfuVars, pubVars, history
<1>18. ASSUME NEW t \in Threads, DescribeOfferFails(t) PROVE LifeInv'
  BY <1>18 DEF DescribeOfferFails, RemoveViewer, Finish, Fails, MayFail,
     roomVars, pubVars
<1>19. ASSUME NEW x \in Pcs, OnViewerStateChange(x) PROVE LifeInv'
  BY <1>19 DEF OnViewerStateChange, RemoveViewer, roomVars, pubVars
<1>20. CASE DropSFU \/ CollectSFU
  BY <1>20 DEF DropSFU, CollectSFU, PublisherFree, sfuVars, pubVars, history
<1>21. CASE Close
  BY <1>21 DEF Close, roomVars, pubVars, history
<1>22. ASSUME NEW v \in Viewers, RegisterScreenViewer(v) \/ ReadMode(v) \/
              RemoveScreenViewer(v)
      PROVE  UNCHANGED <<sfu, closed, batch, job, viewers, sfuMode, pub,
                         failed>>
  BY <1>22 DEF RegisterScreenViewer, ReadMode, RemoveScreenViewer, roomVars,
     sfuVars, pubVars, history
<1>23. ASSUME NEW r \in Rounds, OnPublisherICECandidate(r)
      PROVE  UNCHANGED <<sfu, closed, batch, job, viewers, sfuMode, pub,
                         failed>>
  BY <1>23 DEF OnPublisherICECandidate, roomVars, sfuVars, pubVars, history
<1>24. ASSUME NEW t \in Threads, DescribeOffer(t) \/ SendOffer(t) \/
              FlushViewerICE(t)
      PROVE  UNCHANGED <<sfu, closed, batch, job, viewers, sfuMode, pub,
                         failed>>
  BY <1>24 DEF DescribeOffer, SendOffer, FlushViewerICE, roomVars, sfuVars,
     pubVars, history
<1>25. ASSUME NEW k \in Tracks, OnPublisherTrack(k)
      PROVE  UNCHANGED <<sfu, closed, batch, job, viewers, sfuMode, pub,
                         failed>>
  BY <1>25 DEF OnPublisherTrack, roomVars, pubVars, history
<1>26. ASSUME NEW k \in Tracks, NEW x \in Pcs, OfferDeferred(k, x)
      PROVE  UNCHANGED <<sfu, closed, batch, job, viewers, sfuMode, pub,
                         failed>>
  BY <1>26 DEF OfferDeferred, roomVars, sfuVars, pubVars, history
<1>27. ASSUME NEW x \in Pcs, OnViewerICECandidate(x) \/ ViewerDisconnects(x) \/
              ClosePc(x)
      PROVE  UNCHANGED <<sfu, closed, batch, job, viewers, sfuMode, pub,
                         failed>>
  BY <1>27 DEF OnViewerICECandidate, ViewerDisconnects, ClosePc, roomVars,
     sfuVars, pubVars, history
<1>28. CASE UNCHANGED <<sfu, closed, batch, job, viewers, sfuMode, pub,
                        failed>>
  BY <1>28
<1> QED
  BY <1>1, <1>2, <1>3, <1>4, <1>5, <1>6, <1>7, <1>8, <1>9, <1>10, <1>11, <1>12,
     <1>13, <1>14, <1>15, <1>16, <1>17, <1>18, <1>19, <1>20, <1>21, <1>22,
     <1>23, <1>24, <1>25, <1>26, <1>27, <1>28 DEF vars, Next,
     HandleScreenViewer, HandleScreenPublisher, AddViewer, SendOfferToViewer,
     Pion, roomVars, sfuVars, pubVars, history

\* Whoever takes a pc out of the map closes it.
LEMMA StrayStep ==
  TypeOK /\ TypeOK' /\ ObjInv /\ (\A x \in Pcs : StrayOf(x)) /\ [Next]_vars =>
    (\A z \in Pcs : StrayOf(z))'
<1> SUFFICES ASSUME TypeOK, TypeOK', ObjInv, (\A x \in Pcs : StrayOf(x)),
                    [Next]_vars
             PROVE  (\A z \in Pcs : StrayOf(z))'
  OBVIOUS
<1> SUFFICES ASSUME NEW z \in Pcs PROVE StrayOf(z)'
  OBVIOUS
<1>a. StrayOf(z)
  OBVIOUS
<1> USE DEF TypeOK, StrayOf
<1>1. ASSUME NEW v \in Viewers, LeaveSFU(v) PROVE StrayOf(z)'
  BY <1>1, <1>a DEF LeaveSFU, RemoveViewer, pcVars, history
<1>2. ASSUME NEW a \in Adders, NEW x \in Pcs, AddViewerInsert(a, x)
      PROVE  StrayOf(z)'
  <2> HIDE DEF TypeOK, StrayOf
  <2>1. /\ job[a].viewer \in Viewers /\ UNCHANGED doomed
        /\ state' = [state EXCEPT ![x] = "open"]
        /\ viewers' = [viewers EXCEPT ![job[a].viewer] = x]
        /\ overwritten' = overwritten \cup ({viewers[job[a].viewer]} \ {None})
    BY <1>2, InsertFacts DEF closeVars
  <2>2. CASE z = x
    BY <2>1, <2>2 DEF StrayOf, TypeOK
  <2>3. CASE z # x
    <3>1. z # None
      BY ScreenSFUAssumption DEF ScreenSFUAssumption
    <3>2. state'[z] = state[z]
      BY <2>1, <2>3 DEF TypeOK
    <3>3. ASSUME NEW w \in Viewers, viewers[w] = z
          PROVE  z \in overwritten' \/ viewers'[w] = z
      BY <2>1, <3>1, <3>3 DEF TypeOK
    <3> QED
      BY <1>a, <2>1, <3>2, <3>3 DEF StrayOf
  <2> QED
    BY <2>2, <2>3
<1>3. ASSUME NEW t \in Threads, DescribeOfferFails(t) PROVE StrayOf(z)'
  BY <1>3, <1>a DEF DescribeOfferFails, RemoveViewer, Finish, Fails, MayFail,
     pcVars
<1>4. ASSUME NEW x \in Pcs, OnViewerStateChange(x) PROVE StrayOf(z)'
  BY <1>4, <1>a DEF OnViewerStateChange, RemoveViewer, pcVars
<1>5. ASSUME NEW x \in Pcs, ClosePc(x) PROVE StrayOf(z)'
  BY <1>5, <1>a DEF ClosePc, sfuVars, history
<1>6. CASE Close
  <2>1. /\ UNCHANGED <<state, overwritten>> /\ doomed' = doomed \cup Registered
    BY <1>6 DEF Close, pcVars, history
  <2>2. ASSUME NEW w \in Viewers, viewers[w] = z PROVE z \in Registered
    BY <2>2, ScreenSFUAssumption DEF ScreenSFUAssumption, Registered
  <2> QED
    BY <1>a, <2>1, <2>2
<1>7. ASSUME NEW v \in Viewers, RegisterScreenViewer(v) \/ ReadMode(v) \/
              AddSFUViewer(v) \/ RemoveScreenViewer(v) \/ SetupNext(v)
      PROVE  UNCHANGED <<state, doomed, overwritten, viewers>>
  BY <1>7 DEF RegisterScreenViewer, ReadMode, AddSFUViewer, RemoveScreenViewer,
     SetupNext, sfuVars, pcVars, closeVars, history
<1>8. ASSUME Hello \/ EnsureScreenSFU \/ SetupAllSFUViewers \/ PublisherOffers
              \/ HandlePublisherOffer \/ HandlePublisherOfferFails
      PROVE  UNCHANGED <<state, doomed, overwritten, viewers>>
  BY <1>8 DEF Hello, EnsureScreenSFU, SetupAllSFUViewers, PublisherOffers,
     HandlePublisherOffer, HandlePublisherOfferFails, sfuVars, pcVars,
     closeVars, history
<1>9. ASSUME SendAnswer \/ FlushPublisherICE \/ DropSFU \/ CollectSFU
      PROVE  UNCHANGED <<state, doomed, overwritten, viewers>>
  BY <1>9 DEF SendAnswer, FlushPublisherICE, DropSFU, CollectSFU, sfuVars, pcVars,
     closeVars, history
<1>10. ASSUME NEW r \in Rounds, OnPublisherICECandidate(r)
      PROVE  UNCHANGED <<state, doomed, overwritten, viewers>>
  BY <1>10 DEF OnPublisherICECandidate, sfuVars, pcVars, closeVars, history
<1>11. ASSUME NEW a \in Adders, AddViewerCheck(a) \/ AddViewerFails(a) \/
              AddViewerClosed(a) \/ WireViewer(a) \/ MarkViewer(a)
      PROVE  UNCHANGED <<state, doomed, overwritten, viewers>>
  BY <1>11 DEF AddViewerCheck, AddViewerFails, AddViewerClosed, WireViewer,
     MarkViewer, sfuVars, pcVars, closeVars, history
<1>12. ASSUME NEW t \in Threads, DescribeOffer(t) \/ SendOffer(t) \/
              FlushViewerICE(t)
      PROVE  UNCHANGED <<state, doomed, overwritten, viewers>>
  BY <1>12 DEF DescribeOffer, SendOffer, FlushViewerICE, sfuVars, pcVars,
     closeVars, history
<1>13. ASSUME NEW k \in Tracks, OnPublisherTrack(k)
      PROVE  UNCHANGED <<state, doomed, overwritten, viewers>>
  BY <1>13 DEF OnPublisherTrack, pcVars, closeVars, history
<1>14. ASSUME NEW k \in Tracks, NEW x \in Pcs, OfferDeferred(k, x)
      PROVE  UNCHANGED <<state, doomed, overwritten, viewers>>
  BY <1>14 DEF OfferDeferred, sfuVars, pcVars, closeVars, history
<1>15. ASSUME NEW x \in Pcs, OnViewerICECandidate(x) \/ ViewerDisconnects(x)
      PROVE  UNCHANGED <<state, doomed, overwritten, viewers>>
  BY <1>15 DEF OnViewerICECandidate, ViewerDisconnects, sfuVars, pcVars,
     closeVars, history
<1>16. CASE UNCHANGED <<state, doomed, overwritten, viewers>>
  BY <1>16, <1>a
<1> QED
  BY <1>1, <1>2, <1>3, <1>4, <1>5, <1>6, <1>7, <1>8, <1>9, <1>10, <1>11, <1>12,
     <1>13, <1>14, <1>15, <1>16 DEF vars, Next, HandleScreenViewer,
     HandleScreenPublisher, AddViewer, SendOfferToViewer, Pion, sfuVars,
     pcVars, closeVars, history

\* One of the read loops adds whoever watches.
LEMMA WatchStep ==
  TypeOK /\ TypeOK' /\ ObjInv /\ LifeInv /\ (\A v \in Viewers : WatchOf(v)) /\
     [Next]_vars =>
    (\A w \in Viewers : WatchOf(w))'
<1> SUFFICES ASSUME TypeOK, TypeOK', ObjInv, LifeInv, (\A v \in Viewers :
                    WatchOf(v)), [Next]_vars
             PROVE  (\A w \in Viewers : WatchOf(w))'
  OBVIOUS
<1> SUFFICES ASSUME NEW w \in Viewers PROVE WatchOf(w)'
  OBVIOUS
<1>a. WatchOf(w)
  OBVIOUS
<1> USE DEF TypeOK, WatchOf, Adding
<1>1. ASSUME NEW v \in Viewers, RegisterScreenViewer(v) PROVE WatchOf(w)'
  BY <1>1, <1>a DEF RegisterScreenViewer, sfuVars, pubVars, history
<1>2. ASSUME NEW v \in Viewers, ReadMode(v) PROVE WatchOf(w)'
  BY <1>2, <1>a DEF ReadMode, roomVars, sfuVars, pubVars, history
<1>3. ASSUME NEW v \in Viewers, AddSFUViewer(v) PROVE WatchOf(w)'
  <2> HIDE DEF TypeOK, WatchOf, ObjInv
  <2>1. /\ UNCHANGED <<watching, sfuMode, sfu, failed, viewers, pub, batch>>
        /\ \A u \in Viewers \ {v} : handler'[u] = handler[u]
    BY <1>3 DEF AddSFUViewer, roomVars, sfuVars, pubVars, history, TypeOK
  <2>2. job[v].at = "idle" /\ v \in Adders
    <3>1. Free(v)
      BY <1>3 DEF AddSFUViewer, ObjInv, HandlerOf
    <3> QED
      BY <3>1, IdleIsJob DEF Free, Adders
  <2>3. JobIs(v, "check", v, None, 0) \/ sfu # "open"
    BY <1>3, <2>2, JobBegins DEF AddSFUViewer, HasSFU
  <2>4. ASSUME sfu = "open", NEW b \in Adders, Adding(b, w) PROVE Adding(b, w)'
    BY <2>2, <2>3, <2>4 DEF Adding, JobIs, OthersStay
  <2>5. ASSUME sfu = "open", w = v PROVE Adding(v, w)' /\ v \in Adders
    BY <2>2, <2>3, <2>5 DEF Adding, JobIs
  <2> QED
    BY <1>a, <2>1, <2>4, <2>5 DEF WatchOf
<1>4. ASSUME NEW v \in Viewers, RemoveScreenViewer(v) PROVE WatchOf(w)'
  BY <1>4, <1>a DEF RemoveScreenViewer, sfuVars, pubVars, history
<1>5. ASSUME NEW v \in Viewers, LeaveSFU(v) PROVE WatchOf(w)'
  <2> HIDE DEF TypeOK, WatchOf, ObjInv
  <2>1. /\ UNCHANGED <<watching, sfuMode, sfu, failed, pub, batch, job>>
        /\ \A u \in Viewers \ {v} :
             handler'[u] = handler[u] /\ viewers'[u] = viewers[u]
    BY <1>5, RemoveViewerFacts DEF LeaveSFU, roomVars, pubVars, history, TypeOK
  <2>2. v \notin watching
    BY <1>5 DEF LeaveSFU, ObjInv, HandlerOf
  <2> QED
    BY <1>a, <2>1, <2>2 DEF WatchOf, Adding
<1>6. CASE Hello
  BY <1>6, <1>a DEF Hello, PublisherFree, sfuVars, history
<1>7. CASE EnsureScreenSFU
  <2> HIDE DEF TypeOK, WatchOf, ObjInv
  <2>1. /\ UNCHANGED <<watching, sfuMode, viewers, handler, batch, job>>
        /\ pub \in {"announced", "offering"}
        /\ sfu = "nil" \/ sfu' = sfu
        /\ failed \subseteq failed' \/ failed' = Viewers
    BY <1>7 DEF EnsureScreenSFU, sfuVars
  <2>4. pub = "announced" => pub' = "ensured"
    BY <1>7, EnsureGoesOn
  <2>2. sfuMode /\ sfu = "nil" => pub = "announced" \/ failed = Viewers
    BY DEF LifeInv
  <2>3. CASE sfu = "nil"
    BY <2>1, <2>2, <2>3, <2>4 DEF WatchOf
  <2>5. CASE sfu' = sfu
    BY <1>a, <2>1, <2>4, <2>5 DEF WatchOf, Adding
  <2> QED
    BY <2>1, <2>3, <2>5
<1>8. CASE SetupAllSFUViewers
  BY <1>8, <1>a DEF SetupAllSFUViewers, HasSFU, roomVars, sfuVars, history
<1>9. ASSUME NEW v \in Viewers, SetupNext(v) PROVE WatchOf(w)'
  <2> HIDE DEF TypeOK, WatchOf, ObjInv
  <2>1. /\ UNCHANGED <<watching, sfuMode, sfu, failed, viewers, pub, handler>>
        /\ batch' = batch \ {v} /\ Publisher \in Adders
    BY <1>9 DEF SetupNext, roomVars, sfuVars, history, Adders
  <2>2. job[Publisher].at = "idle" /\ JobIs(Publisher, "check", v, None, 0)
    BY <1>9, <2>1, JobBegins, IdleIsJob DEF SetupNext, Free
  <2>4. ASSUME NEW b \in Adders, Adding(b, w) PROVE Adding(b, w)'
    BY <2>2, <2>4 DEF Adding, JobIs, OthersStay
  <2>5. w = v => Adding(Publisher, w)'
    BY <2>2 DEF Adding, JobIs
  <2> QED
    BY <1>a, <2>1, <2>4, <2>5 DEF WatchOf
<1>10. CASE PublisherOffers
  BY <1>10, <1>a DEF PublisherOffers, PublisherFree, roomVars, sfuVars, history
<1>11. CASE HandlePublisherOffer
  BY <1>11, <1>a DEF HandlePublisherOffer, roomVars, sfuVars, history
<1>12. CASE HandlePublisherOfferFails
  BY <1>12, <1>a DEF HandlePublisherOfferFails, MayFail, roomVars, sfuVars,
     history
<1>13. CASE SendAnswer
  BY <1>13, <1>a DEF SendAnswer, roomVars, sfuVars, history
<1>14. CASE FlushPublisherICE
  BY <1>14, <1>a DEF FlushPublisherICE, roomVars, sfuVars, history
<1>15. ASSUME NEW a \in Adders, AddViewerCheck(a) PROVE WatchOf(w)'
  <2> HIDE DEF TypeOK, WatchOf
  <2>0. None # w
    BY ScreenSFUAssumption DEF ScreenSFUAssumption
  <2>1. UNCHANGED <<watching, sfuMode, sfu, failed, viewers, handler, pub,
     batch>>
    BY <1>15 DEF AddViewerCheck, roomVars, sfuVars, pubVars, history
  <2>2. \/ OthersStay(a) /\ (closed \/ viewers[job[a].viewer] # None)
        \/ JobIs(a, "create", job[a].viewer, job[a].pc, job[a].track)
    BY <1>15, JobEnds, JobGoesOn DEF AddViewerCheck
  <2>3. ASSUME sfu = "open", NEW b \in Adders, Adding(b, w)
        PROVE  Adding(b, w)' \/ viewers[w] # None
    <3>1. CASE b # a
      BY <2>2, <2>3, <3>1 DEF JobIs, OthersStay, Adding
    <3>2. CASE b = a
      BY <2>2, <2>3, <3>2 DEF JobIs, LifeInv, Adding
    <3> QED
      BY <3>1, <3>2
  <2> QED
    BY <1>a, <2>1, <2>3 DEF WatchOf
<1>16. ASSUME NEW a \in Adders, AddViewerFails(a) PROVE WatchOf(w)'
  <2> HIDE DEF TypeOK, WatchOf
  <2>0. None # w
    BY ScreenSFUAssumption DEF ScreenSFUAssumption
  <2>1. UNCHANGED <<watching, sfuMode, sfu, viewers, handler, pub, batch>>
    BY <1>16 DEF AddViewerFails, roomVars, sfuVars, pubVars, history
  <2>2. OthersStay(a) /\ failed' = failed \cup {job[a].viewer}
    BY <1>16, JobEnds DEF AddViewerFails
  <2>3. ASSUME NEW b \in Adders, Adding(b, w) PROVE Adding(b, w)' \/ w \in failed'
    BY <2>2, <2>3 DEF OthersStay, Adding
  <2> QED
    BY <1>a, <2>1, <2>2, <2>3 DEF WatchOf
<1>17. ASSUME NEW a \in Adders, AddViewerClosed(a) PROVE WatchOf(w)'
  <2>1. sfu' # "open"
    BY <1>17 DEF AddViewerClosed, LifeInv, roomVars
  <2> QED
    BY <2>1 DEF WatchOf
<1>18. ASSUME NEW a \in Adders, NEW x \in Pcs, AddViewerInsert(a, x)
      PROVE  WatchOf(w)'
  <2> HIDE DEF TypeOK, WatchOf, ObjInv
  <2>1. /\ UNCHANGED <<watching, sfuMode, sfu, failed, handler, pub, batch>>
        /\ viewers' = [viewers EXCEPT ![job[a].viewer] = x]
        /\ job[a].viewer \in Viewers /\ OthersStay(a)
    BY <1>18, InsertFacts DEF roomVars, pubVars, JobIs
  <2>0. x # None
    BY ScreenSFUAssumption DEF ScreenSFUAssumption
  <2>2. viewers[w] # None \/ w = job[a].viewer => viewers'[w] # None
    BY <2>0, <2>1 DEF TypeOK
  <2>3. ASSUME NEW b \in Adders, Adding(b, w), w # job[a].viewer
        PROVE  Adding(b, w)'
    BY <2>1, <2>3 DEF OthersStay, Adding
  <2> QED
    BY <1>a, <2>1, <2>2, <2>3 DEF WatchOf
<1>19. ASSUME NEW a \in Adders, WireViewer(a) PROVE WatchOf(w)'
  <2> HIDE DEF TypeOK, WatchOf
  <2>0. None # w
    BY ScreenSFUAssumption DEF ScreenSFUAssumption
  <2>1. UNCHANGED <<watching, sfuMode, sfu, failed, viewers, handler, pub,
     batch>>
    BY <1>19 DEF WireViewer, roomVars, sfuVars, pubVars, history
  <2>2. OthersStay(a) /\ job[a].at \notin {"check", "create"}
    BY <1>19, JobEnds, JobGoesOn DEF WireViewer, JobIs
  <2>3. ASSUME NEW b \in Adders, Adding(b, w) PROVE Adding(b, w)'
    BY <2>2, <2>3 DEF OthersStay, Adding
  <2> QED
    BY <1>a, <2>1, <2>3 DEF WatchOf
<1>20. ASSUME NEW a \in Adders, MarkViewer(a) PROVE WatchOf(w)'
  <2> HIDE DEF TypeOK, WatchOf
  <2>0. None # w
    BY ScreenSFUAssumption DEF ScreenSFUAssumption
  <2>1. UNCHANGED <<watching, sfuMode, sfu, failed, viewers, handler, pub,
     batch>>
    BY <1>20 DEF MarkViewer, roomVars, sfuVars, pubVars, history
  <2>2. OthersStay(a) /\ job[a].at \notin {"check", "create"}
    BY <1>20, JobEnds DEF MarkViewer, JobIs
  <2>3. ASSUME NEW b \in Adders, Adding(b, w) PROVE Adding(b, w)'
    BY <2>2, <2>3 DEF OthersStay, Adding
  <2> QED
    BY <1>a, <2>1, <2>3 DEF WatchOf
<1>21. ASSUME NEW t \in Threads, DescribeOfferFails(t) PROVE WatchOf(w)'
  BY <1>21, <1>a DEF DescribeOfferFails, RemoveViewer, Finish, Fails, MayFail,
     roomVars, pubVars
<1>22. ASSUME NEW x \in Pcs, OnViewerStateChange(x) PROVE WatchOf(w)'
  BY <1>22, <1>a DEF OnViewerStateChange, RemoveViewer, roomVars, pubVars
<1>23. CASE DropSFU \/ CollectSFU
  BY <1>23, <1>a DEF DropSFU, CollectSFU, sfuVars, pubVars, history
<1>24. CASE Close
  BY <1>24, <1>a DEF Close, roomVars, pubVars, history
<1>25. ASSUME NEW r \in Rounds, OnPublisherICECandidate(r)
      PROVE  UNCHANGED <<roomVars, failed, viewers, handler, pub, batch, job>>
  BY <1>25 DEF OnPublisherICECandidate, sfuVars, pubVars, history
<1>26. ASSUME NEW t \in Threads, DescribeOffer(t) \/ SendOffer(t) \/
              FlushViewerICE(t)
      PROVE  UNCHANGED <<roomVars, failed, viewers, handler, pub, batch, job>>
  BY <1>26 DEF DescribeOffer, SendOffer, FlushViewerICE, sfuVars, pubVars,
     history
<1>27. ASSUME NEW k \in Tracks, OnPublisherTrack(k)
      PROVE  UNCHANGED <<roomVars, failed, viewers, handler, pub, batch, job>>
  BY <1>27 DEF OnPublisherTrack, pubVars, history
<1>28. ASSUME NEW k \in Tracks, NEW x \in Pcs, OfferDeferred(k, x)
      PROVE  UNCHANGED <<roomVars, failed, viewers, handler, pub, batch, job>>
  BY <1>28 DEF OfferDeferred, sfuVars, pubVars, history
<1>29. ASSUME NEW x \in Pcs, OnViewerICECandidate(x) \/ ViewerDisconnects(x) \/
              ClosePc(x)
      PROVE  UNCHANGED <<roomVars, failed, viewers, handler, pub, batch, job>>
  BY <1>29 DEF OnViewerICECandidate, ViewerDisconnects, ClosePc, sfuVars,
     pubVars, history
<1>30. CASE UNCHANGED <<roomVars, failed, viewers, handler, pub, batch, job>>
  BY <1>30, <1>a DEF roomVars
<1> QED
  BY <1>1, <1>2, <1>3, <1>4, <1>5, <1>6, <1>7, <1>8, <1>9, <1>10, <1>11, <1>12,
     <1>13, <1>14, <1>15, <1>16, <1>17, <1>18, <1>19, <1>20, <1>21, <1>22,
     <1>23, <1>24, <1>25, <1>26, <1>27, <1>28, <1>29, <1>30 DEF vars, Next,
     HandleScreenViewer, HandleScreenPublisher, AddViewer, SendOfferToViewer,
     Pion, sfuVars, pubVars, history

\* Whoever has left is in the map only if it was added later.
LEMMA LeaverStep ==
  TypeOK /\ TypeOK' /\ ObjInv /\ LifeInv /\ LeaverReleased /\ [Next]_vars =>
    LeaverReleased'
<1> SUFFICES ASSUME TypeOK, TypeOK', ObjInv, LifeInv, LeaverReleased,
                    [Next]_vars
             PROVE  LeaverReleased'
  OBVIOUS
<1> USE DEF TypeOK, LeaverReleased
<1>1. ASSUME NEW v \in Viewers, RegisterScreenViewer(v) PROVE LeaverReleased'
  BY <1>1 DEF RegisterScreenViewer, sfuVars, history
<1>2. ASSUME NEW v \in Viewers, ReadMode(v) PROVE LeaverReleased'
  BY <1>2 DEF ReadMode, roomVars, sfuVars, history
<1>3. ASSUME NEW v \in Viewers, AddSFUViewer(v) PROVE LeaverReleased'
  BY <1>3 DEF AddSFUViewer, roomVars, sfuVars, history
<1>4. ASSUME NEW v \in Viewers, RemoveScreenViewer(v) PROVE LeaverReleased'
  <2>1. /\ UNCHANGED <<tardy, sfu, viewers>>
        /\ handler' = [handler EXCEPT ![v] = IF HasSFU THEN "leaving"
                                             ELSE "gone"]
    BY <1>4 DEF RemoveScreenViewer, sfuVars, history
  <2>2. sfu = "nil" => viewers[v] = None
    BY DEF LifeInv
  <2> QED
    BY <2>1, <2>2 DEF HasSFU
<1>5. ASSUME NEW v \in Viewers, LeaveSFU(v) PROVE LeaverReleased'
  BY <1>5 DEF LeaveSFU, RemoveViewer, roomVars, history
<1>6. CASE EnsureScreenSFU
  BY <1>6 DEF EnsureScreenSFU, MayFail, sfuVars
<1>7. ASSUME NEW a \in Adders, NEW x \in Pcs, AddViewerInsert(a, x)
      PROVE  LeaverReleased'
  BY <1>7 DEF AddViewerInsert, Insert, roomVars
<1>8. ASSUME NEW t \in Threads, DescribeOfferFails(t) PROVE LeaverReleased'
  BY <1>8 DEF DescribeOfferFails, RemoveViewer, Finish, Fails, MayFail,
     roomVars
<1>9. ASSUME NEW x \in Pcs, OnViewerStateChange(x) PROVE LeaverReleased'
  BY <1>9 DEF OnViewerStateChange, RemoveViewer, roomVars
<1>10. CASE DropSFU \/ CollectSFU
  BY <1>10 DEF DropSFU, CollectSFU, sfuVars, history
<1>11. CASE Close
  BY <1>11 DEF Close, roomVars, history
<1>12. ASSUME Hello \/ SetupAllSFUViewers \/ PublisherOffers \/
              HandlePublisherOffer \/ HandlePublisherOfferFails \/ SendAnswer
      PROVE  UNCHANGED <<handler, tardy, sfu, viewers>>
  BY <1>12 DEF Hello, SetupAllSFUViewers, PublisherOffers,
     HandlePublisherOffer, HandlePublisherOfferFails, SendAnswer, roomVars,
     sfuVars, history
<1>13. ASSUME FlushPublisherICE
      PROVE  UNCHANGED <<handler, tardy, sfu, viewers>>
  BY <1>13 DEF FlushPublisherICE, roomVars, sfuVars, history
<1>14. ASSUME NEW v \in Viewers, SetupNext(v)
      PROVE  UNCHANGED <<handler, tardy, sfu, viewers>>
  BY <1>14 DEF SetupNext, roomVars, sfuVars, history
<1>15. ASSUME NEW r \in Rounds, OnPublisherICECandidate(r)
      PROVE  UNCHANGED <<handler, tardy, sfu, viewers>>
  BY <1>15 DEF OnPublisherICECandidate, roomVars, sfuVars, history
<1>16. ASSUME NEW a \in Adders, AddViewerCheck(a) \/ AddViewerFails(a) \/
              AddViewerClosed(a) \/ WireViewer(a) \/ MarkViewer(a)
      PROVE  UNCHANGED <<handler, tardy, sfu, viewers>>
  BY <1>16 DEF AddViewerCheck, AddViewerFails, AddViewerClosed, WireViewer,
     MarkViewer, roomVars, sfuVars, history
<1>17. ASSUME NEW t \in Threads, DescribeOffer(t) \/ SendOffer(t) \/
              FlushViewerICE(t)
      PROVE  UNCHANGED <<handler, tardy, sfu, viewers>>
  BY <1>17 DEF DescribeOffer, SendOffer, FlushViewerICE, roomVars, sfuVars,
     history
<1>18. ASSUME NEW k \in Tracks, OnPublisherTrack(k)
      PROVE  UNCHANGED <<handler, tardy, sfu, viewers>>
  BY <1>18 DEF OnPublisherTrack, roomVars, history
<1>19. ASSUME NEW k \in Tracks, NEW x \in Pcs, OfferDeferred(k, x)
      PROVE  UNCHANGED <<handler, tardy, sfu, viewers>>
  BY <1>19 DEF OfferDeferred, roomVars, sfuVars, history
<1>20. ASSUME NEW x \in Pcs, OnViewerICECandidate(x) \/ ViewerDisconnects(x) \/
              ClosePc(x)
      PROVE  UNCHANGED <<handler, tardy, sfu, viewers>>
  BY <1>20 DEF OnViewerICECandidate, ViewerDisconnects, ClosePc, roomVars,
     sfuVars, history
<1>21. CASE UNCHANGED <<handler, tardy, sfu, viewers>>
  BY <1>21
<1> QED
  BY <1>1, <1>2, <1>3, <1>4, <1>5, <1>6, <1>7, <1>8, <1>9, <1>10, <1>11, <1>12,
     <1>13, <1>14, <1>15, <1>16, <1>17, <1>18, <1>19, <1>20, <1>21 DEF vars,
     Next, HandleScreenViewer, HandleScreenPublisher, AddViewer,
     SendOfferToViewer, Pion, roomVars, sfuVars, history

\* A viewer's candidates wait for its offer.
LEMMA IceStep ==
  TypeOK /\ TypeOK' /\ ObjInv /\ (\A x \in Pcs : IceOf(x)) /\ [Next]_vars =>
    (\A z \in Pcs : IceOf(z))'
<1> SUFFICES ASSUME TypeOK, TypeOK', ObjInv, (\A x \in Pcs : IceOf(x)),
                    [Next]_vars
             PROVE  (\A z \in Pcs : IceOf(z))'
  OBVIOUS
<1> SUFFICES ASSUME NEW z \in Pcs PROVE IceOf(z)'
  OBVIOUS
<1>a. IceOf(z)
  OBVIOUS
<1> USE DEF TypeOK, IceOf
<1>1. ASSUME NEW t \in Threads, DescribeOffer(t) PROVE IceOf(z)'
  BY <1>1, <1>a DEF DescribeOffer
<1>2. ASSUME NEW t \in Threads, SendOffer(t) PROVE IceOf(z)'
  BY <1>2, <1>a DEF SendOffer
<1>3. ASSUME NEW t \in Threads, FlushViewerICE(t) PROVE IceOf(z)'
  <2>1. /\ offering[t] \in offered /\ UNCHANGED offered
        /\ iceReady' = iceReady \cup {offering[t]}
    BY <1>3 DEF FlushViewerICE, ObjInv, ThreadOf
  <2>2. /\ z # offering[t] => ice'[z] = ice[z]
        /\ z = offering[t] => ice'[z] # "pending"
    BY <1>3 DEF FlushViewerICE
  <2> QED
    BY <1>a, <2>1, <2>2
<1>4. ASSUME NEW x \in Pcs, OnViewerICECandidate(x) PROVE IceOf(z)'
  BY <1>4, <1>a DEF OnViewerICECandidate
<1>5. ASSUME NEW v \in Viewers, RegisterScreenViewer(v) \/ ReadMode(v) \/
              AddSFUViewer(v) \/ RemoveScreenViewer(v) \/ LeaveSFU(v) \/
              SetupNext(v)
      PROVE  UNCHANGED <<ice, iceReady, offered>>
  BY <1>5 DEF RegisterScreenViewer, ReadMode, AddSFUViewer, RemoveScreenViewer,
     LeaveSFU, SetupNext, signalVars
<1>6. ASSUME Hello \/ EnsureScreenSFU \/ SetupAllSFUViewers \/ PublisherOffers
              \/ HandlePublisherOffer \/ HandlePublisherOfferFails
      PROVE  UNCHANGED <<ice, iceReady, offered>>
  BY <1>6 DEF Hello, EnsureScreenSFU, SetupAllSFUViewers, PublisherOffers,
     HandlePublisherOffer, HandlePublisherOfferFails, signalVars
<1>7. ASSUME SendAnswer \/ FlushPublisherICE \/ DropSFU \/ CollectSFU \/ Close
      PROVE  UNCHANGED <<ice, iceReady, offered>>
  BY <1>7 DEF SendAnswer, FlushPublisherICE, DropSFU, CollectSFU, Close,
     signalVars
<1>8. ASSUME NEW r \in Rounds, OnPublisherICECandidate(r)
      PROVE  UNCHANGED <<ice, iceReady, offered>>
  BY <1>8 DEF OnPublisherICECandidate, signalVars
<1>9. ASSUME NEW a \in Adders, AddViewerCheck(a) \/ AddViewerFails(a) \/
              AddViewerClosed(a) \/ WireViewer(a) \/ MarkViewer(a)
      PROVE  UNCHANGED <<ice, iceReady, offered>>
  BY <1>9 DEF AddViewerCheck, AddViewerFails, AddViewerClosed, WireViewer,
     MarkViewer, signalVars
<1>10. ASSUME NEW a \in Adders, NEW x \in Pcs, AddViewerInsert(a, x)
      PROVE  UNCHANGED <<ice, iceReady, offered>>
  BY <1>10 DEF AddViewerInsert, Insert, signalVars
<1>11. ASSUME NEW t \in Threads, DescribeOfferFails(t)
      PROVE  UNCHANGED <<ice, iceReady, offered>>
  BY <1>11 DEF DescribeOfferFails, signalVars
<1>12. ASSUME NEW k \in Tracks, OnPublisherTrack(k)
      PROVE  UNCHANGED <<ice, iceReady, offered>>
  BY <1>12 DEF OnPublisherTrack
<1>13. ASSUME NEW k \in Tracks, NEW x \in Pcs, OfferDeferred(k, x)
      PROVE  UNCHANGED <<ice, iceReady, offered>>
  BY <1>13 DEF OfferDeferred, signalVars
<1>14. ASSUME NEW x \in Pcs, ViewerDisconnects(x) \/ OnViewerStateChange(x) \/
              ClosePc(x)
      PROVE  UNCHANGED <<ice, iceReady, offered>>
  BY <1>14 DEF ViewerDisconnects, OnViewerStateChange, ClosePc, signalVars
<1>15. CASE UNCHANGED <<ice, iceReady, offered>>
  BY <1>15, <1>a
<1> QED
  BY <1>1, <1>2, <1>3, <1>4, <1>5, <1>6, <1>7, <1>8, <1>9, <1>10, <1>11, <1>12,
     <1>13, <1>14, <1>15 DEF vars, Next, HandleScreenViewer,
     HandleScreenPublisher, AddViewer, SendOfferToViewer, Pion, signalVars

\* The publisher's candidates wait for its first answer.
LEMMA PubIceStep ==
  TypeOK /\ TypeOK' /\ AnswerInv /\ PubIceInv /\ [Next]_vars => PubIceInv'
<1> SUFFICES ASSUME TypeOK, TypeOK', AnswerInv, PubIceInv, [Next]_vars
             PROVE  PubIceInv'
  OBVIOUS
<1> USE DEF PubIceInv, AnswerInv
<1>1. CASE HandlePublisherOffer
  BY <1>1 DEF HandlePublisherOffer
<1>2. CASE SendAnswer
  BY <1>2 DEF SendAnswer
<1>3. CASE FlushPublisherICE
  <2>1. /\ UNCHANGED answered /\ pub = "sent"
        /\ pubIce' = [r \in Rounds |-> IF pubIce[r] = "pending" THEN "delivered"
                                       ELSE pubIce[r]]
    BY <1>3 DEF FlushPublisherICE
  <2>2. round \in Nat
    BY ScreenSFUAssumption DEF ScreenSFUAssumption, TypeOK
  <2>3. 1 \in answered
    BY <2>1, <2>2
  <2> QED
    BY <2>1, <2>3
<1>4. ASSUME NEW r \in Rounds, OnPublisherICECandidate(r) PROVE PubIceInv'
  BY <1>4 DEF OnPublisherICECandidate
<1>5. ASSUME NEW v \in Viewers, RegisterScreenViewer(v) \/ ReadMode(v) \/
              AddSFUViewer(v) \/ RemoveScreenViewer(v) \/ LeaveSFU(v) \/
              SetupNext(v)
      PROVE  UNCHANGED <<pubIce, ready, answered>>
  BY <1>5 DEF RegisterScreenViewer, ReadMode, AddSFUViewer, RemoveScreenViewer,
     LeaveSFU, SetupNext, answerVars
<1>6. ASSUME Hello \/ EnsureScreenSFU \/ SetupAllSFUViewers \/ PublisherOffers
              \/ HandlePublisherOfferFails \/ DropSFU \/ CollectSFU
      PROVE  UNCHANGED <<pubIce, ready, answered>>
  BY <1>6 DEF Hello, EnsureScreenSFU, SetupAllSFUViewers, PublisherOffers,
     HandlePublisherOfferFails, DropSFU, CollectSFU, answerVars
<1>7. ASSUME Close
      PROVE  UNCHANGED <<pubIce, ready, answered>>
  BY <1>7 DEF Close, answerVars
<1>8. ASSUME NEW a \in Adders, AddViewerCheck(a) \/ AddViewerFails(a) \/
              AddViewerClosed(a) \/ WireViewer(a) \/ MarkViewer(a)
      PROVE  UNCHANGED <<pubIce, ready, answered>>
  BY <1>8 DEF AddViewerCheck, AddViewerFails, AddViewerClosed, WireViewer,
     MarkViewer, answerVars
<1>9. ASSUME NEW a \in Adders, NEW x \in Pcs, AddViewerInsert(a, x)
      PROVE  UNCHANGED <<pubIce, ready, answered>>
  BY <1>9 DEF AddViewerInsert, Insert, answerVars
<1>10. ASSUME NEW t \in Threads, DescribeOffer(t) \/ DescribeOfferFails(t) \/
              SendOffer(t) \/ FlushViewerICE(t)
      PROVE  UNCHANGED <<pubIce, ready, answered>>
  BY <1>10 DEF DescribeOffer, DescribeOfferFails, SendOffer, FlushViewerICE,
     answerVars
<1>11. ASSUME NEW k \in Tracks, OnPublisherTrack(k)
      PROVE  UNCHANGED <<pubIce, ready, answered>>
  BY <1>11 DEF OnPublisherTrack, answerVars
<1>12. ASSUME NEW k \in Tracks, NEW x \in Pcs, OfferDeferred(k, x)
      PROVE  UNCHANGED <<pubIce, ready, answered>>
  BY <1>12 DEF OfferDeferred, answerVars
<1>13. ASSUME NEW x \in Pcs, OnViewerICECandidate(x) \/ ViewerDisconnects(x) \/
              OnViewerStateChange(x) \/ ClosePc(x)
      PROVE  UNCHANGED <<pubIce, ready, answered>>
  BY <1>13 DEF OnViewerICECandidate, ViewerDisconnects, OnViewerStateChange,
     ClosePc, answerVars
<1>14. CASE UNCHANGED <<pubIce, ready, answered>>
  BY <1>14
<1> QED
  BY <1>1, <1>2, <1>3, <1>4, <1>5, <1>6, <1>7, <1>8, <1>9, <1>10, <1>11, <1>12,
     <1>13, <1>14 DEF vars, Next, HandleScreenViewer, HandleScreenPublisher,
     AddViewer, SendOfferToViewer, Pion, answerVars

\* Whoever marks a pc or finds it without a mark offers it.
LEMMA PlannedStep ==
  TypeOK /\ TypeOK' /\ ObjInv /\ OfferInv /\ [Next]_vars =>
    (\A z \in Pcs : PlannedOf(z))'
<1> SUFFICES ASSUME TypeOK, TypeOK', ObjInv, OfferInv, [Next]_vars
             PROVE  (\A z \in Pcs : PlannedOf(z))'
  OBVIOUS
<1> SUFFICES ASSUME NEW z \in Pcs PROVE PlannedOf(z)'
  OBVIOUS
<1>a. PlannedOf(z)
  BY DEF OfferInv
<1> USE DEF TypeOK, PlannedOf, Plan, JobPlan
<1>1. ASSUME NEW v \in Viewers, AddSFUViewer(v) PROVE PlannedOf(z)'
  <2> HIDE DEF TypeOK, PlannedOf, JobPlan
  <2>1. QuietJob(z)
    BY <1>1, QuietJobs
  <2> QED
    BY <1>a, <2>1 DEF PlannedOf, QuietJob
<1>2. ASSUME NEW v \in Viewers, LeaveSFU(v) PROVE PlannedOf(z)'
  <2> HIDE DEF TypeOK, PlannedOf, Plan, JobPlan, ObjInv
  <2>1. UNCHANGED <<localTrack, offerSent, offered, job, deferred, offering>>
    BY <1>2 DEF LeaveSFU, signalVars, offerVars
  <2>2. \A w \in Viewers : viewers'[w] \in {viewers[w], None}
    BY <1>2, RemoveViewerFacts DEF LeaveSFU
  <2>3. \A u \in Threads : Plan(u, z)' <=> Plan(u, z)
    BY <2>1 DEF Plan, JobPlan
  <2>4. z # None
    BY ScreenSFUAssumption DEF ScreenSFUAssumption
  <2> QED
    BY <1>a, <2>1, <2>2, <2>3, <2>4 DEF PlannedOf
<1>3. ASSUME NEW v \in Viewers, SetupNext(v) PROVE PlannedOf(z)'
  <2> HIDE DEF TypeOK, PlannedOf, JobPlan
  <2>1. QuietJob(z)
    BY <1>3, QuietJobs
  <2> QED
    BY <1>a, <2>1 DEF PlannedOf, QuietJob
<1>4. ASSUME NEW a \in Adders, AddViewerCheck(a) PROVE PlannedOf(z)'
  <2> HIDE DEF TypeOK, PlannedOf, JobPlan
  <2>1. QuietJob(z)
    BY <1>4, QuietJobs
  <2> QED
    BY <1>a, <2>1 DEF PlannedOf, QuietJob
<1>5. ASSUME NEW a \in Adders, AddViewerFails(a) PROVE PlannedOf(z)'
  <2> HIDE DEF TypeOK, PlannedOf, JobPlan
  <2>1. QuietJob(z)
    BY <1>5, QuietJobs
  <2> QED
    BY <1>a, <2>1 DEF PlannedOf, QuietJob
<1>6. ASSUME NEW a \in Adders, AddViewerClosed(a) PROVE PlannedOf(z)'
  <2> HIDE DEF TypeOK, PlannedOf, JobPlan
  <2>1. QuietJob(z)
    BY <1>6, QuietJobs
  <2> QED
    BY <1>a, <2>1 DEF PlannedOf, QuietJob
<1>7. ASSUME NEW a \in Adders, NEW x \in Pcs, AddViewerInsert(a, x)
      PROVE  PlannedOf(z)'
  <2> HIDE DEF TypeOK, PlannedOf, Plan, JobPlan
  <2>1. /\ z # x => \A t \in Threads : Plan(t, z)' <=> Plan(t, z)
        /\ \A t \in Threads : Plan(t, x)' <=> t = a /\ localTrack # 0
        /\ x \notin offerSent /\ a \in Threads
    BY <1>7, InsertPlans DEF Threads
  <2>2. /\ UNCHANGED <<localTrack, offered, offerSent>>
        /\ \A w \in Viewers : viewers'[w] \in {viewers[w], x}
    BY <1>7, InsertFacts DEF signalVars, TypeOK
  <2> QED
    BY <1>a, <2>1, <2>2 DEF PlannedOf
<1>8. ASSUME NEW a \in Adders, WireViewer(a) PROVE PlannedOf(z)'
  <2> HIDE DEF TypeOK, PlannedOf, JobPlan
  <2>1. QuietJob(z)
    BY <1>8, QuietJobs
  <2> QED
    BY <1>a, <2>1 DEF PlannedOf, QuietJob
<1>9. ASSUME NEW a \in Adders, MarkViewer(a) PROVE PlannedOf(z)'
  <2> HIDE DEF TypeOK, PlannedOf, Plan, JobPlan
  <2>1. \A t \in Threads : Plan(t, z)' <=> Plan(t, z)
    BY <1>9, MarkViewerPlans
  <2>2. /\ UNCHANGED <<viewers, localTrack, offered>>
        /\ offerSent' = offerSent \cup {job[a].pc}
    BY <1>9 DEF MarkViewer, sfuVars
  <2>3. z = job[a].pc => \E t \in Threads : Plan(t, z)
    BY <1>9, MarkViewerPlans DEF Plan, Threads
  <2> QED
    BY <1>a, <2>1, <2>2, <2>3 DEF PlannedOf
<1>10. ASSUME NEW t \in Threads, DescribeOfferFails(t) PROVE PlannedOf(z)'
  <2> HIDE DEF TypeOK, PlannedOf, Plan, JobPlan, ObjInv
  <2>1. /\ Finish(t) /\ RemoveViewer(conn[offering[t]])
        /\ UNCHANGED <<localTrack, offered, offerSent, job, deferred>>
    BY <1>10 DEF DescribeOfferFails, signalVars
  <2>2. conn[offering[t]] \in Viewers
    BY <1>10 DEF DescribeOfferFails, ObjInv, ThreadOf, MadeOf, TypeOK
  <2>3. /\ viewers'[conn[offering[t]]] = None
        /\ \A w \in Viewers \ {conn[offering[t]]} : viewers'[w] = viewers[w]
    BY <2>1, <2>2, RemoveViewerFacts
  <2>4. CASE offering[t] = z
    <3>1. \A w \in Viewers : viewers[w] = z => w = conn[z]
      BY ScreenSFUAssumption DEF ScreenSFUAssumption, ObjInv, MapOf
    <3>2. ~ \E w \in Viewers : viewers'[w] = z
      BY <2>3, <2>4, <3>1, ScreenSFUAssumption DEF ScreenSFUAssumption
    <3> QED
      BY <3>2 DEF PlannedOf
  <2>5. CASE offering[t] # z
    <3>1. \A u \in Threads : Plan(u, z) => Plan(u, z)'
      BY <2>1, <2>5, FinishPlans
    <3>2. \A w \in Viewers : viewers'[w] \in {viewers[w], None}
      BY <2>3
    <3>3. z # None
      BY ScreenSFUAssumption DEF ScreenSFUAssumption
    <3> QED
      BY <1>a, <2>1, <3>1, <3>2, <3>3 DEF PlannedOf
  <2> QED
    BY <2>4, <2>5
<1>11. ASSUME NEW t \in Threads, SendOffer(t) PROVE PlannedOf(z)'
  BY <1>11, <1>a DEF SendOffer, sfuVars
<1>12. ASSUME NEW t \in Threads, FlushViewerICE(t) PROVE PlannedOf(z)'
  <2> HIDE DEF TypeOK, PlannedOf, Plan, JobPlan, ObjInv
  <2>1. /\ Finish(t) /\ offering[t] \in offered
        /\ UNCHANGED <<viewers, localTrack, offered, offerSent, job, deferred>>
    BY <1>12 DEF FlushViewerICE, ObjInv, ThreadOf, sfuVars
  <2>2. \A u \in Threads : Plan(u, z) /\ offering[t] # z => Plan(u, z)'
    BY <2>1, FinishPlans
  <2> QED
    BY <1>a, <2>1, <2>2 DEF PlannedOf
<1>13. ASSUME NEW k \in Tracks, OnPublisherTrack(k) PROVE PlannedOf(z)'
  <2> HIDE DEF TypeOK, PlannedOf, Plan, JobPlan, ObjInv
  <2>1. /\ UNCHANGED <<viewers, offered>> /\ k \in Threads
        /\ \A t \in Threads :
             Plan(t, z)' <=> Plan(t, z) \/ (t = k /\ z \in Registered \ offerSent)
    BY <1>13, TrackPlans DEF Threads
  <2>2. \A w \in Viewers : viewers[w] = z => z \in Registered
    BY ScreenSFUAssumption DEF ScreenSFUAssumption, Registered
  <2>3. CASE z \in offerSent
    <3>1. \A t \in Threads : Plan(t, z) => Plan(t, z)'
      BY <2>1
    <3>2. (\E w \in Viewers : viewers[w] = z) =>
            z \in offered \/ \E t \in Threads : Plan(t, z)
      BY <1>a, <2>3 DEF PlannedOf
    <3> QED
      BY <2>1, <3>1, <3>2 DEF PlannedOf
  <2>4. CASE z \in Registered \ offerSent
    <3>1. Plan(k, z)'
      BY <2>1, <2>4
    <3> QED
      BY <2>1, <3>1 DEF PlannedOf
  <2>5. CASE z \notin Registered
    BY <2>1, <2>2, <2>5 DEF PlannedOf
  <2> QED
    BY <2>3, <2>4, <2>5
<1>14. ASSUME NEW k \in Tracks, NEW x \in Pcs, OfferDeferred(k, x)
      PROVE  PlannedOf(z)'
  <2> HIDE DEF TypeOK, PlannedOf, Plan, JobPlan
  <2>1. \A t \in Threads : Plan(t, z)' <=> Plan(t, z)
    BY <1>14, OfferDeferredPlans
  <2>2. UNCHANGED <<viewers, localTrack, offered, offerSent>>
    BY <1>14 DEF OfferDeferred, sfuVars, signalVars
  <2> QED
    BY <1>a, <2>1, <2>2 DEF PlannedOf
<1>15. ASSUME NEW x \in Pcs, OnViewerStateChange(x) PROVE PlannedOf(z)'
  <2> HIDE DEF TypeOK, PlannedOf, Plan, JobPlan, ObjInv
  <2>1. UNCHANGED <<localTrack, offerSent, offered, job, deferred, offering>>
    BY <1>15 DEF OnViewerStateChange, signalVars, offerVars
  <2>2. \A w \in Viewers : viewers'[w] \in {viewers[w], None}
    <3>1. conn[x] \in Viewers /\ RemoveViewer(conn[x])
      BY <1>15 DEF OnViewerStateChange, ObjInv, MadeOf
    <3> QED
      BY <3>1, RemoveViewerFacts
  <2>3. \A u \in Threads : Plan(u, z)' <=> Plan(u, z)
    BY <2>1 DEF Plan, JobPlan
  <2>4. z # None
    BY ScreenSFUAssumption DEF ScreenSFUAssumption
  <2> QED
    BY <1>a, <2>1, <2>2, <2>3, <2>4 DEF PlannedOf
<1>16. CASE Close
  <2> HIDE DEF TypeOK, PlannedOf, Plan, JobPlan, ObjInv
  <2>1. UNCHANGED <<localTrack, offerSent, offered, job, deferred, offering>>
    BY <1>16 DEF Close, signalVars, offerVars
  <2>2. \A w \in Viewers : viewers'[w] \in {viewers[w], None}
    BY <1>16 DEF Close
  <2>3. \A u \in Threads : Plan(u, z)' <=> Plan(u, z)
    BY <2>1 DEF Plan, JobPlan
  <2>4. z # None
    BY ScreenSFUAssumption DEF ScreenSFUAssumption
  <2> QED
    BY <1>a, <2>1, <2>2, <2>3, <2>4 DEF PlannedOf
<1>17. ASSUME NEW v \in Viewers, RegisterScreenViewer(v) \/ ReadMode(v) \/
              RemoveScreenViewer(v)
      PROVE  UNCHANGED <<viewers, localTrack, offerSent, offered, job,
                         deferred, offering>>
  BY <1>17 DEF RegisterScreenViewer, ReadMode, RemoveScreenViewer, sfuVars,
     signalVars, offerVars
<1>18. ASSUME Hello \/ EnsureScreenSFU \/ SetupAllSFUViewers \/ PublisherOffers
              \/ HandlePublisherOffer \/ HandlePublisherOfferFails
      PROVE  UNCHANGED <<viewers, localTrack, offerSent, offered, job,
                         deferred, offering>>
  BY <1>18 DEF Hello, EnsureScreenSFU, SetupAllSFUViewers, PublisherOffers,
     HandlePublisherOffer, HandlePublisherOfferFails, sfuVars, signalVars,
     offerVars
<1>19. ASSUME SendAnswer \/ FlushPublisherICE \/ DropSFU \/ CollectSFU
      PROVE  UNCHANGED <<viewers, localTrack, offerSent, offered, job,
                         deferred, offering>>
  BY <1>19 DEF SendAnswer, FlushPublisherICE, DropSFU, CollectSFU,
     sfuVars, signalVars,
     offerVars
<1>20. ASSUME NEW r \in Rounds, OnPublisherICECandidate(r)
      PROVE  UNCHANGED <<viewers, localTrack, offerSent, offered, job,
                         deferred, offering>>
  BY <1>20 DEF OnPublisherICECandidate, sfuVars, signalVars, offerVars
<1>21. ASSUME NEW t \in Threads, DescribeOffer(t)
      PROVE  UNCHANGED <<viewers, localTrack, offerSent, offered, job,
                         deferred, offering>>
  BY <1>21 DEF DescribeOffer, sfuVars
<1>22. ASSUME NEW x \in Pcs, OnViewerICECandidate(x) \/ ViewerDisconnects(x) \/
              ClosePc(x)
      PROVE  UNCHANGED <<viewers, localTrack, offerSent, offered, job,
                         deferred, offering>>
  BY <1>22 DEF OnViewerICECandidate, ViewerDisconnects, ClosePc, sfuVars,
     signalVars, offerVars
<1>23. CASE UNCHANGED <<viewers, localTrack, offerSent, offered, job, deferred,
                        offering>>
  BY <1>23, <1>a
<1> QED
  BY <1>1, <1>2, <1>3, <1>4, <1>5, <1>6, <1>7, <1>8, <1>9, <1>10, <1>11, <1>12,
     <1>13, <1>14, <1>15, <1>16, <1>17, <1>18, <1>19, <1>20, <1>21, <1>22,
     <1>23 DEF vars, Next, HandleScreenViewer, HandleScreenPublisher,
     AddViewer, SendOfferToViewer, Pion, sfuVars, signalVars, offerVars

\* While there is one track, nobody else does.
LEMMA OnceStep ==
  TypeOK /\ TypeOK' /\ ObjInv /\ OfferInv /\ [Next]_vars =>
    (\A z \in Pcs : OnceOf(z))'
<1> SUFFICES ASSUME TypeOK, TypeOK', ObjInv, OfferInv, [Next]_vars
             PROVE  (\A z \in Pcs : OnceOf(z))'
  OBVIOUS
<1> SUFFICES ASSUME NEW z \in Pcs PROVE OnceOf(z)'
  OBVIOUS
<1>a. OnceOf(z)
  BY DEF OfferInv
<1> USE DEF TypeOK, OnceOf, Plan, JobPlan
<1>1. ASSUME NEW v \in Viewers, AddSFUViewer(v) PROVE OnceOf(z)'
  <2> HIDE DEF TypeOK, OnceOf, JobPlan
  <2>1. QuietJob(z)
    BY <1>1, QuietJobs
  <2> QED
    BY <1>a, <2>1 DEF OnceOf, QuietJob
<1>2. ASSUME NEW v \in Viewers, SetupNext(v) PROVE OnceOf(z)'
  <2> HIDE DEF TypeOK, OnceOf, JobPlan
  <2>1. QuietJob(z)
    BY <1>2, QuietJobs
  <2> QED
    BY <1>a, <2>1 DEF OnceOf, QuietJob
<1>3. ASSUME NEW a \in Adders, AddViewerCheck(a) PROVE OnceOf(z)'
  <2> HIDE DEF TypeOK, OnceOf, JobPlan
  <2>1. QuietJob(z)
    BY <1>3, QuietJobs
  <2> QED
    BY <1>a, <2>1 DEF OnceOf, QuietJob
<1>4. ASSUME NEW a \in Adders, AddViewerFails(a) PROVE OnceOf(z)'
  <2> HIDE DEF TypeOK, OnceOf, JobPlan
  <2>1. QuietJob(z)
    BY <1>4, QuietJobs
  <2> QED
    BY <1>a, <2>1 DEF OnceOf, QuietJob
<1>5. ASSUME NEW a \in Adders, AddViewerClosed(a) PROVE OnceOf(z)'
  <2> HIDE DEF TypeOK, OnceOf, JobPlan
  <2>1. QuietJob(z)
    BY <1>5, QuietJobs
  <2> QED
    BY <1>a, <2>1 DEF OnceOf, QuietJob
<1>6. ASSUME NEW a \in Adders, NEW x \in Pcs, AddViewerInsert(a, x)
      PROVE  OnceOf(z)'
  <2> HIDE DEF TypeOK, OnceOf, Plan, JobPlan
  <2>1. /\ z # x => \A t \in Threads : Plan(t, z)' <=> Plan(t, z)
        /\ \A t \in Threads : Plan(t, x)' <=> t = a /\ localTrack # 0
        /\ x \notin offered /\ \A k \in Tracks : x \notin deferred[k]
    BY <1>6, InsertPlans
  <2>2. UNCHANGED <<localTrack, offered, deferred, offering, progress>>
    BY <1>6, InsertFacts DEF signalVars, offerVars
  <2> QED
    BY <1>a, <2>1, <2>2 DEF OnceOf
<1>7. ASSUME NEW a \in Adders, WireViewer(a) PROVE OnceOf(z)'
  <2> HIDE DEF TypeOK, OnceOf, JobPlan
  <2>1. QuietJob(z)
    BY <1>7, QuietJobs
  <2> QED
    BY <1>a, <2>1 DEF OnceOf, QuietJob
<1>8. ASSUME NEW a \in Adders, MarkViewer(a) PROVE OnceOf(z)'
  <2> HIDE DEF TypeOK, OnceOf, Plan, JobPlan
  <2>0. a \notin Tracks /\ a \in Threads /\ z # None
    BY ScreenSFUAssumption DEF ScreenSFUAssumption, Tracks, Adders, Threads
  <2>1. \A t \in Threads : Plan(t, z)' <=> Plan(t, z)
    BY <1>8, MarkViewerPlans
  <2>2. /\ offering[a] = None /\ JobPlan(a, job[a].pc)
        /\ \A t \in Threads \ {a} : offering'[t] = offering[t]
    BY <1>8, MarkViewerPlans
  <2>3. /\ UNCHANGED <<localTrack, offered, deferred>>
        /\ \A t \in Threads \ {a} : progress'[t] = progress[t]
    BY <1>8 DEF MarkViewer, sfuVars, TypeOK
  <2>4. \A k \in Tracks : k \in Threads \ {a}
    BY <2>0 DEF Threads
  <2> QED
    BY <1>a, <2>0, <2>1, <2>2, <2>3, <2>4 DEF OnceOf
<1>9. ASSUME NEW t \in Threads, DescribeOffer(t) PROVE OnceOf(z)'
  BY <1>9, <1>a DEF DescribeOffer, sfuVars
<1>10. ASSUME NEW t \in Threads, DescribeOfferFails(t) PROVE OnceOf(z)'
  <2> HIDE DEF TypeOK, OnceOf, Plan, JobPlan, ObjInv
  <2>1. Finish(t) /\ UNCHANGED <<localTrack, offered, job, deferred>>
    BY <1>10 DEF DescribeOfferFails, sfuVars, signalVars
  <2>2. /\ \A u \in Threads : Plan(u, z)' => Plan(u, z)
        /\ offering'[t] = None
        /\ \A u \in Threads \ {t} :
             offering'[u] = offering[u] /\ progress'[u] = progress[u]
    BY <2>1, FinishPlans
  <2>3. z # None /\ \A k \in Tracks : k \in Threads
    BY ScreenSFUAssumption DEF ScreenSFUAssumption, Threads
  <2>4. CASE offering[t] = z
    <3>1. Plan(t, z)
      BY <2>4 DEF Plan
    <3>2. ASSUME localTrack < 2 PROVE \A u \in Threads : ~Plan(u, z)'
      <4>1. \A u \in Threads \ {t} : ~Plan(u, z)
        BY <1>a, <3>1, <3>2 DEF OnceOf
      <4>2. ~Plan(t, z)'
        <5>1. t \in Tracks => z \notin deferred[t]
          BY <1>a, <2>4, <3>2 DEF OnceOf
        <5>2. t \in Adders => job[t] = Idle
          BY <2>3, <2>4 DEF ObjInv, JobOf
        <5> QED
          BY <2>1, <2>2, <2>3, <5>1, <5>2, IdleIsJob DEF Plan, JobPlan
      <4> QED
        BY <2>2, <4>1, <4>2
    <3>3. ASSUME localTrack < 2, NEW k \in Tracks PROVE z \notin deferred'[k]
      BY <2>3, <3>2, <3>3 DEF Plan
    <3>4. localTrack = 0 => z \notin offered
      BY <1>a DEF OnceOf
    <3>5. localTrack = 0 => localTrack < 2
      OBVIOUS
    <3> QED
      BY <2>1, <3>2, <3>3, <3>4, <3>5 DEF OnceOf
  <2>5. CASE offering[t] # z
    BY <1>a, <2>1, <2>2, <2>3, <2>5 DEF OnceOf
  <2> QED
    BY <2>4, <2>5
<1>11. ASSUME NEW t \in Threads, SendOffer(t) PROVE OnceOf(z)'
  BY <1>11, <1>a DEF SendOffer, sfuVars
<1>12. ASSUME NEW t \in Threads, FlushViewerICE(t) PROVE OnceOf(z)'
  <2> HIDE DEF TypeOK, OnceOf, Plan, JobPlan, ObjInv
  <2>1. Finish(t) /\ UNCHANGED <<localTrack, offered, job, deferred>>
    BY <1>12 DEF FlushViewerICE, sfuVars, signalVars
  <2>2. /\ \A u \in Threads : Plan(u, z)' => Plan(u, z)
        /\ offering'[t] = None
        /\ \A u \in Threads \ {t} :
             offering'[u] = offering[u] /\ progress'[u] = progress[u]
    BY <2>1, FinishPlans
  <2>3. z # None /\ \A k \in Tracks : k \in Threads
    BY ScreenSFUAssumption DEF ScreenSFUAssumption, Threads
  <2>4. CASE offering[t] = z
    <3>1. Plan(t, z)
      BY <2>4 DEF Plan
    <3>2. ASSUME localTrack < 2 PROVE \A u \in Threads : ~Plan(u, z)'
      <4>1. \A u \in Threads \ {t} : ~Plan(u, z)
        BY <1>a, <3>1, <3>2 DEF OnceOf
      <4>2. ~Plan(t, z)'
        <5>1. t \in Tracks => z \notin deferred[t]
          BY <1>a, <2>4, <3>2 DEF OnceOf
        <5>2. t \in Adders => job[t] = Idle
          BY <2>3, <2>4 DEF ObjInv, JobOf
        <5> QED
          BY <2>1, <2>2, <2>3, <5>1, <5>2, IdleIsJob DEF Plan, JobPlan
      <4> QED
        BY <2>2, <4>1, <4>2
    <3>3. ASSUME localTrack < 2, NEW k \in Tracks PROVE z \notin deferred'[k]
      BY <2>3, <3>2, <3>3 DEF Plan
    <3>4. localTrack = 0 => z \notin offered
      BY <1>a DEF OnceOf
    <3>5. localTrack = 0 => localTrack < 2
      OBVIOUS
    <3> QED
      BY <2>1, <3>2, <3>3, <3>4, <3>5 DEF OnceOf
  <2>5. CASE offering[t] # z
    BY <1>a, <2>1, <2>2, <2>3, <2>5 DEF OnceOf
  <2> QED
    BY <2>4, <2>5
<1>13. ASSUME NEW k \in Tracks, OnPublisherTrack(k) PROVE OnceOf(z)'
  <2> HIDE DEF TypeOK, OnceOf, Plan, JobPlan, ObjInv
  <2>1. /\ UNCHANGED <<offered, offering, progress>> /\ k \in Threads /\ z # None
        /\ localTrack' = localTrack + 1 /\ localTrack \in Nat
    BY <1>13, TrackPlans, ScreenSFUAssumption DEF ScreenSFUAssumption, Threads
  <2>2. \A t \in Threads : Plan(t, z)' => Plan(t, z) \/ t = k
    BY <1>13, TrackPlans
  <2>3. /\ offering[k] = None /\ deferred[k] = {}
        /\ \A l \in Tracks \ {k} : deferred'[l] = deferred[l]
    BY <1>13, TrackPlans
  <2>4. CASE localTrack # 0
    BY <2>1, <2>4 DEF OnceOf
  <2>5. CASE localTrack = 0
    <3>1. z \notin offered /\ \A t \in Threads : ~Plan(t, z)
      BY <1>a, <2>5 DEF OnceOf
    <3>2. \A l \in Tracks : z \in deferred'[l] => offering'[l] # z
      BY <1>a, <2>1, <2>3, <2>5 DEF OnceOf
    <3> QED
      BY <2>1, <2>2, <2>5, <3>1, <3>2 DEF OnceOf
  <2> QED
    BY <2>4, <2>5
<1>14. ASSUME NEW k \in Tracks, NEW x \in Pcs, OfferDeferred(k, x)
      PROVE  OnceOf(z)'
  <2> HIDE DEF TypeOK, OnceOf, Plan, JobPlan
  <2>0. k \in Threads /\ z # None /\ \A l \in Tracks : l \in Threads
    BY ScreenSFUAssumption DEF ScreenSFUAssumption, Threads
  <2>1. \A t \in Threads : Plan(t, z)' <=> Plan(t, z)
    BY <1>14, OfferDeferredPlans
  <2>2. /\ offering[k] = None /\ offering'[k] = x
        /\ x \notin deferred'[k] /\ \A l \in Tracks : deferred'[l] \subseteq deferred[l]
        /\ \A t \in Threads \ {k} : offering'[t] = offering[t]
    BY <1>14, OfferDeferredPlans
  <2>3. /\ UNCHANGED <<localTrack, offered>>
        /\ \A t \in Threads \ {k} : progress'[t] = progress[t]
    BY <1>14 DEF OfferDeferred, sfuVars, signalVars, TypeOK
  <2> QED
    BY <1>a, <2>0, <2>1, <2>2, <2>3 DEF OnceOf
<1>15. ASSUME NEW v \in Viewers, RegisterScreenViewer(v) \/ ReadMode(v) \/
              RemoveScreenViewer(v) \/ LeaveSFU(v)
      PROVE  UNCHANGED <<offerVars, localTrack, job, offered>>
  BY <1>15 DEF RegisterScreenViewer, ReadMode, RemoveScreenViewer, LeaveSFU,
     sfuVars, signalVars
<1>16. ASSUME Hello \/ EnsureScreenSFU \/ SetupAllSFUViewers \/ PublisherOffers
              \/ HandlePublisherOffer \/ HandlePublisherOfferFails
      PROVE  UNCHANGED <<offerVars, localTrack, job, offered>>
  BY <1>16 DEF Hello, EnsureScreenSFU, SetupAllSFUViewers, PublisherOffers,
     HandlePublisherOffer, HandlePublisherOfferFails, sfuVars, signalVars
<1>17. ASSUME SendAnswer \/ FlushPublisherICE \/ DropSFU \/ CollectSFU \/ Close
      PROVE  UNCHANGED <<offerVars, localTrack, job, offered>>
  BY <1>17 DEF SendAnswer, FlushPublisherICE, DropSFU, CollectSFU, Close, sfuVars,
     signalVars
<1>18. ASSUME NEW r \in Rounds, OnPublisherICECandidate(r)
      PROVE  UNCHANGED <<offerVars, localTrack, job, offered>>
  BY <1>18 DEF OnPublisherICECandidate, sfuVars, signalVars
<1>19. ASSUME NEW x \in Pcs, OnViewerICECandidate(x) \/ ViewerDisconnects(x) \/
              OnViewerStateChange(x) \/ ClosePc(x)
      PROVE  UNCHANGED <<offerVars, localTrack, job, offered>>
  BY <1>19 DEF OnViewerICECandidate, ViewerDisconnects, OnViewerStateChange,
     ClosePc, sfuVars, signalVars
<1>20. CASE UNCHANGED <<offerVars, localTrack, job, offered>>
  BY <1>20, <1>a DEF offerVars
<1> QED
  BY <1>1, <1>2, <1>3, <1>4, <1>5, <1>6, <1>7, <1>8, <1>9, <1>10, <1>11, <1>12,
     <1>13, <1>14, <1>15, <1>16, <1>17, <1>18, <1>19, <1>20 DEF vars, Next,
     HandleScreenViewer, HandleScreenPublisher, AddViewer, SendOfferToViewer,
     Pion, sfuVars, signalVars

\* The invariant holds in every state.
THEOREM Invariance == Spec => []IInv
<1>1. IInv /\ [Next]_vars => IInv'
  <2> SUFFICES ASSUME IInv, [Next]_vars PROVE IInv'
    OBVIOUS
  <2>a. /\ TypeOK /\ ObjInv /\ AnswerInv /\ LifeInv /\ OfferInv
        /\ LeaverReleased /\ PubIceInv
    BY DEF IInv
  <2>b. /\ \A x \in Pcs : StrayOf(x)
        /\ \A x \in Pcs : IceOf(x)
        /\ \A v \in Viewers : WatchOf(v)
    BY DEF IInv
  <2>1. TypeOK'
    BY <2>a, TypeStep
  <2>2. ObjInv'
    <3>1. /\ (\A x \in Pcs : MadeOf(x))'
          /\ (\A v \in Viewers : MapOf(v))'
      BY <2>a, <2>1, MadeStep, MapStep
    <3>2. (\A v \in Viewers : HandlerOf(v))'
      BY <2>a, <2>1, HandlerStep
    <3>3. (\A a \in Adders : JobOf(a))'
      BY <2>a, <2>1, JobStep
    <3>4. (\A t \in Threads : ThreadOf(t))'
      BY <2>a, <2>1, ThreadStep
    <3>5. (\A k \in Tracks : TrackOf(k))'
      BY <2>a, <2>1, TrackStep
    <3>6. (pub # "reading" => batch = {} /\ Free(Publisher))'
      BY <2>a, <2>1, BusyStep
    <3> QED
      BY <3>1, <3>2, <3>3, <3>4, <3>5, <3>6 DEF ObjInv
  <2>3. AnswerInv' /\ PubIceInv'
    BY <2>a, <2>1, AnswerStep, PubIceStep
  <2>4. LifeInv'
    BY <2>a, <2>1, LifeStep
  <2>5. (\A x \in Pcs : StrayOf(x))'
    BY <2>a, <2>b, <2>1, StrayStep
  <2>6. (\A x \in Pcs : IceOf(x))'
    BY <2>a, <2>b, <2>1, IceStep
  <2>7. OfferInv'
    <3>1. (\A x \in Pcs : PlannedOf(x))'
      BY <2>a, <2>1, PlannedStep
    <3>2. (\A x \in Pcs : OnceOf(x))'
      BY <2>a, <2>1, OnceStep
    <3> QED
      BY <3>1, <3>2 DEF OfferInv
  <2>8. (\A v \in Viewers : WatchOf(v))'
    BY <2>a, <2>b, <2>1, WatchStep
  <2>9. LeaverReleased'
    BY <2>a, <2>1, LeaverStep
  <2> QED
    BY <2>1, <2>2, <2>3, <2>4, <2>5, <2>6, <2>7, <2>8, <2>9 DEF IInv
<1> QED
  BY InitIInv, <1>1, PTL DEF Spec

\* Every variable has its type: what a job holds, and that round stays below
\* MaxOffers from the offer to its answer, come with the rest of IInv.
THEOREM TypeCorrect == Spec => []TypeOK
<1>1. IInv => TypeOK
  BY DEF IInv
<1> QED
  BY <1>1, Invariance, PTL

\* No open PeerConnection of a viewer is forgotten, and nobody is in the map of
\* a closed SFU (sfu.go AddViewer, RemoveViewer, Close).
THEOREM NoViewerAstray == Spec => []NoStrayViewer
<1>1. IInv => NoStrayViewer
  <2> SUFFICES ASSUME IInv PROVE NoStrayViewer
    OBVIOUS
  <2>1. \A x \in Pcs : StrayOf(x)
    BY DEF IInv
  <2>2. \A x \in Pcs :
          state[x] = "open" => x \in Registered \cup doomed \cup overwritten
    BY <2>1, ScreenSFUAssumption DEF ScreenSFUAssumption, StrayOf, Registered
  <2>3. closed => Registered = {}
    BY DEF IInv, LifeInv, Registered
  <2> QED
    BY <2>2, <2>3 DEF NoStrayViewer
<1> QED
  BY <1>1, Invariance, PTL

\* What is in Plans(x) is what Plan says.
LEMMA PlansArePlans ==
  ASSUME TypeOK, NEW x \in Pcs
  PROVE  Plans(x) = {t \in Threads : Plan(t, x)}
<1>1. \A t : t \in Plans(x) => t \in Threads /\ Plan(t, x)
  BY DEF Plans, Plan, JobPlan, Threads
<1>2. \A t \in Threads : Plan(t, x) => t \in Plans(x)
  BY DEF Plans, Plan, JobPlan
<1> QED
  BY <1>1, <1>2

\* A set without two members has at most one.
LEMMA AtMostOne ==
  ASSUME NEW S, \A t, u \in S : t = u
  PROVE  Cardinality(S) <= 1
<1>1. CASE S = {}
  BY <1>1, FS_EmptySet
<1>2. CASE S # {}
  <2>1. PICK t \in S : TRUE
    BY <1>2
  <2>2. S = {t}
    BY <2>1
  <2>3. Cardinality(S) = 1
    BY <2>2, FS_Singleton
  <2> QED
    BY <2>3
<1> QED
  BY <1>1, <1>2

\* AddViewer and the OnTrack callback agree on who offers the track: everybody
\* in the map is offered it, and while there is one track, once
\* (sfu.go:202-212, 354, 389).
THEOREM OfferedOnceOnly == Spec => []OfferedOnce
<1>1. IInv => OfferedOnce
  <2> SUFFICES ASSUME IInv PROVE OfferedOnce
    OBVIOUS
  <2>1. /\ \A x \in Pcs : PlannedOf(x) /\ OnceOf(x)
        /\ \A x \in Pcs : Plans(x) = {t \in Threads : Plan(t, x)}
        /\ viewers \in [Viewers -> Pcs \cup {None}]
    BY PlansArePlans DEF IInv, OfferInv, TypeOK
  <2>2. ASSUME localTrack # 0, NEW x \in Registered
        PROVE  x \in offered \/ Plans(x) # {}
    <3>1. x \in Pcs /\ \E v \in Viewers : viewers[v] = x
      BY <2>1 DEF Registered
    <3>2. x \in offered \/ \E t \in Threads : Plan(t, x)
      BY <2>1, <2>2, <3>1 DEF PlannedOf
    <3> QED
      BY <2>1, <3>1, <3>2
  <2>3. ASSUME localTrack < 2, NEW x \in Pcs
        PROVE  /\ Cardinality(Plans(x)) <= 1
               /\ x \in offered => \A t \in Plans(x) : progress[t] = "flush"
    <3>1. /\ \A t, u \in Threads : Plan(t, x) /\ Plan(u, x) => t = u
          /\ x \in offered => \A t \in Threads : Plan(t, x) => progress[t] = "flush"
      BY <2>1, <2>3 DEF OnceOf
    <3>2. \A t, u \in Plans(x) : t = u
      BY <2>1, <3>1
    <3>3. Cardinality(Plans(x)) <= 1
      BY <3>2, AtMostOne
    <3> QED
      BY <2>1, <3>1, <3>3
  <2> QED
    BY <2>2, <2>3 DEF OfferedOnce
<1> QED
  BY <1>1, Invariance, PTL

\* Whichever way a viewer's registration and the publisher's "sfu" interleave,
\* one of the two read loops adds the viewer (room.go setupAllSFUViewers,
\* api.go handleScreenViewer); only a failure keeps it out.
THEOREM WatchersAdded == Spec => []EveryWatcherAdded
<1>1. IInv => EveryWatcherAdded
  <2> SUFFICES ASSUME IInv, NEW v \in Viewers,
                      v \in watching, sfuMode, sfu = "open", Settled(v)
               PROVE  viewers[v] # None \/ v \in failed
    BY DEF EveryWatcherAdded, IInv, TypeOK
  <2>1. /\ handler[v] = "reading" /\ pub = "reading" /\ batch = {}
        /\ \A a \in Adders : job[a].viewer # v
    BY DEF Settled, PublisherFree
  <2>2. WatchOf(v)
    BY DEF IInv
  <2> QED
    BY <2>1, <2>2 DEF WatchOf, Adding
<1> QED
  BY <1>1, Invariance, PTL

\* RemoveScreenViewer leaves nothing of a viewer in the SFU (room.go), unless
\* the publisher's loop adds it afterwards.
THEOREM LeaversReleased == Spec => []LeaverReleased
<1>1. IInv => LeaverReleased
  BY DEF IInv
<1> QED
  BY <1>1, Invariance, PTL

\* A candidate is written after the description it belongs to, and none stays
\* behind in a buffer (sfu.go:363-369, 427-434).
THEOREM CandidatesFollow == Spec => []CandidatesInOrder
<1>1. IInv => CandidatesInOrder
  <2> SUFFICES ASSUME IInv PROVE CandidatesInOrder
    OBVIOUS
  <2>1. (\A x \in Pcs : IceOf(x)) /\ PubIceInv
    BY DEF IInv
  <2> QED
    BY <2>1 DEF CandidatesInOrder, IceOf, PubIceInv
<1> QED
  BY <1>1, Invariance, PTL

=============================================================================
