------------------------------ MODULE WebmRelay ------------------------------
(***************************************************************************)
(* webmRelay.feed (room.go): cut one publisher's WebM byte stream, which   *)
(* arrives in WebSocket messages of any size, into a keyframe (the init    *)
(* and the first complete Cluster) and the complete Clusters after it.     *)
(*                                                                         *)
(* Bytes are abstracted to their offsets in the stream: all feed looks at  *)
(* is where the 4-byte Cluster ID occurs (ids).  A byte slice is the pair  *)
(* <<from, to>> of offsets, f.pending is <<flushed, fed>>, and the units   *)
(* returned so far are the slices between neighbouring members of cuts.    *)
(* Feed is one step: its callers hold room.mutex.                          *)
(***************************************************************************)
EXTENDS Integers, FiniteSets

CONSTANTS
  MaxLen,       \* length of the streams considered
  MaxChunk,     \* largest message of the publisher
  MaxPending    \* f.maxPending

ASSUME WebmRelayAssumption ==
  MaxLen \in Nat /\ MaxChunk \in Nat /\ MaxPending \in Nat \ {0}

IDLen == 4      \* len(clusterIDBytes)

\* Where Cluster IDs may be in a stream: no two of them overlap.
Streams ==
  {S \in SUBSET (0 .. MaxLen) : \A i, j \in S : i < j => i + IDLen <= j}

Slice == (0 .. MaxLen) \X (0 .. MaxLen)
Nil == <<>>     \* a nil slice

\* append([]byte(nil), b...): with nothing in b it stays nil.
Copied(from, to) == IF from = to THEN Nil ELSE <<from, to>>

VARIABLES
  ids,          \* the publisher's stream
  fed,          \* bytes of it passed to feed
  flushed,      \* bytes of it that left f.pending
  ready,        \* f.ready
  keyframe,     \* f.keyframe
  initHeader,   \* f.initHeader
  lastCluster,  \* f.lastCluster
  cuts,         \* history: the offsets at which a unit has ended
  raw           \* history: a safety valve has fired

vars == <<ids, fed, flushed, ready, keyframe, initHeader, lastCluster, cuts,
          raw>>

TypeOK ==
  /\ ids \in Streams
  /\ fed \in 0 .. MaxLen
  /\ flushed \in 0 .. fed
  /\ ready \in BOOLEAN
  /\ keyframe \in Slice \cup {Nil}
  /\ initHeader \in Slice \cup {Nil}
  /\ lastCluster \in Slice \cup {Nil}
  /\ cuts \subseteq 1 .. fed
  /\ raw \in BOOLEAN

Init ==
  /\ ids \in Streams
  /\ fed = 0
  /\ flushed = 0
  /\ ready = FALSE
  /\ keyframe = Nil
  /\ initHeader = Nil
  /\ lastCluster = Nil
  /\ cuts = {}
  /\ raw = FALSE

-----------------------------------------------------------------------------
\* Mutant: only the bytes of the new message are searched.
FoundInMessage(from, to) ==
  {i \in ids : from <= i /\ fed <= i /\ i + IDLen <= to}

\* Mutant: no test that the four bytes are there.
FoundUnchecked(from, to) == {i \in ids : from <= i}

\* What repeated calls of findClusterOffset find between the offsets from and
\* to: a hit needs all four bytes.  Each call starts IDLen after the last hit,
\* and as no two IDs overlap, none is skipped.
Found(from, to) == {i \in ids : from <= i /\ i + IDLen <= to}

IsFirst(i, S) == i \in S /\ \A j \in S : i <= j
IsLast(i, S)  == i \in S /\ \A j \in S : j <= i

\* Mutant: off by one.
TooMuchPlusOne(pending) == pending > MaxPending + 1

\* len(f.pending) > f.maxPending
TooMuch(pending) == pending > MaxPending

\* The loop at the end of feed, on the pending bytes from start to end, and
\* the second safety valve: cut at each Cluster found at or after start + 4;
\* if what remains after the last cut is too much, flush that, too.
Emit(start, end) ==
  LET new == Found(start + IDLen, end)
      bounds == {start} \cup new
  IN  \E last \in bounds :
        /\ IsLast(last, bounds)
        /\ \/ /\ TooMuch(end - last)
              /\ flushed' = end
              /\ cuts' = cuts \cup bounds \cup {end}
              /\ lastCluster' = <<last, end>>
              /\ raw' = TRUE
           \/ /\ ~TooMuch(end - last)
              /\ flushed' = last
              /\ cuts' = cuts \cup bounds
              /\ UNCHANGED raw
              /\ \/ new = {} /\ UNCHANGED lastCluster
                 \/ \E prev \in bounds \ {last} :
                      /\ IsLast(prev, bounds \ {last})
                      /\ lastCluster' = <<prev, last>>

-----------------------------------------------------------------------------
(* feed: n more bytes arrive                                               *)

Arrive(n) ==
  /\ fed + n <= MaxLen
  /\ fed' = fed + n
  /\ UNCHANGED ids

\* No keyframe yet, and no two Cluster IDs to tell where its Cluster ends.
Hold(n) ==
  /\ Arrive(n)
  /\ ~ready
  /\ Cardinality(Found(0, fed + n)) < 2
  /\ ~TooMuch(fed + n)
  /\ UNCHANGED <<flushed, ready, keyframe, initHeader, lastCluster, cuts, raw>>

\* The first safety valve: everything there is becomes the keyframe.
\* initHeader stays nil for ever.
FlushRawKeyframe(n) ==
  /\ Arrive(n)
  /\ ~ready
  /\ Cardinality(Found(0, fed + n)) < 2
  /\ TooMuch(fed + n)
  /\ ready' = TRUE
  /\ keyframe' = <<0, fed + n>>
  /\ flushed' = fed + n
  /\ cuts' = {fed + n}
  /\ raw' = TRUE
  /\ UNCHANGED <<initHeader, lastCluster>>

\* Mutant: a bare init is kept for late joiners.
FinalizeBareInit(n) ==
  /\ Arrive(n)
  /\ ~ready
  /\ \E c1, c2 \in Found(0, fed + n) :
       /\ IsFirst(c1, Found(0, fed + n))
       /\ IsFirst(c2, Found(c1 + IDLen, fed + n))
       /\ initHeader' = Copied(0, c1)
       /\ keyframe' = <<0, c1>>
       /\ Emit(c2, fed + n)
  /\ ready' = TRUE

\* The first Cluster is complete: the second one begins at c2.  A stream that
\* begins with a Cluster ID (c1 = 0) has no init: initHeader stays nil for ever.
FinalizeKeyframe(n) ==
  /\ Arrive(n)
  /\ ~ready
  /\ \E c1, c2 \in Found(0, fed + n) :
       /\ IsFirst(c1, Found(0, fed + n))
       /\ IsFirst(c2, Found(c1 + IDLen, fed + n))
       /\ initHeader' = Copied(0, c1)
       /\ keyframe' = <<0, c2>>
       /\ Emit(c2, fed + n)
  /\ ready' = TRUE

\* After the keyframe.
RelayClusters(n) ==
  /\ Arrive(n)
  /\ ready
  /\ Emit(flushed, fed + n)
  /\ UNCHANGED <<ready, keyframe, initHeader>>

\* What RegisterScreenViewer and SendScreenKeyframe hand out: initHeader and
\* this slice, or only this slice, the keyframe.
Served == IF initHeader # Nil /\ lastCluster # Nil THEN lastCluster ELSE keyframe

Feed(n) ==
  \/ Hold(n)
  \/ FlushRawKeyframe(n)
  \/ FinalizeKeyframe(n)
  \/ RelayClusters(n)

Next == \E n \in 1 .. MaxChunk : Feed(n)

Spec == Init /\ [][Next]_vars

-----------------------------------------------------------------------------
(* Properties                                                              *)

Complete == {i \in ids : i + IDLen <= fed}

\* Where the units end does not depend on how the stream was cut into
\* messages, nor on a Cluster ID split between two of them: as long as no
\* safety valve has fired, a unit ends exactly at each Cluster boundary
\* received so far, except the one that ends the init (webmRelay's comment:
\* "one keyframe = init + FIRST COMPLETE Cluster, then subsequent COMPLETE
\* Clusters").
ChunkingIndependent ==
  ~raw => /\ cuts = {c \in Complete : \E d \in Complete : d < c}
          /\ ready <=> cuts # {}

\* No complete Cluster is ever withheld once the keyframe is out, not even
\* after a safety valve.
NothingWithheld == ready => \A i \in Complete : i < flushed + IDLen

\* feed never returns holding more than maxPending bytes of a publisher.
PendingBounded == fed - flushed <= MaxPending

\* What a late viewer of a stream with an initHeader is given ends where the
\* next unit will begin, so that it neither misses nor gets twice any byte after
\* it.  (Without an initHeader, that is after FlushRawKeyframe or when the stream
\* begins with a Cluster ID, it is given the keyframe, however long ago that
\* was, and misses what came between.)
LateJoinerSeamless == initHeader # Nil => Served[2] = flushed

\* Where the init ends and the keyframe's Cluster begins.
InitEnd == IF initHeader = Nil THEN 0 ELSE initHeader[2]

\* As long as no safety valve has fired a late viewer is given the init, which
\* may be empty, and one whole Cluster: the last one, or the first if there is
\* no other yet or no initHeader.
LateJoinerGetsWholeCluster ==
  ready /\ ~raw =>
    /\ IsFirst(InitEnd, ids)
    /\ LET cluster == IF initHeader # Nil /\ lastCluster # Nil
                      THEN lastCluster ELSE <<InitEnd, keyframe[2]>>
       IN  /\ cluster[1] \in ids
           /\ IsFirst(cluster[2], {i \in ids : i > cluster[1]})
=============================================================================
