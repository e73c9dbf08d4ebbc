----------------------------- MODULE ViewerStream -----------------------------
(***************************************************************************)
(* What the viewers of a screen share may rely on (README, "Exactly-once   *)
(* init delivery" and "Viewer recovery").                                  *)
(*                                                                         *)
(* A viewer that is there before the stream begins gets all of it.  One    *)
(* that comes later gets one keyframe first, with the newest Cluster of    *)
(* the time it came if the stream has a header to put in front of it.  It  *)
(* may miss Clusters produced before it is tuned in, and from then on gets *)
(* each of them once and in order.  Keyframes it asks for come in between  *)
(* and change nothing about that.                                          *)
(***************************************************************************)
EXTENDS Naturals

CONSTANT Viewers

VARIABLES
  produced,  \* units the publisher has produced; the first is the keyframe
  headed,    \* the stream has a header: a keyframe can be made with any Cluster
  held,      \* per viewer: the Cluster of the keyframe it is to get, or 0
  asked,     \* viewers that have asked for a keyframe and have yet to get it
  next,      \* per viewer: the unit it gets next, or 0: not tuned in
  last,      \* per viewer: the Cluster it has received last, or 0
  fresh,     \* viewers to which it came with an init
  ended      \* viewers that are disconnected, or about to be

vars == <<produced, headed, held, asked, next, last, fresh, ended>>

Init ==
  /\ produced = 0 /\ headed = FALSE
  /\ held = [v \in Viewers |-> 0]
  /\ next = [v \in Viewers |-> 0]
  /\ last = [v \in Viewers |-> 0]
  /\ asked = {} /\ fresh = {} /\ ended = {}

\* The Cluster of a keyframe made now, or 0.
Newest == IF headed THEN produced ELSE IF produced > 0 THEN 1 ELSE 0

\* Whether there is a header shows with the first unit.
Produce ==
  /\ produced' \in Nat /\ produced' > produced
  /\ headed' \in IF produced = 0 THEN BOOLEAN ELSE {headed}
  /\ UNCHANGED <<held, asked, next, last, fresh, ended>>

\* Before the stream begins a viewer is tuned in as it comes.
Come(v) ==
  /\ held[v] = 0 /\ next[v] = 0 /\ v \notin ended
  /\ held' = [held EXCEPT ![v] = Newest]
  /\ next' = IF produced = 0 THEN [next EXCEPT ![v] = 1] ELSE next
  /\ UNCHANGED <<produced, headed, asked, last, fresh, ended>>

Ask(v) ==
  /\ v \notin asked
  /\ produced > 0
  /\ asked' = asked \cup {v}
  /\ held' = [held EXCEPT ![v] = Newest]
  /\ UNCHANGED <<produced, headed, next, last, fresh, ended>>

\* The keyframe it came for, or one it has asked for.
Keyframe(v) ==
  /\ held[v] # 0
  /\ last[v] = 0 \/ v \in asked
  /\ last' = [last EXCEPT ![v] = held[v]]
  /\ fresh' = fresh \cup {v}
  /\ asked' = asked \ {v}
  /\ UNCHANGED <<produced, headed, held, next, ended>>

\* Clusters produced before this are lost to v; none is that comes after.
TuneIn(v) ==
  /\ last[v] > 0
  /\ next[v] = 0 /\ v \notin ended
  /\ next' = [next EXCEPT ![v] = produced + 1]
  /\ UNCHANGED <<produced, headed, held, asked, last, fresh, ended>>

Cluster(v) ==
  /\ next[v] \in 1 .. produced
  /\ last' = [last EXCEPT ![v] = next[v]]
  /\ fresh' = IF next[v] = 1 THEN fresh \cup {v} ELSE fresh \ {v}
  /\ next' = [next EXCEPT ![v] = @ + 1]
  /\ UNCHANGED <<produced, headed, held, asked, ended>>

\* Viewers leave, or are disconnected.
End ==
  /\ ended' \subseteq Viewers /\ ended \subseteq ended'
  /\ next' = [v \in Viewers |-> IF v \in ended' THEN 0 ELSE next[v]]
  /\ UNCHANGED <<produced, headed, held, asked, last, fresh>>

\* What they have asked for is not sent to a closed connection.
Lapse(v) ==
  /\ v \in ended
  /\ asked' = asked \ {v}
  /\ UNCHANGED <<produced, headed, held, next, last, fresh, ended>>

Next ==
  \/ Produce
  \/ \E v \in Viewers :
       Come(v) \/ Ask(v) \/ Keyframe(v) \/ TuneIn(v) \/ Cluster(v) \/ Lapse(v)
  \/ End

Spec == Init /\ [][Next]_vars
=============================================================================
