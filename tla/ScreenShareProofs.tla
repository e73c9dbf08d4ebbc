--------------------------- MODULE ScreenShareProofs --------------------------
(***************************************************************************)
(* Proofs about ScreenShare, for any number of viewers and streams of any  *)
(* length: the gate implements ViewerStream, and every viewer is told the  *)
(* mode.                                                                   *)
(***************************************************************************)
EXTENDS ScreenShare, TLAPS

\* BroadcastScreen's writes to a viewer are the last units relayed.
TodoInv ==
  /\ pub \notin {"broadcasting", "writing"} => \A v \in Viewers : todo[v] = {}
  /\ \A v \in Viewers :
       todo[v] # {} => \E k \in 1 .. emitted : todo[v] = k .. emitted

\* Nothing is written to a viewer behind the gate, and the gate stays shut until
\* the viewer's own loop has served the init it took when it registered.
GateInv ==
  \A v \in Viewers :
    /\ v \in initPending => todo[v] = {}
    /\ handler[v] = "out" =>
         /\ v \notin watching /\ v \notin broken /\ v \notin targets
         /\ todo[v] = {} /\ held[v] = 0 /\ last[v] = 0
    /\ v \notin watching => handler[v] = "out" \/ v \in Ended
    /\ handler[v] \in {"registered", "notifying", "serving"} /\ held[v] # 0 =>
         /\ v \notin broken => last[v] = 0
         /\ v \notin Ended => v \in initPending
    /\ handler[v] = "served" /\ v \notin Ended => v \in initPending /\ last[v] > 0
    /\ handler[v] \in {"serving", "sending"} => held[v] # 0

\* What is cached and what a viewer has received was relayed before.
CacheInv ==
  /\ initHeader => emitted > 0
  /\ \A v \in Viewers : held[v] <= emitted /\ last[v] <= emitted

\* The mode was set before the viewers were collected, and a viewer has
\* registered before its loop reads the mode.
ModeInv ==
  \A v \in watching :
    LET toBeTold == pub = "announced" \/ (pub = "telling" /\ v \in targets)
    IN  /\ handler[v] = "notifying" =>
             modeRead[v] = mode \/ v \in informed \/ toBeTold
        /\ handler[v] \in {"serving", "served", "reading", "sending"} =>
             v \in informed \/ toBeTold

IInv == TypeOK /\ TodoInv /\ GateInv /\ CacheInv /\ ModeInv

-----------------------------------------------------------------------------
\* The units still to be written begin with the least one.
LEMMA MinOfInterval ==
  ASSUME NEW n \in Nat, NEW k \in 1 .. n
  PROVE  Min(k .. n) = k /\ (k .. n) \ {k} = k + 1 .. n
<1>1. k \in k .. n /\ \A y \in k .. n : k <= y
  OBVIOUS
<1>2. \A x \in k .. n : (\A y \in k .. n : x <= y) => x = k
  BY <1>1
<1>3. Min(k .. n) = k
  BY <1>1, <1>2 DEF Min
<1> QED
  BY <1>3

\* WriteUnit writes the first of them and leaves the others.
LEMMA WriteUnitWritesNext ==
  ASSUME TypeOK, TodoInv, NEW v \in Viewers, WriteUnit(v)
  PROVE  \E k \in 1 .. emitted :
           /\ todo[v] = k .. emitted
           /\ todo' = [todo EXCEPT ![v] = k + 1 .. emitted]
           /\ Receive(v, k, k = 1)
<1>1. PICK k \in 1 .. emitted : todo[v] = k .. emitted
  BY DEF WriteUnit, TodoInv
<1>2. emitted \in Nat
  BY ScreenShareAssumption DEF TypeOK, ScreenShareAssumption
<1>3. Min(todo[v]) = k /\ todo[v] \ {k} = k + 1 .. emitted
  BY <1>1, <1>2, MinOfInterval
<1> QED
  BY <1>1, <1>3 DEF WriteUnit, TypeOK

\* Nothing relayed, nobody watching.
LEMMA InitIInv == Init => IInv
<1> SUFFICES ASSUME Init PROVE IInv
  OBVIOUS
<1> USE ScreenShareAssumption DEF ScreenShareAssumption, Init
<1>1. TypeOK
  <2>1. initHeader \in BOOLEAN
    OBVIOUS
  <2>2. /\ mode \in Modes /\ emitted \in 0 .. MaxUnits /\ hellos \in 0 .. MaxHellos
        /\ todo \in [Viewers -> SUBSET Units]
        /\ held \in [Viewers -> 0 .. MaxUnits]
        /\ last \in [Viewers -> 0 .. MaxUnits]
        /\ modeRead \in [Viewers -> Modes \cup {"none"}]
        /\ requests \in [Viewers -> 0 .. MaxRequests]
    BY DEF Modes
  <2> QED
    BY <2>1, <2>2 DEF TypeOK
<1>2. TodoInv
  BY DEF TodoInv
<1>3. GateInv
  BY DEF GateInv, Ended
<1>4. CacheInv
  BY DEF CacheInv
<1>5. ModeInv
  BY DEF ModeInv
<1> QED
  BY <1>1, <1>2, <1>3, <1>4, <1>5 DEF IInv

\* Every action keeps the types; units of a message that is relayed are within
\* MaxUnits.
LEMMA TypeStep ==
  TypeOK /\ TodoInv /\ [Next]_vars => TypeOK'
<1> SUFFICES ASSUME TypeOK, TodoInv, [Next]_vars PROVE TypeOK'
  OBVIOUS
<1> USE ScreenShareAssumption DEF ScreenShareAssumption, TypeOK, Units, Modes,
   pubVars, viewerVars, loopVars, handlerVars, inbox
<1>1. ASSUME NEW n \in 1 .. MaxPerFeed, BroadcastScreen(n) PROVE TypeOK'
  <2>1. initHeader' \in BOOLEAN
    BY <1>1 DEF BroadcastScreen
  <2>2. /\ emitted' \in 0 .. MaxUnits
        /\ initPending' \subseteq watching
        /\ pub' = "broadcasting"
    BY <1>1 DEF BroadcastScreen
  <2>3. todo' \in [Viewers -> SUBSET Units]
    <3>1. ASSUME NEW v \in Viewers
          PROVE  UnitsFor(v, emitted + 1, emitted + n) \subseteq Units
      BY <1>1 DEF BroadcastScreen, UnitsFor
    <3> QED
      BY <1>1, <3>1 DEF BroadcastScreen
  <2> QED
    BY <1>1, <2>1, <2>2, <2>3 DEF BroadcastScreen
<1>2. CASE LockWrites
  BY <1>2 DEF LockWrites
<1>3. ASSUME NEW v \in Viewers, WriteUnit(v) PROVE TypeOK'
  <2>1. PICK k \in 1 .. emitted :
          /\ todo' = [todo EXCEPT ![v] = k + 1 .. emitted]
          /\ Receive(v, k, k = 1)
    BY <1>3, WriteUnitWritesNext
  <2>2. todo' \in [Viewers -> SUBSET Units]
    BY <2>1
  <2>3. last' \in [Viewers -> 0 .. MaxUnits] /\ fresh' \subseteq Viewers
    <3>1. CASE v \in broken
      BY <2>1, <3>1 DEF Receive
    <3>2. CASE v \notin broken
      <4>1. /\ last' = [last EXCEPT ![v] = k]
            /\ fresh' \in {fresh \cup {v}, fresh \ {v}}
        BY <2>1, <3>2 DEF Receive
      <4>2. k \in 0 .. MaxUnits
        OBVIOUS
      <4> QED
        BY <1>3, <4>1, <4>2
    <3> QED
      BY <3>1, <3>2
  <2> QED
    BY <1>3, <2>2, <2>3 DEF WriteUnit
<1>4. ASSUME NEW v \in Viewers, WriteFails(v) PROVE TypeOK'
  BY <1>4 DEF WriteFails
<1>5. CASE UnlockWrites
  BY <1>5 DEF UnlockWrites
<1>6. ASSUME NEW m \in Modes, SetMode(m) PROVE TypeOK'
  BY <1>6 DEF SetMode
<1>7. CASE CollectViewers
  BY <1>7 DEF CollectViewers
<1>8. CASE TellMode
  BY <1>8 DEF TellMode
<1>9. CASE ClearScreenPublisher
  BY <1>9 DEF ClearScreenPublisher
<1>20. CASE CloseViewers
  BY <1>20 DEF CloseViewers
<1>10. ASSUME NEW v \in Viewers, RegisterScreenViewer(v) PROVE TypeOK'
  BY <1>10 DEF RegisterScreenViewer, Goto, Served
<1>11. ASSUME NEW v \in Viewers, ReadMode(v) PROVE TypeOK'
  BY <1>11 DEF ReadMode, Goto
<1>12. ASSUME NEW v \in Viewers, NotifyViewerMode(v) PROVE TypeOK'
  BY <1>12 DEF NotifyViewerMode, Goto, Locked
<1>13. ASSUME NEW v \in Viewers, ServeInit(v) PROVE TypeOK'
  BY <1>13 DEF ServeInit, Goto, Receive, Locked
<1>14. ASSUME NEW v \in Viewers, ServeInitFails(v) PROVE TypeOK'
  BY <1>14 DEF ServeInitFails, Goto, Locked
<1>15. ASSUME NEW v \in Viewers, MarkScreenInitDelivered(v) PROVE TypeOK'
  BY <1>15 DEF MarkScreenInitDelivered, Goto
<1>16. ASSUME NEW v \in Viewers, RequestKeyframe(v) PROVE TypeOK'
  BY <1>16 DEF RequestKeyframe, Goto, Served
<1>17. ASSUME NEW v \in Viewers, SendScreenKeyframe(v) PROVE TypeOK'
  BY <1>17 DEF SendScreenKeyframe, Goto, Receive, Locked
<1>18. ASSUME NEW v \in Viewers, RemoveScreenViewer(v) PROVE TypeOK'
  BY <1>18 DEF RemoveScreenViewer, Goto
<1>19. CASE UNCHANGED vars
  BY <1>19 DEF vars
<1> QED
  BY <1>1, <1>2, <1>3, <1>4, <1>5, <1>6, <1>7, <1>8, <1>9, <1>10, <1>11, <1>12,
     <1>13, <1>14, <1>15, <1>16, <1>17, <1>18, <1>19, <1>20 DEF Next,
     HandleScreenPublisher, HandleScreenViewer

\* What is still to be written stays a tail of what was relayed.
LEMMA TodoStep ==
  TypeOK /\ TodoInv /\ [Next]_vars => TodoInv'
<1> SUFFICES ASSUME TypeOK, TodoInv, [Next]_vars PROVE TodoInv'
  OBVIOUS
<1> USE ScreenShareAssumption DEF ScreenShareAssumption, TypeOK, TodoInv,
   pubVars, viewerVars, loopVars, handlerVars, inbox
<1>1. ASSUME NEW n \in 1 .. MaxPerFeed, BroadcastScreen(n) PROVE TodoInv'
  BY <1>1 DEF BroadcastScreen, UnitsFor, Served
<1>2. CASE LockWrites
  BY <1>2 DEF LockWrites
<1>3. ASSUME NEW v \in Viewers, WriteUnit(v) PROVE TodoInv'
  <2>1. PICK k \in 1 .. emitted : todo' = [todo EXCEPT ![v] = k + 1 .. emitted]
    BY <1>3, WriteUnitWritesNext
  <2>2. ASSUME NEW w \in Viewers, todo'[w] # {}
        PROVE  \E i \in 1 .. emitted : todo'[w] = i .. emitted
    <3>1. CASE w = v
      <4>1. todo'[w] = k + 1 .. emitted /\ k + 1 \in 1 .. emitted
        BY <2>1, <2>2, <3>1
      <4> QED
        BY <4>1
    <3>2. CASE w # v
      BY <2>1, <2>2, <3>2
    <3> QED
      BY <3>1, <3>2
  <2> QED
    BY <1>3, <2>2 DEF WriteUnit
<1>4. ASSUME NEW v \in Viewers, WriteFails(v) PROVE TodoInv'
  BY <1>4 DEF WriteFails
<1>5. CASE UnlockWrites
  BY <1>5 DEF UnlockWrites
<1>6. ASSUME NEW m \in Modes, SetMode(m) PROVE TodoInv'
  BY <1>6 DEF SetMode
<1>7. CASE CollectViewers
  BY <1>7 DEF CollectViewers
<1>8. CASE TellMode
  BY <1>8 DEF TellMode
<1>9. CASE ClearScreenPublisher
  BY <1>9 DEF ClearScreenPublisher
<1>20. CASE CloseViewers
  BY <1>20 DEF CloseViewers
<1>10. ASSUME NEW v \in Viewers, RegisterScreenViewer(v) PROVE TodoInv'
  BY <1>10 DEF RegisterScreenViewer, Goto, Served
<1>11. ASSUME NEW v \in Viewers, ReadMode(v) PROVE TodoInv'
  BY <1>11 DEF ReadMode, Goto
<1>12. ASSUME NEW v \in Viewers, NotifyViewerMode(v) PROVE TodoInv'
  BY <1>12 DEF NotifyViewerMode, Goto, Locked
<1>13. ASSUME NEW v \in Viewers, ServeInit(v) PROVE TodoInv'
  BY <1>13 DEF ServeInit, Goto, Receive, Locked
<1>14. ASSUME NEW v \in Viewers, ServeInitFails(v) PROVE TodoInv'
  BY <1>14 DEF ServeInitFails, Goto, Locked
<1>15. ASSUME NEW v \in Viewers, MarkScreenInitDelivered(v) PROVE TodoInv'
  BY <1>15 DEF MarkScreenInitDelivered, Goto
<1>16. ASSUME NEW v \in Viewers, RequestKeyframe(v) PROVE TodoInv'
  BY <1>16 DEF RequestKeyframe, Goto, Served
<1>17. ASSUME NEW v \in Viewers, SendScreenKeyframe(v) PROVE TodoInv'
  BY <1>17 DEF SendScreenKeyframe, Goto, Receive, Locked
<1>18. ASSUME NEW v \in Viewers, RemoveScreenViewer(v) PROVE TodoInv'
  BY <1>18 DEF RemoveScreenViewer, Goto
<1>19. CASE UNCHANGED vars
  BY <1>19 DEF vars
<1> QED
  BY <1>1, <1>2, <1>3, <1>4, <1>5, <1>6, <1>7, <1>8, <1>9, <1>10, <1>11, <1>12,
     <1>13, <1>14, <1>15, <1>16, <1>17, <1>18, <1>19, <1>20 DEF Next,
     HandleScreenPublisher, HandleScreenViewer

\* The gate opens with the keyframe, or when the viewer has its init.
LEMMA GateStep ==
  TypeOK /\ TypeOK' /\ TodoInv /\ GateInv /\ CacheInv /\ [Next]_vars => GateInv'
<1> SUFFICES ASSUME TypeOK, TypeOK', TodoInv, GateInv, CacheInv, [Next]_vars
             PROVE  GateInv'
  OBVIOUS
<1> USE DEF TypeOK, TodoInv, GateInv, Ended, pubVars, viewerVars, loopVars,
   handlerVars, inbox
<1>1. ASSUME NEW n \in 1 .. MaxPerFeed, BroadcastScreen(n) PROVE GateInv'
  <2>1. /\ UNCHANGED <<watching, broken, targets, handler, held, last>>
        /\ pub = "reading" /\ pub' = "broadcasting"
        /\ emitted \in Nat /\ emitted' \in Nat
    BY <1>1, ScreenShareAssumption
       DEF BroadcastScreen, ScreenShareAssumption
  <2>2. \A v \in Viewers : v \notin watching \/ v \in initPending' => todo'[v] = {}
    BY <1>1, <2>1 DEF BroadcastScreen, UnitsFor
  <2>3. ASSUME NEW v \in Viewers, held[v] # 0 \/ last[v] > 0,
               v \in initPending
        PROVE  v \in initPending'
    <3>1. emitted # 0
      BY <2>1, <2>3 DEF CacheInv
    <3> QED
      BY <1>1, <2>3, <3>1 DEF BroadcastScreen
  <2> QED
    BY <2>1, <2>2, <2>3
<1>2. CASE LockWrites
  BY <1>2 DEF LockWrites
<1>3. ASSUME NEW v \in Viewers, WriteUnit(v) PROVE GateInv'
  BY <1>3 DEF WriteUnit, Receive
<1>4. ASSUME NEW v \in Viewers, WriteFails(v) PROVE GateInv'
  BY <1>4 DEF WriteFails
<1>5. CASE UnlockWrites
  BY <1>5 DEF UnlockWrites
<1>6. ASSUME NEW m \in Modes, SetMode(m) PROVE GateInv'
  BY <1>6 DEF SetMode
<1>7. CASE CollectViewers
  BY <1>7 DEF CollectViewers
<1>8. CASE TellMode
  BY <1>8 DEF TellMode
<1>9. CASE ClearScreenPublisher
  BY <1>9 DEF ClearScreenPublisher
<1>20. CASE CloseViewers
  BY <1>20 DEF CloseViewers
<1>10. ASSUME NEW v \in Viewers, RegisterScreenViewer(v) PROVE GateInv'
  BY <1>10 DEF RegisterScreenViewer, Goto, Served
<1>11. ASSUME NEW v \in Viewers, ReadMode(v) PROVE GateInv'
  BY <1>11 DEF ReadMode, Goto
<1>12. ASSUME NEW v \in Viewers, NotifyViewerMode(v) PROVE GateInv'
  BY <1>12 DEF NotifyViewerMode, Goto, Locked
<1>13. ASSUME NEW v \in Viewers, ServeInit(v) PROVE GateInv'
  BY <1>13 DEF ServeInit, Goto, Receive, Locked
<1>14. ASSUME NEW v \in Viewers, ServeInitFails(v) PROVE GateInv'
  BY <1>14 DEF ServeInitFails, Goto, Locked
<1>15. ASSUME NEW v \in Viewers, MarkScreenInitDelivered(v) PROVE GateInv'
  BY <1>15 DEF MarkScreenInitDelivered, Goto
<1>16. ASSUME NEW v \in Viewers, RequestKeyframe(v) PROVE GateInv'
  BY <1>16 DEF RequestKeyframe, Goto, Served
<1>17. ASSUME NEW v \in Viewers, SendScreenKeyframe(v) PROVE GateInv'
  BY <1>17 DEF SendScreenKeyframe, Goto, Receive, Locked
<1>18. ASSUME NEW v \in Viewers, RemoveScreenViewer(v) PROVE GateInv'
  BY <1>18 DEF RemoveScreenViewer, Goto
<1>19. CASE UNCHANGED vars
  BY <1>19 DEF vars
<1> QED
  BY <1>1, <1>2, <1>3, <1>4, <1>5, <1>6, <1>7, <1>8, <1>9, <1>10, <1>11, <1>12,
     <1>13, <1>14, <1>15, <1>16, <1>17, <1>18, <1>19, <1>20 DEF Next,
     HandleScreenPublisher, HandleScreenViewer

\* The caches only grow, and what is written is from them or from the stream.
LEMMA CacheStep ==
  TypeOK /\ TodoInv /\ CacheInv /\ [Next]_vars => CacheInv'
<1> SUFFICES ASSUME TypeOK, TodoInv, CacheInv, [Next]_vars PROVE CacheInv'
  OBVIOUS
<1> USE ScreenShareAssumption DEF ScreenShareAssumption, TypeOK, CacheInv,
   pubVars, viewerVars, loopVars, handlerVars, inbox
<1>1. ASSUME NEW n \in 1 .. MaxPerFeed, BroadcastScreen(n) PROVE CacheInv'
  BY <1>1 DEF BroadcastScreen, UnitsFor, Served
<1>2. CASE LockWrites
  BY <1>2 DEF LockWrites
<1>3. ASSUME NEW v \in Viewers, WriteUnit(v) PROVE CacheInv'
  <2>1. PICK k \in 1 .. emitted : Receive(v, k, k = 1)
    BY <1>3, WriteUnitWritesNext
  <2> QED
    BY <1>3, <2>1 DEF WriteUnit, Receive
<1>4. ASSUME NEW v \in Viewers, WriteFails(v) PROVE CacheInv'
  BY <1>4 DEF WriteFails
<1>5. CASE UnlockWrites
  BY <1>5 DEF UnlockWrites
<1>6. ASSUME NEW m \in Modes, SetMode(m) PROVE CacheInv'
  BY <1>6 DEF SetMode
<1>7. CASE CollectViewers
  BY <1>7 DEF CollectViewers
<1>8. CASE TellMode
  BY <1>8 DEF TellMode
<1>9. CASE ClearScreenPublisher
  BY <1>9 DEF ClearScreenPublisher
<1>20. CASE CloseViewers
  BY <1>20 DEF CloseViewers
<1>10. ASSUME NEW v \in Viewers, RegisterScreenViewer(v) PROVE CacheInv'
  BY <1>10 DEF RegisterScreenViewer, Goto, Served
<1>11. ASSUME NEW v \in Viewers, ReadMode(v) PROVE CacheInv'
  BY <1>11 DEF ReadMode, Goto
<1>12. ASSUME NEW v \in Viewers, NotifyViewerMode(v) PROVE CacheInv'
  BY <1>12 DEF NotifyViewerMode, Goto, Locked
<1>13. ASSUME NEW v \in Viewers, ServeInit(v) PROVE CacheInv'
  BY <1>13 DEF ServeInit, Goto, Receive, Locked
<1>14. ASSUME NEW v \in Viewers, ServeInitFails(v) PROVE CacheInv'
  BY <1>14 DEF ServeInitFails, Goto, Locked
<1>15. ASSUME NEW v \in Viewers, MarkScreenInitDelivered(v) PROVE CacheInv'
  BY <1>15 DEF MarkScreenInitDelivered, Goto
<1>16. ASSUME NEW v \in Viewers, RequestKeyframe(v) PROVE CacheInv'
  BY <1>16 DEF RequestKeyframe, Goto, Served
<1>17. ASSUME NEW v \in Viewers, SendScreenKeyframe(v) PROVE CacheInv'
  BY <1>17 DEF SendScreenKeyframe, Goto, Receive, Locked
<1>18. ASSUME NEW v \in Viewers, RemoveScreenViewer(v) PROVE CacheInv'
  BY <1>18 DEF RemoveScreenViewer, Goto
<1>19. CASE UNCHANGED vars
  BY <1>19 DEF vars
<1> QED
  BY <1>1, <1>2, <1>3, <1>4, <1>5, <1>6, <1>7, <1>8, <1>9, <1>10, <1>11, <1>12,
     <1>13, <1>14, <1>15, <1>16, <1>17, <1>18, <1>19, <1>20 DEF Next,
     HandleScreenPublisher, HandleScreenViewer

\* The two loops agree on who tells a viewer the mode.
LEMMA ModeStep ==
  TypeOK /\ TypeOK' /\ GateInv /\ ModeInv /\ [Next]_vars => ModeInv'
<1> SUFFICES ASSUME TypeOK, TypeOK', GateInv, ModeInv, [Next]_vars
             PROVE  ModeInv'
  OBVIOUS
<1> USE DEF TypeOK, GateInv, ModeInv, pubVars, viewerVars, loopVars,
   handlerVars, inbox
<1>1. ASSUME NEW n \in 1 .. MaxPerFeed, BroadcastScreen(n) PROVE ModeInv'
  BY <1>1 DEF BroadcastScreen, UnitsFor, Served
<1>2. CASE LockWrites
  BY <1>2 DEF LockWrites
<1>3. ASSUME NEW v \in Viewers, WriteUnit(v) PROVE ModeInv'
  BY <1>3 DEF WriteUnit, Receive
<1>4. ASSUME NEW v \in Viewers, WriteFails(v) PROVE ModeInv'
  BY <1>4 DEF WriteFails
<1>5. CASE UnlockWrites
  BY <1>5 DEF UnlockWrites
<1>6. ASSUME NEW m \in Modes, SetMode(m) PROVE ModeInv'
  BY <1>6 DEF SetMode
<1>7. CASE CollectViewers
  BY <1>7 DEF CollectViewers
<1>8. CASE TellMode
  BY <1>8 DEF TellMode
<1>9. CASE ClearScreenPublisher
  BY <1>9 DEF ClearScreenPublisher
<1>20. CASE CloseViewers
  BY <1>20 DEF CloseViewers
<1>10. ASSUME NEW v \in Viewers, RegisterScreenViewer(v) PROVE ModeInv'
  BY <1>10 DEF RegisterScreenViewer, Goto, Served
<1>11. ASSUME NEW v \in Viewers, ReadMode(v) PROVE ModeInv'
  BY <1>11 DEF ReadMode, Goto
<1>12. ASSUME NEW v \in Viewers, NotifyViewerMode(v) PROVE ModeInv'
  BY <1>12 DEF NotifyViewerMode, Goto, Locked
<1>13. ASSUME NEW v \in Viewers, ServeInit(v) PROVE ModeInv'
  BY <1>13 DEF ServeInit, Goto, Receive, Locked
<1>14. ASSUME NEW v \in Viewers, ServeInitFails(v) PROVE ModeInv'
  BY <1>14 DEF ServeInitFails, Goto, Locked
<1>15. ASSUME NEW v \in Viewers, MarkScreenInitDelivered(v) PROVE ModeInv'
  BY <1>15 DEF MarkScreenInitDelivered, Goto
<1>16. ASSUME NEW v \in Viewers, RequestKeyframe(v) PROVE ModeInv'
  BY <1>16 DEF RequestKeyframe, Goto, Served
<1>17. ASSUME NEW v \in Viewers, SendScreenKeyframe(v) PROVE ModeInv'
  BY <1>17 DEF SendScreenKeyframe, Goto, Receive, Locked
<1>18. ASSUME NEW v \in Viewers, RemoveScreenViewer(v) PROVE ModeInv'
  BY <1>18 DEF RemoveScreenViewer, Goto
<1>19. CASE UNCHANGED vars
  BY <1>19 DEF vars
<1> QED
  BY <1>1, <1>2, <1>3, <1>4, <1>5, <1>6, <1>7, <1>8, <1>9, <1>10, <1>11, <1>12,
     <1>13, <1>14, <1>15, <1>16, <1>17, <1>18, <1>19, <1>20 DEF Next,
     HandleScreenPublisher, HandleScreenViewer

-----------------------------------------------------------------------------
(* Theorems                                                                *)

\* IInv holds always.
THEOREM Invariance == Spec => []IInv
<1>1. Init => IInv
  BY InitIInv
<1>2. IInv /\ [Next]_vars => IInv'
  BY TypeStep, TodoStep, GateStep, CacheStep, ModeStep DEF IInv
<1> QED
  BY <1>1, <1>2, PTL DEF Spec

\* The types hold, and no more units are relayed than the bound allows.
THEOREM TypeCorrect == Spec => []TypeOK
<1>1. IInv => TypeOK
  BY DEF IInv
<1> QED
  BY <1>1, Invariance, PTL

\* Whoever watches and reads has been told the mode, however its registration
\* interleaves with a "hello": ModeInv says which loop still has to tell it, and
\* the publisher's has nobody left when it reads again.
THEOREM ModeIsTold == Spec => []ModeReachesViewers
<1>1. IInv => ModeReachesViewers
  BY DEF IInv, ModeInv, ModeReachesViewers
<1> QED
  BY <1>1, Invariance, PTL

-----------------------------------------------------------------------------
(* Refinement                                                              *)

\* ViewerStream stands still while the stream, its viewers and what they are to
\* get do.
LEMMA NothingSeen ==
  ASSUME UNCHANGED <<emitted, initHeader, watching, initPending, todo, held,
                     last, fresh>>,
         Ended' = Ended,
         \A v \in Viewers : handler'[v] = "sending" <=> handler[v] = "sending"
  PROVE  UNCHANGED Promise!vars
<1>1. {v \in Viewers : handler[v] = "sending"}' =
        {v \in Viewers : handler[v] = "sending"}
  OBVIOUS
<1>2. ASSUME NEW v \in Viewers PROVE NextUnit(v)' = NextUnit(v)
  BY DEF NextUnit
<1> QED
  BY <1>1, <1>2 DEF Promise!vars

\* A message of the publisher takes no viewer's next unit away: what
\* BroadcastScreen collects for a viewer begins with it.
LEMMA BroadcastImplements ==
  ASSUME IInv, NEW n \in 1 .. MaxPerFeed, BroadcastScreen(n)
  PROVE  Promise!Produce
<1> USE DEF pubVars, viewerVars, loopVars, handlerVars, inbox
<1>1. emitted \in Nat /\ n \in Nat /\ n > 0 /\ emitted' = emitted + n
  BY ScreenShareAssumption
     DEF BroadcastScreen, ScreenShareAssumption, IInv, TypeOK
<1>2. /\ initHeader' \in IF emitted = 0 THEN BOOLEAN ELSE {initHeader}
      /\ UNCHANGED <<held, handler, last, fresh, watching>>
  BY DEF BroadcastScreen
<1>3. Ended' = Ended
  BY DEF BroadcastScreen, Ended
<1>4. ASSUME NEW v \in Viewers PROVE NextUnit(v)' = NextUnit(v)
  <2>1. CASE v \notin watching \/ v \in Ended
    BY <1>2, <1>3, <2>1 DEF NextUnit
  <2>2. CASE v \in watching /\ v \notin Ended /\ v \in initPending /\ emitted # 0
    <3>1. v \in initPending'
      BY <2>2 DEF BroadcastScreen
    <3> QED
      BY <1>1, <1>2, <1>3, <2>2, <3>1 DEF NextUnit
  <2>3. CASE /\ v \in watching /\ v \notin Ended
             /\ v \notin initPending \/ emitted = 0
    <3>1. todo[v] = {}
      BY DEF BroadcastScreen, IInv, TodoInv
    <3>2. NextUnit(v) = emitted + 1
      BY <1>1, <2>3, <3>1 DEF NextUnit
    <3>3. todo'[v] = emitted + 1 .. emitted' /\ v \notin initPending'
      BY <1>1, <2>3 DEF BroadcastScreen, UnitsFor
    <3>4. emitted' \in Nat /\ emitted + 1 \in 1 .. emitted'
      BY <1>1
    <3>5. Min(emitted + 1 .. emitted') = emitted + 1
      BY <3>4, MinOfInterval
    <3>6. emitted + 1 \in emitted + 1 .. emitted' /\ emitted' # 0
      BY <1>1
    <3> QED
      BY <1>1, <1>2, <1>3, <2>3, <3>2, <3>3, <3>5, <3>6 DEF NextUnit
  <2> QED
    BY <2>1, <2>2, <2>3
<1>5. emitted' \in Nat /\ emitted' > emitted
  BY <1>1
<1> QED
  BY <1>2, <1>3, <1>4, <1>5 DEF Promise!Produce

\* A write of BroadcastScreen is the viewer's next unit.
LEMMA WriteUnitImplements ==
  ASSUME IInv, NEW v \in Viewers, WriteUnit(v)
  PROVE  [Promise!Next]_(Promise!vars)
<1> USE DEF pubVars, viewerVars, loopVars, handlerVars, inbox
<1>1. PICK k \in 1 .. emitted :
        /\ todo[v] = k .. emitted
        /\ todo' = [todo EXCEPT ![v] = k + 1 .. emitted]
        /\ Receive(v, k, k = 1)
  BY WriteUnitWritesNext DEF IInv
<1>2. /\ UNCHANGED <<emitted, initHeader, held, handler, watching, initPending,
                     broken>>
      /\ Ended = broken /\ Ended' = broken
  BY DEF WriteUnit, Ended
<1>3. emitted \in Nat /\ k \in Nat /\ k > 0 /\ k <= emitted /\ k \in todo[v]
  BY <1>1, ScreenShareAssumption DEF ScreenShareAssumption, IInv, TypeOK
<1>4. ASSUME NEW w \in Viewers, w # v PROVE NextUnit(w)' = NextUnit(w)
  BY <1>1, <1>2, <1>4 DEF NextUnit, IInv, TypeOK
<1>5. CASE v \in broken
  <2>1. NextUnit(v) = 0 /\ NextUnit(v)' = 0
    BY <1>2, <1>5 DEF NextUnit
  <2>2. UNCHANGED <<last, fresh>>
    BY <1>1, <1>5 DEF Receive
  <2>3. ASSUME NEW w \in Viewers PROVE NextUnit(w)' = NextUnit(w)
    BY <1>4, <2>1
  <2> QED
    BY <1>2, <2>2, <2>3 DEF Promise!vars
<1>6. CASE v \notin broken
  <2>1. v \in watching /\ v \notin initPending /\ handler[v] # "out"
    BY <1>2, <1>3, <1>6 DEF IInv, GateInv
  <2>2. NextUnit(v) = k
    <3>1. Min(todo[v]) = k
      BY <1>1, <1>3, MinOfInterval
    <3>2. emitted # 0 /\ todo[v] # {}
      BY <1>3
    <3> QED
      BY <1>2, <1>6, <2>1, <3>1, <3>2 DEF NextUnit
  <2>3. NextUnit(v)' = k + 1
    <3>1. todo'[v] = k + 1 .. emitted
      BY <1>1 DEF IInv, TypeOK
    <3>2. CASE k = emitted
      <4>1. todo'[v] = {}
        BY <1>3, <3>1, <3>2
      <4> QED
        BY <1>2, <1>3, <1>6, <2>1, <3>2, <4>1 DEF NextUnit
    <3>3. CASE k < emitted
      <4>1. k + 1 \in 1 .. emitted
        BY <1>3, <3>3
      <4>2. Min(k + 1 .. emitted) = k + 1
        BY <1>3, <4>1, MinOfInterval
      <4>3. todo'[v] # {} /\ emitted # 0
        BY <1>3, <3>1, <4>1
      <4> QED
        BY <1>2, <1>3, <1>6, <2>1, <3>1, <4>2, <4>3 DEF NextUnit
    <3> QED
      BY <1>3, <3>2, <3>3
  <2>4. [w \in Viewers |-> NextUnit(w)]' =
          [[w \in Viewers |-> NextUnit(w)] EXCEPT ![v] = k + 1]
    BY <1>4, <2>3
  <2>5. /\ last' = [last EXCEPT ![v] = k]
        /\ fresh' = IF k = 1 THEN fresh \cup {v} ELSE fresh \ {v}
    BY <1>1, <1>6 DEF Receive
  <2>6. Promise!Cluster(v)
    BY <1>2, <1>3, <2>2, <2>4, <2>5 DEF Promise!Cluster
  <2> QED
    BY <2>6 DEF Promise!Next
<1> QED
  BY <1>5, <1>6

\* A viewer that registers before the keyframe is tuned in at once, and what it
\* takes from the cache is the newest there is.
LEMMA RegisterImplements ==
  ASSUME IInv, NEW v \in Viewers, RegisterScreenViewer(v)
  PROVE  Promise!Come(v)
<1> USE DEF pubVars, viewerVars, loopVars, handlerVars, inbox
<1>1. /\ v \notin watching /\ v \notin broken /\ v \notin targets
      /\ held[v] = 0 /\ todo[v] = {}
  BY DEF RegisterScreenViewer, IInv, GateInv
<1>2. v \notin Ended /\ Ended' = Ended
  BY <1>1 DEF RegisterScreenViewer, Ended
<1>3. /\ UNCHANGED <<emitted, initHeader, todo, last, fresh>>
      /\ watching' = watching \cup {v} /\ initPending' = initPending \cup {v}
      /\ held' = [held EXCEPT ![v] = Served]
  BY DEF RegisterScreenViewer
<1>4. Served = Promise!Newest
  BY ScreenShareAssumption DEF ScreenShareAssumption, Served, Promise!Newest,
     IInv, TypeOK, CacheInv
<1>5. {w \in Viewers : handler[w] = "sending"}' =
        {w \in Viewers : handler[w] = "sending"}
  BY DEF RegisterScreenViewer, Goto, IInv, TypeOK
<1>6. NextUnit(v) = 0 /\ NextUnit(v)' = IF emitted = 0 THEN 1 ELSE 0
  BY <1>1, <1>2, <1>3 DEF NextUnit
<1>7. ASSUME NEW w \in Viewers, w # v PROVE NextUnit(w)' = NextUnit(w)
  BY <1>2, <1>3, <1>7 DEF NextUnit
<1>8. [w \in Viewers |-> NextUnit(w)]' =
        IF emitted = 0 THEN [[w \in Viewers |-> NextUnit(w)] EXCEPT ![v] = 1]
        ELSE [w \in Viewers |-> NextUnit(w)]
  BY <1>6, <1>7
<1> QED
  BY <1>1, <1>2, <1>3, <1>4, <1>5, <1>6, <1>8 DEF Promise!Come

\* What a viewer's own loop serves is the init it registered for ...
LEMMA ServeInitImplements ==
  ASSUME IInv, NEW v \in Viewers, ServeInit(v)
  PROVE  Promise!Keyframe(v)
<1> USE DEF pubVars, viewerVars, loopVars, handlerVars, inbox
<1>1. held[v] # 0 /\ last[v] = 0
  BY DEF ServeInit, IInv, GateInv
<1>2. /\ last' = [last EXCEPT ![v] = held[v]] /\ fresh' = fresh \cup {v}
      /\ UNCHANGED <<emitted, initHeader, held, watching, initPending, todo>>
  BY DEF ServeInit, Receive
<1>3. Ended' = Ended
  BY DEF ServeInit, Ended
<1>4. {w \in Viewers : handler[w] = "sending"}' =
        {w \in Viewers : handler[w] = "sending"} \ {v}
  BY DEF ServeInit, Goto, IInv, TypeOK
<1>5. ASSUME NEW w \in Viewers PROVE NextUnit(w)' = NextUnit(w)
  BY <1>2, <1>3 DEF NextUnit
<1> QED
  BY <1>1, <1>2, <1>3, <1>4, <1>5 DEF Promise!Keyframe

\* ... or the keyframe it has asked for, unless its connection is closed.
LEMMA SendKeyframeImplements ==
  ASSUME IInv, NEW v \in Viewers, SendScreenKeyframe(v)
  PROVE  Promise!Keyframe(v) \/ Promise!Lapse(v)
<1> USE DEF pubVars, viewerVars, loopVars, handlerVars, inbox
<1>1. held[v] # 0 /\ handler[v] = "sending"
  BY DEF SendScreenKeyframe, IInv, GateInv
<1>2. UNCHANGED <<emitted, initHeader, held, watching, initPending, todo>>
  BY DEF SendScreenKeyframe
<1>3. Ended' = Ended
  BY DEF SendScreenKeyframe, Ended
<1>4. {w \in Viewers : handler[w] = "sending"}' =
        {w \in Viewers : handler[w] = "sending"} \ {v}
  BY DEF SendScreenKeyframe, Goto, IInv, TypeOK
<1>5. ASSUME NEW w \in Viewers PROVE NextUnit(w)' = NextUnit(w)
  BY <1>2, <1>3 DEF NextUnit
<1>6. CASE v \in broken
  <2>1. v \in Ended /\ UNCHANGED <<last, fresh>>
    BY <1>6 DEF SendScreenKeyframe, Receive, Ended
  <2> QED
    BY <1>2, <1>3, <1>4, <1>5, <2>1 DEF Promise!Lapse
<1>7. CASE v \notin broken
  <2>1. last' = [last EXCEPT ![v] = held[v]] /\ fresh' = fresh \cup {v}
    BY <1>7 DEF SendScreenKeyframe, Receive
  <2> QED
    BY <1>1, <1>2, <1>3, <1>4, <1>5, <2>1 DEF Promise!Keyframe
<1> QED
  BY <1>6, <1>7

\* The gate opens behind the init, with nothing collected for the viewer yet.
LEMMA GateImplements ==
  ASSUME IInv, NEW v \in Viewers, MarkScreenInitDelivered(v)
  PROVE  [Promise!Next]_(Promise!vars)
<1> USE DEF pubVars, viewerVars, loopVars, handlerVars, inbox
<1>1. /\ UNCHANGED <<emitted, initHeader, held, watching, todo, last, fresh>>
      /\ initPending' = initPending \ {v}
  BY DEF MarkScreenInitDelivered
<1>2. Ended' = Ended
  BY DEF MarkScreenInitDelivered, Ended
<1>3. {w \in Viewers : handler[w] = "sending"}' =
        {w \in Viewers : handler[w] = "sending"}
  BY DEF MarkScreenInitDelivered, Goto, IInv, TypeOK
<1>4. ASSUME NEW w \in Viewers, w # v PROVE NextUnit(w)' = NextUnit(w)
  BY <1>1, <1>2, <1>4 DEF NextUnit
<1>5. CASE v \in Ended
  <2>1. NextUnit(v)' = NextUnit(v)
    BY <1>2, <1>5 DEF NextUnit
  <2>2. ASSUME NEW w \in Viewers PROVE NextUnit(w)' = NextUnit(w)
    BY <1>4, <2>1
  <2> QED
    BY <1>1, <1>2, <1>3, <2>2 DEF Promise!vars
<1>6. CASE v \notin Ended
  <2>1. v \in initPending /\ last[v] > 0 /\ todo[v] = {}
    BY <1>6 DEF MarkScreenInitDelivered, IInv, GateInv
  <2>2. v \in watching /\ emitted # 0
    BY <2>1, ScreenShareAssumption
       DEF ScreenShareAssumption, IInv, TypeOK, CacheInv
  <2>3. NextUnit(v) = 0 /\ NextUnit(v)' = emitted + 1
    BY <1>1, <1>2, <1>6, <2>1, <2>2 DEF NextUnit
  <2>4. [w \in Viewers |-> NextUnit(w)]' =
          [[w \in Viewers |-> NextUnit(w)] EXCEPT ![v] = emitted + 1]
    BY <1>4, <2>3
  <2>5. Promise!TuneIn(v)
    BY <1>1, <1>2, <1>3, <1>6, <2>1, <2>3, <2>4 DEF Promise!TuneIn
  <2> QED
    BY <2>5 DEF Promise!Next
<1> QED
  BY <1>5, <1>6

\* A request before the keyframe finds nothing to send.
LEMMA RequestImplements ==
  ASSUME IInv, NEW v \in Viewers, RequestKeyframe(v)
  PROVE  [Promise!Next]_(Promise!vars)
<1> USE DEF pubVars, viewerVars, loopVars, handlerVars, inbox
<1>1. /\ UNCHANGED <<emitted, initHeader, watching, initPending, todo, last,
                     fresh>>
      /\ held' = [held EXCEPT ![v] = Served]
  BY DEF RequestKeyframe
<1>2. Ended' = Ended
  BY DEF RequestKeyframe, Ended
<1>3. /\ emitted \in Nat /\ held[v] \in Nat /\ held[v] <= emitted
      /\ Served = 0 <=> emitted = 0
  BY ScreenShareAssumption DEF ScreenShareAssumption, IInv, TypeOK, CacheInv,
     Served
<1>4. CASE emitted = 0
  <2>1. held' = held
    BY <1>1, <1>3, <1>4 DEF IInv, TypeOK
  <2>2. \A w \in Viewers : handler'[w] = "sending" <=> handler[w] = "sending"
    BY <1>3, <1>4 DEF RequestKeyframe, Goto, IInv, TypeOK
  <2> QED
    BY <1>1, <1>2, <2>1, <2>2, NothingSeen
<1>5. CASE emitted # 0
  <2>1. {w \in Viewers : handler[w] = "sending"}' =
          {w \in Viewers : handler[w] = "sending"} \cup {v}
    BY <1>3, <1>5 DEF RequestKeyframe, Goto, IInv, TypeOK
  <2>2. Served = Promise!Newest
    BY ScreenShareAssumption DEF ScreenShareAssumption, Served, Promise!Newest,
       IInv, TypeOK, CacheInv
  <2>3. ASSUME NEW w \in Viewers PROVE NextUnit(w)' = NextUnit(w)
    BY <1>1, <1>2 DEF NextUnit
  <2>4. handler[v] # "sending" /\ emitted > 0
    BY <1>3, <1>5 DEF RequestKeyframe
  <2>5. Promise!Ask(v)
    BY <1>1, <1>2, <2>1, <2>2, <2>3, <2>4 DEF Promise!Ask
  <2> QED
    BY <2>5 DEF Promise!Next
<1> QED
  BY <1>4, <1>5

\* Whoever leaves or is closed is owed nothing more, and nobody else loses
\* anything by it.
LEMMA EndImplements ==
  ASSUME IInv,
         \/ ClearScreenPublisher
         \/ \E v \in Viewers :
              WriteFails(v) \/ ServeInitFails(v) \/ RemoveScreenViewer(v)
  PROVE  Promise!End
<1> USE DEF pubVars, viewerVars, loopVars, handlerVars, inbox
<1>1. CASE ClearScreenPublisher
  <2>1. /\ UNCHANGED <<emitted, initHeader, held, handler, last, fresh>>
        /\ Ended = broken /\ Ended' = broken \cup watching /\ watching' = {}
        /\ Ended' \subseteq Viewers
    BY <1>1 DEF ClearScreenPublisher, Ended, IInv, TypeOK
  <2>2. ASSUME NEW w \in Viewers
        PROVE  NextUnit(w)' = IF w \in Ended' THEN 0 ELSE NextUnit(w)
    BY <2>1 DEF NextUnit
  <2> QED
    BY <2>1, <2>2 DEF Promise!End
<1>2. ASSUME NEW v \in Viewers,
             WriteFails(v) \/ ServeInitFails(v) \/ RemoveScreenViewer(v)
      PROVE  Promise!End
  <2>1. /\ UNCHANGED <<emitted, initHeader, held, last, fresh>>
        /\ Ended' = Ended \cup {v} /\ Ended' \subseteq Viewers
    BY <1>2 DEF WriteFails, ServeInitFails, RemoveScreenViewer, Ended, IInv,
       TypeOK
  <2>2. {w \in Viewers : handler[w] = "sending"}' =
          {w \in Viewers : handler[w] = "sending"}
    BY <1>2 DEF WriteFails, ServeInitFails, RemoveScreenViewer, Goto, IInv, TypeOK
  <2>3. /\ \A w \in Viewers \ {v} : todo'[w] = todo[w]
        /\ watching' \in {watching, watching \ {v}}
        /\ initPending' \in {initPending, initPending \ {v}}
    BY <1>2 DEF WriteFails, ServeInitFails, RemoveScreenViewer, IInv, TypeOK
  <2>4. ASSUME NEW w \in Viewers
        PROVE  NextUnit(w)' = IF w \in Ended' THEN 0 ELSE NextUnit(w)
    BY <2>1, <2>3 DEF NextUnit
  <2> QED
    BY <2>1, <2>2, <2>4 DEF Promise!End
<1> QED
  BY <1>1, <1>2

\* Every step of the code is a step of ViewerStream or none.
LEMMA StepImplements ==
  IInv /\ [Next]_vars => [Promise!Next]_(Promise!vars)
<1> SUFFICES ASSUME IInv, [Next]_vars PROVE [Promise!Next]_(Promise!vars)
  OBVIOUS
<1>1. ASSUME \/ LockWrites \/ UnlockWrites
             \/ \E m \in Modes : SetMode(m)
             \/ CollectViewers \/ TellMode \/ CloseViewers
             \/ UNCHANGED vars
      PROVE  UNCHANGED Promise!vars
  <2> USE DEF pubVars, viewerVars, loopVars, handlerVars, inbox
  <2>1. UNCHANGED <<emitted, initHeader, watching, initPending, todo, held,
                    last, fresh, handler>>
    BY <1>1 DEF LockWrites, UnlockWrites, SetMode, CollectViewers, TellMode,
       CloseViewers, vars
  <2>2. Ended' = Ended
    BY <1>1 DEF LockWrites, UnlockWrites, SetMode, CollectViewers, TellMode,
       CloseViewers, vars, Ended
  <2> QED
    BY <2>1, <2>2, NothingSeen
<1>2. ASSUME NEW v \in Viewers, ReadMode(v) \/ NotifyViewerMode(v)
      PROVE  UNCHANGED Promise!vars
  <2> USE DEF pubVars, viewerVars, loopVars, handlerVars, inbox
  <2>1. UNCHANGED <<emitted, initHeader, watching, initPending, todo, held,
                    last, fresh>>
    BY <1>2 DEF ReadMode, NotifyViewerMode
  <2>2. Ended' = Ended
    BY <1>2 DEF ReadMode, NotifyViewerMode, Ended
  <2>3. \A w \in Viewers : handler'[w] = "sending" <=> handler[w] = "sending"
    BY <1>2 DEF ReadMode, NotifyViewerMode, Goto, IInv, TypeOK
  <2> QED
    BY <2>1, <2>2, <2>3, NothingSeen
<1>3. ASSUME NEW n \in 1 .. MaxPerFeed, BroadcastScreen(n)
      PROVE  Promise!Next
  BY <1>3, BroadcastImplements DEF Promise!Next
<1>4. ASSUME NEW v \in Viewers, RegisterScreenViewer(v) PROVE Promise!Next
  BY <1>4, RegisterImplements DEF Promise!Next
<1>5. ASSUME NEW v \in Viewers, ServeInit(v) \/ SendScreenKeyframe(v)
      PROVE  Promise!Next
  BY <1>5, ServeInitImplements, SendKeyframeImplements DEF Promise!Next
<1>6. ASSUME NEW v \in Viewers,
             WriteUnit(v) \/ MarkScreenInitDelivered(v) \/ RequestKeyframe(v)
      PROVE  [Promise!Next]_(Promise!vars)
  BY <1>6, WriteUnitImplements, GateImplements, RequestImplements
<1>7. ASSUME \/ ClearScreenPublisher
             \/ \E v \in Viewers :
                  WriteFails(v) \/ ServeInitFails(v) \/ RemoveScreenViewer(v)
      PROVE  Promise!Next
  BY <1>7, EndImplements DEF Promise!Next
<1> QED
  BY <1>1, <1>2, <1>3, <1>4, <1>5, <1>6, <1>7
     DEF Next, HandleScreenPublisher, HandleScreenViewer

\* The relay with its gate, its caches and its locks implements ViewerStream: a
\* viewer gets one keyframe before any Cluster and one more for each request,
\* and from the moment its gate opens it gets every Cluster once and in order,
\* however registration, init, broadcast and request_keyframe interleave.  What
\* is lost is what was relayed before, between its registration and that moment.
THEOREM Implements == Spec => StreamsInOrder
<1>1. Init => Promise!Init
  <2> SUFFICES ASSUME Init PROVE Promise!Init
    OBVIOUS
  <2>1. {v \in Viewers : handler[v] = "sending"} = {}
    BY DEF Init
  <2>2. Ended = {}
    BY DEF Init, Ended
  <2>3. ASSUME NEW v \in Viewers PROVE NextUnit(v) = 0
    BY DEF Init, NextUnit
  <2> QED
    BY <2>1, <2>2, <2>3 DEF Init, Promise!Init
<1>2. IInv /\ [Next]_vars => [Promise!Next]_(Promise!vars)
  BY StepImplements
<1> QED
  BY <1>1, <1>2, Invariance, PTL DEF Spec, StreamsInOrder, Promise!Spec
=============================================================================
