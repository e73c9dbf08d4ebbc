-------------------------- MODULE RoomManagerProofs --------------------------
(***************************************************************************)
(* Proofs about RoomManager, for any sets of Room objects and connections  *)
(* and any limit of screen shares: its type invariant and its five safety  *)
(* properties.  IInv, at the end, is the inductive invariant; the lemmas   *)
(* before it take its conjuncts one at a time through every action.        *)
(***************************************************************************)
EXTENDS RoomManager, FiniteSetTheorems, TLAPS

USE DEF connVars, roomVars, sfuVars, closeVars, mapVars, Conns

-----------------------------------------------------------------------------
(* The conjuncts of the inductive invariant                                *)

\* A handler that is under way points to a Room that has been created, and a
\* viewer that has resolved its target points to a publisher.
PointerInv ==
  /\ \A c \in Conns :
       pc[c] \notin {"idle", "done"} =>
         at[c] \in Rooms /\ life[at[c]] # "fresh"
  /\ \A v \in Viewers :
       pc[v] \in {"targeted", "in"} => target[v] \in Publishers

\* The Room the key is bound to is neither being removed nor gone.
BoundInv == \A r \in Rooms : rooms = r => life[r] = "listed"

\* Nobody is registered with a Room that does not exist yet.
FreshInv ==
  \A r \in Rooms : life[r] = "fresh" => clients[r] = {} /\ publishers[r] = {}

\* Members have a handler that will take them out: LeaveRoom finds the listed
\* Room, ClearScreenPublisher the Room it has a pointer to.
MemberInv ==
  /\ \A r \in Rooms : \A c \in clients[r] :
       rooms = r => pc[c] \in {"in", "leaving"} /\ at[c] = r
  /\ \A r \in Rooms : \A p \in publishers[r] : pc[p] = "in" /\ at[p] = r

MapInv == PointerInv /\ BoundInv /\ FreshInv /\ MemberInv

\* Lists of connections to close exist only while somebody works them off.
TidyInv ==
  /\ \A r \in Rooms :
       life[r] \notin {"cleared", "sfusClosed"} => evict[r] = {}
  /\ \A r \in Rooms : life[r] # "cleared" => sfus[r] = {}
  /\ \A p \in Publishers :
       pc[p] \notin {"releasing", "dismissing"} => dismiss[p] = {}

\* Why RemovalEvicts holds: RemoveClear moves whom it finds to its list, and
\* DropClient whom it takes away before that to its own.
Accounted(c) ==
  \/ /\ c \in clients[at[c]] \/ c \in publishers[at[c]]
     /\ life[at[c]] \notin {"cleared", "sfusClosed", "removed"}
  \/ life[at[c]] \in {"cleared", "sfusClosed"} /\ c \in evict[at[c]]
  \/ \E d \in Clients : c \in drop[d]

EvictInv ==
  \A c \in Clients \cup Publishers :
    pc[c] = "in" /\ c \in open /\ c \notin late => Accounted(c)

\* Why SfuReleased holds: an open SFU is reached through its publisher, or
\* somebody has taken it over to close it.
SfuInv ==
  \A p \in Publishers :
    sfu[p] = "open" =>
      \/ at[p] \in Rooms /\ p \in publishers[at[p]]
      \/ pc[p] = "releasing"
      \/ \E r \in Rooms : p \in sfus[r]

\* A step adds to screenPublishers one at a time and below the limit only.
GrowsBelowLimit ==
  \A r \in Rooms :
    \/ publishers'[r] \subseteq publishers[r]
    \/ \E p \in Publishers :
         HasRoomFor(r) /\ publishers'[r] = publishers[r] \cup {p}

-----------------------------------------------------------------------------
(* One lemma per conjunct: every step preserves it                         *)

\* A handler that goes on keeps its pointer to the Room.
LEMMA GotoKeepsRoom ==
  ASSUME TypeOK, NEW c \in Conns, NEW stage, Goto(c, stage)
  PROVE  at' = at /\ pc' = [pc EXCEPT ![c] = stage]
  BY DEF Goto, Move, TypeOK

\* TypeOK: every action assigns each variable a value of its type.  That a
\* handler's pointer is a Room when it is used needs PointerInv.
LEMMA TypeStep ==
  TypeOK /\ PointerInv /\ [Next]_vars => TypeOK'
<1> SUFFICES ASSUME TypeOK, PointerInv, [Next]_vars
             PROVE  TypeOK'
  OBVIOUS
<1>1. ASSUME NEW r \in Rooms, CreateRoom(r) PROVE TypeOK'
  BY <1>1, RoomManagerAssumption DEF CreateRoom, TypeOK, Life, Stage
<1>2. ASSUME NEW r \in Rooms, RemoveUnlist(r) PROVE TypeOK'
  BY <1>2, RoomManagerAssumption DEF RemoveUnlist, TypeOK, Life, Stage
<1>3. ASSUME NEW r \in Rooms, RemoveStopTimer(r) PROVE TypeOK'
  BY <1>3, RoomManagerAssumption DEF RemoveStopTimer, StopTimer, TypeOK,
     Life, Stage
<1>4. ASSUME NEW r \in Rooms, RemoveClear(r) PROVE TypeOK'
  BY <1>4, RoomManagerAssumption DEF RemoveClear, Collected, CollectedSfus,
     TypeOK, Life, Stage
<1>5. ASSUME NEW r \in Rooms, RemoveCloseSfus(r) PROVE TypeOK'
  BY <1>5, RoomManagerAssumption DEF RemoveCloseSfus, SfuClosed, TypeOK, Life, Stage
<1>6. ASSUME NEW r \in Rooms, RemoveClose(r) PROVE TypeOK'
  BY <1>6, RoomManagerAssumption DEF RemoveClose, TypeOK, Life, Stage
<1>7. ASSUME NEW r \in Rooms, TimerFires(r) PROVE TypeOK'
  BY <1>7, RoomManagerAssumption DEF TimerFires, StopTimer, TypeOK, Life,
     Stage
<1>8. ASSUME NEW r \in Rooms, DestroyCheck(r) PROVE TypeOK'
  BY <1>8, RoomManagerAssumption DEF DestroyCheck, TypeOK, Life, Stage
<1>9. ASSUME NEW r \in Rooms, DestroySkip(r) PROVE TypeOK'
  BY <1>9, RoomManagerAssumption DEF DestroySkip, TypeOK, Life, Stage
<1>10. ASSUME NEW r \in Rooms, DestroyDelete(r) PROVE TypeOK'
  BY <1>10, RoomManagerAssumption DEF DestroyDelete, TypeOK, Life, Stage
<1>11. ASSUME NEW c \in Conns, LookUp(c) PROVE TypeOK'
  BY <1>11, RoomManagerAssumption DEF LookUp, Move, TypeOK, Life, Stage
<1>12. ASSUME NEW c \in Conns, GiveUp(c) PROVE TypeOK'
  BY <1>12, RoomManagerAssumption DEF GiveUp, Return, Move, TypeOK, Life,
     Stage
<1>13. ASSUME NEW c \in Conns, PeerGone(c) PROVE TypeOK'
  BY <1>13, RoomManagerAssumption DEF PeerGone, TypeOK, Life, Stage
<1>14. ASSUME NEW c \in Clients, JoinRegister(c) PROVE TypeOK'
  <2>1. clients \in [Rooms -> SUBSET Clients]
    BY DEF TypeOK
  <2>2. clients' = [clients EXCEPT ![at[c]] = clients[at[c]] \cup {c}]
    BY <1>14 DEF JoinRegister
  <2>3. clients' \in [Rooms -> SUBSET Clients]
    BY ONLY <2>1, <2>2, c \in Clients
  <2> QED
    BY <1>14, <2>3 DEF JoinRegister, StopTimer, Goto, Move,
       TypeOK, Life, Stage
<1>15. ASSUME NEW c \in Clients, EnsureVoiceSFU(c) PROVE TypeOK'
  <2>1. voice' \in [Rooms -> {"nil", "open"}]
    BY <1>15 DEF EnsureVoiceSFU, TypeOK
  <2> QED
    BY <1>15, <2>1 DEF EnsureVoiceSFU, TypeOK, Life, Stage
<1>16. ASSUME NEW c \in Clients, DropClient(c) PROVE TypeOK'
  <2>1. PICK e \in clients[at[c]] :
        /\ clients' = [clients EXCEPT ![at[c]] = clients[at[c]] \ {e}]
        /\ drop' = [drop EXCEPT ![c] = {e}]
    BY <1>16 DEF DropClient
  <2>2. /\ clients \in [Rooms -> SUBSET Clients]
        /\ drop \in [Clients -> SUBSET Clients]
    BY DEF TypeOK
  <2>3. at[c] \in Rooms
    BY <1>16 DEF DropClient, PointerInv
  <2>4. clients' \in [Rooms -> SUBSET Clients]
    BY ONLY <2>1, <2>2
  <2>5. drop' \in [Clients -> SUBSET Clients]
    BY ONLY <2>1, <2>2, <2>3
  <2> QED
    BY <1>16, <2>4, <2>5 DEF DropClient, TypeOK, Life, Stage
<1>17. ASSUME NEW c \in Clients, CloseDropped(c) PROVE TypeOK'
  BY <1>17, RoomManagerAssumption DEF CloseDropped, TypeOK, Life, Stage
<1>18. ASSUME NEW c \in Clients, LeaveLookUp(c) PROVE TypeOK'
  BY <1>18, RoomManagerAssumption DEF LeaveLookUp, Move, TypeOK, Life, Stage
<1>19. ASSUME NEW c \in Clients, LeaveDelete(c) PROVE TypeOK'
  <2>1. clients \in [Rooms -> SUBSET Clients]
    BY DEF TypeOK
  <2>2. clients' = [clients EXCEPT ![at[c]] = clients[at[c]] \ {c}]
    BY <1>19 DEF LeaveDelete
  <2>3. clients' \in [Rooms -> SUBSET Clients]
    BY ONLY <2>1, <2>2
  <2>4. PICK stage \in {"emptied", "done"}, r \in {at[c], NoRoom} :
        Move(c, stage, r)
    BY <1>19 DEF LeaveDelete, Goto, Return
  <2>5. pc' \in [Conns -> Stage] /\ at' \in [Conns -> Rooms \cup {NoRoom}]
    BY <2>4 DEF Move, TypeOK, Stage
  <2> QED
    BY <1>19, <2>3, <2>5 DEF LeaveDelete, TypeOK, Life, Stage
<1>20. ASSUME NEW c \in Clients, LeaveReset(c) PROVE TypeOK'
  BY <1>20, RoomManagerAssumption DEF LeaveReset, ArmTimer, Return, Move,
     TypeOK, Life, Stage
<1>21. ASSUME NEW p \in Publishers, AddScreenPublisher(p) PROVE TypeOK'
  <2>1. publishers \in [Rooms -> SUBSET Publishers]
    BY DEF TypeOK
  <2>2. publishers' = [publishers EXCEPT ![at[p]] = publishers[at[p]] \cup {p}]
    BY <1>21 DEF AddScreenPublisher
  <2>3. publishers' \in [Rooms -> SUBSET Publishers]
    BY ONLY <2>1, <2>2, p \in Publishers
  <2> QED
    BY <1>21, <2>3 DEF AddScreenPublisher, StopTimer, Goto, Move,
       TypeOK, Life, Stage
<1>22. ASSUME NEW p \in Publishers, RejectScreenPublisher(p) PROVE TypeOK'
  BY <1>22, RoomManagerAssumption DEF RejectScreenPublisher, Return, Move,
     TypeOK, Life, Stage
<1>23. ASSUME NEW p \in Publishers, EnsureScreenSFU(p) PROVE TypeOK'
  BY <1>23, RoomManagerAssumption DEF EnsureScreenSFU, TypeOK, Life, Stage
<1>24. ASSUME NEW p \in Publishers, ClearScreenPublisher(p) PROVE TypeOK'
  BY <1>24, RoomManagerAssumption DEF ClearScreenPublisher, Goto,
     Move, TypeOK, Life, Stage
<1>25. ASSUME NEW p \in Publishers, ClearForgottenPublisher(p) PROVE TypeOK'
  BY <1>25, RoomManagerAssumption DEF ClearForgottenPublisher, Goto, Move,
     TypeOK, Life, Stage
<1>26. ASSUME NEW p \in Publishers, CloseScreenSFU(p) PROVE TypeOK'
  BY <1>26, RoomManagerAssumption DEF CloseScreenSFU, SfuClosed, Goto, Move, TypeOK, Life, Stage
<1>27. ASSUME NEW p \in Publishers, DismissViewers(p) PROVE TypeOK'
  BY <1>27, RoomManagerAssumption DEF DismissViewers, Goto, Move, TypeOK,
     Life, Stage
<1>28. ASSUME NEW v \in Viewers, FindTarget(v) PROVE TypeOK'
  <2>1. PICK p \in Publishers : target' = [target EXCEPT ![v] = p]
    BY <1>28 DEF FindTarget, PointerInv, TypeOK
  <2>2. target' \in [Viewers -> Publishers \cup {NoPublisher}]
    BY <2>1 DEF TypeOK
  <2> QED
    BY <1>28, <2>2 DEF FindTarget, Goto, Move, TypeOK, Life, Stage
<1>29. ASSUME NEW v \in Viewers, RegisterScreenViewer(v) PROVE TypeOK'
  <2>1. viewers \in [Publishers -> SUBSET Viewers]
    BY DEF TypeOK
  <2>2. viewers' = [viewers EXCEPT ![target[v]] = viewers[target[v]] \cup {v}]
    BY <1>29 DEF RegisterScreenViewer
  <2>3. viewers' \in [Publishers -> SUBSET Viewers]
    BY ONLY <2>1, <2>2, v \in Viewers
  <2> QED
    BY <1>29, <2>3 DEF RegisterScreenViewer, StopTimer, Goto,
       Move, TypeOK, Life, Stage
<1>30. ASSUME NEW v \in Viewers, RemoveScreenViewer(v) PROVE TypeOK'
  BY <1>30, RoomManagerAssumption DEF RemoveScreenViewer, Goto, Move,
     TypeOK, Life, Stage
<1>31. ASSUME NEW c \in Publishers \cup Viewers, ResetLookUp(c) PROVE TypeOK'
  BY <1>31, RoomManagerAssumption DEF ResetLookUp, Move, TypeOK, Life, Stage
<1>32. ASSUME NEW c \in Publishers \cup Viewers, ResetIdleIfEmpty(c)
      PROVE  TypeOK'
  <2>1. pc' \in [Conns -> Stage] /\ at' \in [Conns -> Rooms \cup {NoRoom}]
    BY <1>32 DEF ResetIdleIfEmpty, Return, Move, TypeOK, Stage
  <2>2. /\ timer' \in [Rooms -> {"stopped", "armed"}]
    BY <1>32 DEF ResetIdleIfEmpty, ArmTimer, TypeOK
  <2> QED
    BY <1>32, <2>1, <2>2 DEF ResetIdleIfEmpty, TypeOK, Life, Stage
<1>33. CASE UNCHANGED vars
  BY <1>33, RoomManagerAssumption DEF vars, TypeOK, Life, Stage
<1> QED
  BY <1>1, <1>2, <1>3, <1>4, <1>5, <1>6, <1>7, <1>8, <1>9, <1>10, <1>11,
     <1>12, <1>13, <1>14, <1>15, <1>16, <1>17, <1>18, <1>19, <1>20, <1>21,
     <1>22, <1>23, <1>24, <1>25, <1>26, <1>27, <1>28, <1>29, <1>30, <1>31,
     <1>32, <1>33 DEF Next, RemoveRoom, IdleTimer, AnyHandler,
     HandleAudioStream, HandleScreenPublisher, HandleScreenViewer, ResetIdle

\* MapInv: the key, the Room objects and the handlers' pointers stay in step.
LEMMA MapStep ==
  TypeOK /\ TypeOK' /\ MapInv /\ [Next]_vars => MapInv'
<1> SUFFICES ASSUME TypeOK, TypeOK', MapInv, [Next]_vars
             PROVE  MapInv'
  OBVIOUS
<1> USE RoomManagerAssumption DEF MapInv, TypeOK, PointerInv, BoundInv,
        FreshInv, MemberInv
<1>1. ASSUME NEW r \in Rooms, CreateRoom(r) PROVE MapInv'
  BY <1>1 DEF CreateRoom
<1>2. ASSUME NEW r \in Rooms, RemoveUnlist(r) PROVE MapInv'
  BY <1>2 DEF RemoveUnlist
<1>3. ASSUME NEW r \in Rooms, RemoveStopTimer(r) PROVE MapInv'
  BY <1>3 DEF RemoveStopTimer, StopTimer
<1>4. ASSUME NEW r \in Rooms, RemoveClear(r) PROVE MapInv'
  BY <1>4 DEF RemoveClear, Collected, CollectedSfus
<1>5. ASSUME NEW r \in Rooms, RemoveCloseSfus(r) PROVE MapInv'
  BY <1>5 DEF RemoveCloseSfus, SfuClosed
<1>6. ASSUME NEW r \in Rooms, RemoveClose(r) PROVE MapInv'
  BY <1>6 DEF RemoveClose
<1>7. ASSUME NEW r \in Rooms, TimerFires(r) PROVE MapInv'
  BY <1>7 DEF TimerFires, StopTimer
<1>8. ASSUME NEW r \in Rooms, DestroyCheck(r) PROVE MapInv'
  BY <1>8 DEF DestroyCheck
<1>9. ASSUME NEW r \in Rooms, DestroySkip(r) PROVE MapInv'
  BY <1>9 DEF DestroySkip
<1>10. ASSUME NEW r \in Rooms, DestroyDelete(r) PROVE MapInv'
  BY <1>10 DEF DestroyDelete
<1>11. ASSUME NEW c \in Conns, LookUp(c) PROVE MapInv'
  BY <1>11 DEF LookUp, Move
<1>12. ASSUME NEW c \in Conns, GiveUp(c) PROVE MapInv'
  BY <1>12 DEF GiveUp, Return, Move
<1>13. ASSUME NEW c \in Conns, PeerGone(c) PROVE MapInv'
  BY <1>13 DEF PeerGone
<1>14. ASSUME NEW c \in Clients, JoinRegister(c) PROVE MapInv'
  BY <1>14 DEF JoinRegister, Goto, Move, StopTimer
<1>15. ASSUME NEW c \in Clients, EnsureVoiceSFU(c) PROVE MapInv'
  BY <1>15 DEF EnsureVoiceSFU
<1>16. ASSUME NEW c \in Clients, DropClient(c) PROVE MapInv'
  BY <1>16 DEF DropClient
<1>17. ASSUME NEW c \in Clients, CloseDropped(c) PROVE MapInv'
  BY <1>17 DEF CloseDropped
<1>18. ASSUME NEW c \in Clients, LeaveLookUp(c) PROVE MapInv'
  BY <1>18 DEF LeaveLookUp, Move
<1>19. ASSUME NEW c \in Clients, LeaveDelete(c) PROVE MapInv'
  <2>1. CASE Goto(c, "emptied")
    BY <1>19, <2>1 DEF LeaveDelete, Goto, Move
  <2>2. CASE Return(c)
    BY <1>19, <2>2 DEF LeaveDelete, Return, Move
  <2> QED
    BY <1>19, <2>1, <2>2 DEF LeaveDelete
<1>20. ASSUME NEW c \in Clients, LeaveReset(c) PROVE MapInv'
  BY <1>20 DEF LeaveReset, ArmTimer, Return, Move
<1>21. ASSUME NEW p \in Publishers, AddScreenPublisher(p) PROVE MapInv'
  <2>1. /\ pc[p] = "found" /\ at[p] \in Rooms /\ life[at[p]] # "fresh"
        /\ pc' = [pc EXCEPT ![p] = "in"] /\ at' = at
        /\ publishers' = [publishers EXCEPT ![at[p]] = @ \cup {p}]
        /\ UNCHANGED <<rooms, life, clients, target>>
    <3>1. at' = at /\ pc' = [pc EXCEPT ![p] = "in"]
      BY <1>21, GotoKeepsRoom DEF AddScreenPublisher
    <3> QED
      BY <1>21, <3>1 DEF AddScreenPublisher
  <2>2. PointerInv'
    BY <2>1
  <2>3. BoundInv' /\ FreshInv'
    BY <2>1
  <2>4. MemberInv'
    BY <2>1
  <2> QED
    BY <2>2, <2>3, <2>4
<1>22. ASSUME NEW p \in Publishers, RejectScreenPublisher(p) PROVE MapInv'
  BY <1>22 DEF RejectScreenPublisher, Return, Move
<1>23. ASSUME NEW p \in Publishers, EnsureScreenSFU(p) PROVE MapInv'
  BY <1>23 DEF EnsureScreenSFU
<1>24. ASSUME NEW p \in Publishers, ClearScreenPublisher(p) PROVE MapInv'
  BY <1>24 DEF ClearScreenPublisher, Goto, Move
<1>25. ASSUME NEW p \in Publishers, ClearForgottenPublisher(p) PROVE MapInv'
  BY <1>25 DEF ClearForgottenPublisher, Goto, Move
<1>26. ASSUME NEW p \in Publishers, CloseScreenSFU(p) PROVE MapInv'
  <2>1. /\ pc[p] = "releasing" /\ at' = at
        /\ pc' = [pc EXCEPT ![p] = "dismissing"]
        /\ UNCHANGED <<rooms, life, clients, publishers, target>>
    BY <1>26, GotoKeepsRoom DEF CloseScreenSFU
  <2>2. PointerInv'
    BY <2>1
  <2>3. BoundInv' /\ FreshInv'
    BY <2>1
  <2>4. MemberInv'
    BY <2>1
  <2> QED
    BY <2>2, <2>3, <2>4
<1>27. ASSUME NEW p \in Publishers, DismissViewers(p) PROVE MapInv'
  <2>1. /\ pc[p] = "dismissing"
        /\ pc' = [pc EXCEPT ![p] = "resetLookup"]
        /\ at' = [at EXCEPT ![p] = at[p]]
        /\ UNCHANGED <<rooms, life, clients, publishers, target>>
    BY <1>27 DEF DismissViewers, Goto, Move
  <2>2. PointerInv'
    BY <2>1
  <2>3. BoundInv' /\ FreshInv'
    BY <2>1
  <2>4. MemberInv'
    BY <2>1
  <2> QED
    BY <2>2, <2>3, <2>4
<1>28. ASSUME NEW v \in Viewers, FindTarget(v) PROVE MapInv'
  <2>1. PICK p \in publishers[at[v]] : target' = [target EXCEPT ![v] = p]
    BY <1>28 DEF FindTarget
  <2>2. /\ pc[v] = "found" /\ at' = at /\ p \in Publishers
        /\ pc' = [pc EXCEPT ![v] = "targeted"]
        /\ UNCHANGED <<rooms, life, clients, publishers>>
    <3>1. at' = at /\ pc' = [pc EXCEPT ![v] = "targeted"]
      BY <1>28, GotoKeepsRoom DEF FindTarget
    <3>2. at[v] \in Rooms
      BY <1>28 DEF FindTarget
    <3> QED
      BY <1>28, <2>1, <3>1, <3>2 DEF FindTarget
  <2>3. PointerInv'
    BY <2>1, <2>2
  <2>4. BoundInv' /\ FreshInv'
    BY <2>2
  <2>5. MemberInv'
    BY <2>2
  <2> QED
    BY <2>3, <2>4, <2>5
<1>29. ASSUME NEW v \in Viewers, RegisterScreenViewer(v) PROVE MapInv'
  <2>1. /\ pc[v] = "targeted"
        /\ pc' = [pc EXCEPT ![v] = "in"]
        /\ at' = [at EXCEPT ![v] = at[v]]
        /\ UNCHANGED <<rooms, life, clients, publishers, target>>
    BY <1>29 DEF RegisterScreenViewer, Goto, Move
  <2>2. PointerInv'
    BY <2>1
  <2>3. BoundInv' /\ FreshInv'
    BY <2>1
  <2>4. MemberInv'
    BY <2>1
  <2> QED
    BY <2>2, <2>3, <2>4
<1>30. ASSUME NEW v \in Viewers, RemoveScreenViewer(v) PROVE MapInv'
  <2>1. /\ pc[v] = "in"
        /\ pc' = [pc EXCEPT ![v] = "resetLookup"]
        /\ at' = [at EXCEPT ![v] = at[v]]
        /\ UNCHANGED <<rooms, life, clients, publishers, target>>
    BY <1>30 DEF RemoveScreenViewer, Goto, Move
  <2>2. PointerInv'
    BY <2>1
  <2>3. BoundInv' /\ FreshInv'
    BY <2>1
  <2>4. MemberInv'
    BY <2>1
  <2> QED
    BY <2>2, <2>3, <2>4
<1>31. ASSUME NEW c \in Publishers \cup Viewers, ResetLookUp(c) PROVE MapInv'
  BY <1>31 DEF ResetLookUp, Move
<1>32. ASSUME NEW c \in Publishers \cup Viewers, ResetIdleIfEmpty(c)
      PROVE  MapInv'
  BY <1>32 DEF ResetIdleIfEmpty, ArmTimer, Return, Move
<1>33. CASE UNCHANGED vars
  BY <1>33 DEF vars
<1> QED
  BY <1>1, <1>2, <1>3, <1>4, <1>5, <1>6, <1>7, <1>8, <1>9, <1>10, <1>11,
     <1>12, <1>13, <1>14, <1>15, <1>16, <1>17, <1>18, <1>19, <1>20, <1>21,
     <1>22, <1>23, <1>24, <1>25, <1>26, <1>27, <1>28, <1>29, <1>30, <1>31,
     <1>32, <1>33 DEF Next, RemoveRoom, IdleTimer, AnyHandler,
     HandleAudioStream, HandleScreenPublisher, HandleScreenViewer, ResetIdle

\* TidyInv: RemoveClose and DismissViewers work their lists off.
LEMMA TidyStep ==
  TypeOK /\ TypeOK' /\ MapInv /\ TidyInv /\ [Next]_vars => TidyInv'
<1> SUFFICES ASSUME TypeOK, TypeOK', MapInv, TidyInv, [Next]_vars
             PROVE  TidyInv'
  OBVIOUS
<1> USE RoomManagerAssumption DEF TidyInv, TypeOK, MapInv, BoundInv
<1>1. ASSUME NEW r \in Rooms, CreateRoom(r) PROVE TidyInv'
  BY <1>1 DEF CreateRoom
<1>2. ASSUME NEW r \in Rooms, RemoveUnlist(r) PROVE TidyInv'
  BY <1>2 DEF RemoveUnlist
<1>3. ASSUME NEW r \in Rooms, RemoveStopTimer(r) PROVE TidyInv'
  BY <1>3 DEF RemoveStopTimer, StopTimer
<1>4. ASSUME NEW r \in Rooms, RemoveClear(r) PROVE TidyInv'
  BY <1>4 DEF RemoveClear, Collected, CollectedSfus
<1>5. ASSUME NEW r \in Rooms, RemoveCloseSfus(r) PROVE TidyInv'
  BY <1>5 DEF RemoveCloseSfus, SfuClosed
<1>6. ASSUME NEW r \in Rooms, RemoveClose(r) PROVE TidyInv'
  BY <1>6 DEF RemoveClose
<1>7. ASSUME NEW r \in Rooms, TimerFires(r) PROVE TidyInv'
  BY <1>7 DEF TimerFires, StopTimer
<1>8. ASSUME NEW r \in Rooms, DestroyCheck(r) PROVE TidyInv'
  BY <1>8 DEF DestroyCheck
<1>9. ASSUME NEW r \in Rooms, DestroySkip(r) PROVE TidyInv'
  BY <1>9 DEF DestroySkip
<1>10. ASSUME NEW r \in Rooms, DestroyDelete(r) PROVE TidyInv'
  BY <1>10 DEF DestroyDelete
<1>11. ASSUME NEW c \in Conns, LookUp(c) PROVE TidyInv'
  BY <1>11 DEF LookUp, Move
<1>12. ASSUME NEW c \in Conns, GiveUp(c) PROVE TidyInv'
  BY <1>12 DEF GiveUp, Return, Move
<1>13. ASSUME NEW c \in Conns, PeerGone(c) PROVE TidyInv'
  BY <1>13 DEF PeerGone
<1>14. ASSUME NEW c \in Clients, JoinRegister(c) PROVE TidyInv'
  BY <1>14 DEF JoinRegister, Goto, Move, StopTimer
<1>15. ASSUME NEW c \in Clients, EnsureVoiceSFU(c) PROVE TidyInv'
  BY <1>15 DEF EnsureVoiceSFU
<1>16. ASSUME NEW c \in Clients, DropClient(c) PROVE TidyInv'
  BY <1>16 DEF DropClient
<1>17. ASSUME NEW c \in Clients, CloseDropped(c) PROVE TidyInv'
  BY <1>17 DEF CloseDropped
<1>18. ASSUME NEW c \in Clients, LeaveLookUp(c) PROVE TidyInv'
  BY <1>18 DEF LeaveLookUp, Move
<1>19. ASSUME NEW c \in Clients, LeaveDelete(c) PROVE TidyInv'
  <2>1. /\ UNCHANGED <<life, evict, sfus, dismiss>>
        /\ \E stage, r : Move(c, stage, r)
    BY <1>19 DEF LeaveDelete, Goto, Return
  <2> QED
    BY <2>1 DEF Move
<1>20. ASSUME NEW c \in Clients, LeaveReset(c) PROVE TidyInv'
  BY <1>20 DEF LeaveReset, ArmTimer, Return, Move
<1>21. ASSUME NEW p \in Publishers, AddScreenPublisher(p) PROVE TidyInv'
  BY <1>21 DEF AddScreenPublisher, Goto, Move, StopTimer
<1>22. ASSUME NEW p \in Publishers, RejectScreenPublisher(p) PROVE TidyInv'
  BY <1>22 DEF RejectScreenPublisher, Return, Move
<1>23. ASSUME NEW p \in Publishers, EnsureScreenSFU(p) PROVE TidyInv'
  BY <1>23 DEF EnsureScreenSFU
<1>24. ASSUME NEW p \in Publishers, ClearScreenPublisher(p) PROVE TidyInv'
  BY <1>24 DEF ClearScreenPublisher, Goto, Move
<1>25. ASSUME NEW p \in Publishers, ClearForgottenPublisher(p) PROVE TidyInv'
  BY <1>25 DEF ClearForgottenPublisher, Goto, Move
<1>26. ASSUME NEW p \in Publishers, CloseScreenSFU(p) PROVE TidyInv'
  BY <1>26 DEF CloseScreenSFU, SfuClosed, Goto, Move
<1>27. ASSUME NEW p \in Publishers, DismissViewers(p) PROVE TidyInv'
  BY <1>27 DEF DismissViewers, Goto, Move
<1>28. ASSUME NEW v \in Viewers, FindTarget(v) PROVE TidyInv'
  BY <1>28 DEF FindTarget, Goto, Move
<1>29. ASSUME NEW v \in Viewers, RegisterScreenViewer(v) PROVE TidyInv'
  BY <1>29 DEF RegisterScreenViewer, Goto, Move, StopTimer
<1>30. ASSUME NEW v \in Viewers, RemoveScreenViewer(v) PROVE TidyInv'
  BY <1>30 DEF RemoveScreenViewer, Goto, Move
<1>31. ASSUME NEW c \in Publishers \cup Viewers, ResetLookUp(c) PROVE TidyInv'
  BY <1>31 DEF ResetLookUp, Move
<1>32. ASSUME NEW c \in Publishers \cup Viewers, ResetIdleIfEmpty(c)
      PROVE  TidyInv'
  BY <1>32 DEF ResetIdleIfEmpty, ArmTimer, Return, Move
<1>33. CASE UNCHANGED vars
  BY <1>33 DEF vars
<1> QED
  BY <1>1, <1>2, <1>3, <1>4, <1>5, <1>6, <1>7, <1>8, <1>9, <1>10, <1>11,
     <1>12, <1>13, <1>14, <1>15, <1>16, <1>17, <1>18, <1>19, <1>20, <1>21,
     <1>22, <1>23, <1>24, <1>25, <1>26, <1>27, <1>28, <1>29, <1>30, <1>31,
     <1>32, <1>33 DEF Next, RemoveRoom, IdleTimer, AnyHandler,
     HandleAudioStream, HandleScreenPublisher, HandleScreenViewer, ResetIdle

\* EmptyRoomHasCaretaker: whoever stops the timer or empties the room has yet
\* to leave it; whoever leaves it last re-arms the timer.
LEMMA CaretakerStep ==
  TypeOK /\ TypeOK' /\ MapInv /\ EmptyRoomHasCaretaker /\ [Next]_vars =>
    EmptyRoomHasCaretaker'
<1> SUFFICES ASSUME TypeOK, TypeOK', MapInv, EmptyRoomHasCaretaker,
                    [Next]_vars
             PROVE  EmptyRoomHasCaretaker'
  OBVIOUS
<1> USE RoomManagerAssumption DEF EmptyRoomHasCaretaker, WillRearm,
        FullyEmpty, TypeOK, MapInv, PointerInv, BoundInv, FreshInv, MemberInv
<1>1. ASSUME NEW r \in Rooms, CreateRoom(r) PROVE EmptyRoomHasCaretaker'
  BY <1>1 DEF CreateRoom
<1>2. ASSUME NEW r \in Rooms, RemoveUnlist(r) PROVE EmptyRoomHasCaretaker'
  BY <1>2 DEF RemoveUnlist
<1>3. ASSUME NEW r \in Rooms, RemoveStopTimer(r) PROVE EmptyRoomHasCaretaker'
  BY <1>3 DEF RemoveStopTimer, StopTimer
<1>4. ASSUME NEW r \in Rooms, RemoveClear(r) PROVE EmptyRoomHasCaretaker'
  BY <1>4 DEF RemoveClear, Collected, CollectedSfus
<1>5. ASSUME NEW r \in Rooms, RemoveCloseSfus(r) PROVE EmptyRoomHasCaretaker'
  BY <1>5 DEF RemoveCloseSfus, SfuClosed
<1>6. ASSUME NEW r \in Rooms, RemoveClose(r) PROVE EmptyRoomHasCaretaker'
  BY <1>6 DEF RemoveClose
<1>7. ASSUME NEW r \in Rooms, TimerFires(r) PROVE EmptyRoomHasCaretaker'
  BY <1>7 DEF TimerFires, StopTimer
<1>8. ASSUME NEW r \in Rooms, DestroyCheck(r) PROVE EmptyRoomHasCaretaker'
  BY <1>8 DEF DestroyCheck
<1>9. ASSUME NEW r \in Rooms, DestroySkip(r) PROVE EmptyRoomHasCaretaker'
  BY <1>9 DEF DestroySkip
<1>10. ASSUME NEW r \in Rooms, DestroyDelete(r) PROVE EmptyRoomHasCaretaker'
  BY <1>10 DEF DestroyDelete
<1>11. ASSUME NEW c \in Conns, LookUp(c) PROVE EmptyRoomHasCaretaker'
  BY <1>11 DEF LookUp, Move
<1>12. ASSUME NEW c \in Conns, GiveUp(c) PROVE EmptyRoomHasCaretaker'
  BY <1>12 DEF GiveUp, Return, Move
<1>13. ASSUME NEW c \in Conns, PeerGone(c) PROVE EmptyRoomHasCaretaker'
  BY <1>13 DEF PeerGone
<1>14. ASSUME NEW c \in Clients, JoinRegister(c) PROVE EmptyRoomHasCaretaker'
  BY <1>14 DEF JoinRegister, Goto, Move, StopTimer
<1>15. ASSUME NEW c \in Clients, EnsureVoiceSFU(c)
      PROVE  EmptyRoomHasCaretaker'
  BY <1>15 DEF EnsureVoiceSFU
<1>16. ASSUME NEW c \in Clients, DropClient(c) PROVE EmptyRoomHasCaretaker'
  BY <1>16 DEF DropClient
<1>17. ASSUME NEW c \in Clients, CloseDropped(c) PROVE EmptyRoomHasCaretaker'
  BY <1>17 DEF CloseDropped
<1>18. ASSUME NEW c \in Clients, LeaveLookUp(c) PROVE EmptyRoomHasCaretaker'
  BY <1>18 DEF LeaveLookUp, Move
<1>19. ASSUME NEW c \in Clients, LeaveDelete(c) PROVE EmptyRoomHasCaretaker'
  <2>1. /\ clients' = [clients EXCEPT ![at[c]] = clients[at[c]] \ {c}]
        /\ pc[c] = "leaving"
        /\ UNCHANGED <<rooms, timer, callback, publishers>>
    BY <1>19 DEF LeaveDelete
  <2>2. CASE Goto(c, "emptied")
    BY <2>1, <2>2 DEF Goto, Move
  <2>3. CASE /\ Return(c)
             /\ ~(clients[at[c]] \ {c} = {} /\ publishers[at[c]] = {})
    BY <2>1, <2>3 DEF Return, Move
  <2> QED
    BY <1>19, <2>2, <2>3 DEF LeaveDelete
<1>20. ASSUME NEW c \in Clients, LeaveReset(c) PROVE EmptyRoomHasCaretaker'
  BY <1>20 DEF LeaveReset, ArmTimer, Return, Move
<1>21. ASSUME NEW p \in Publishers, AddScreenPublisher(p)
      PROVE  EmptyRoomHasCaretaker'
  BY <1>21 DEF AddScreenPublisher, Goto, Move, StopTimer
<1>22. ASSUME NEW p \in Publishers, RejectScreenPublisher(p)
      PROVE  EmptyRoomHasCaretaker'
  BY <1>22 DEF RejectScreenPublisher, Return, Move
<1>23. ASSUME NEW p \in Publishers, EnsureScreenSFU(p)
      PROVE  EmptyRoomHasCaretaker'
  BY <1>23 DEF EnsureScreenSFU
<1>24. ASSUME NEW p \in Publishers, ClearScreenPublisher(p)
      PROVE  EmptyRoomHasCaretaker'
  BY <1>24 DEF ClearScreenPublisher, Goto, Move
<1>25. ASSUME NEW p \in Publishers, ClearForgottenPublisher(p)
      PROVE  EmptyRoomHasCaretaker'
  BY <1>25 DEF ClearForgottenPublisher, Goto, Move
<1>26. ASSUME NEW p \in Publishers, CloseScreenSFU(p)
      PROVE  EmptyRoomHasCaretaker'
  BY <1>26 DEF CloseScreenSFU, SfuClosed, Goto, Move
<1>27. ASSUME NEW p \in Publishers, DismissViewers(p)
      PROVE  EmptyRoomHasCaretaker'
  BY <1>27 DEF DismissViewers, Goto, Move
<1>28. ASSUME NEW v \in Viewers, FindTarget(v) PROVE EmptyRoomHasCaretaker'
  BY <1>28 DEF FindTarget, Goto, Move
<1>29. ASSUME NEW v \in Viewers, RegisterScreenViewer(v)
      PROVE  EmptyRoomHasCaretaker'
  BY <1>29 DEF RegisterScreenViewer, Goto, Move, StopTimer
<1>30. ASSUME NEW v \in Viewers, RemoveScreenViewer(v)
      PROVE  EmptyRoomHasCaretaker'
  BY <1>30 DEF RemoveScreenViewer, Goto, Move
<1>31. ASSUME NEW c \in Publishers \cup Viewers, ResetLookUp(c)
      PROVE  EmptyRoomHasCaretaker'
  BY <1>31 DEF ResetLookUp, Move
<1>32. ASSUME NEW c \in Publishers \cup Viewers, ResetIdleIfEmpty(c)
      PROVE  EmptyRoomHasCaretaker'
  BY <1>32 DEF ResetIdleIfEmpty, ArmTimer, Return, Move
<1>33. CASE UNCHANGED vars
  BY <1>33 DEF vars
<1> QED
  BY <1>1, <1>2, <1>3, <1>4, <1>5, <1>6, <1>7, <1>8, <1>9, <1>10, <1>11,
     <1>12, <1>13, <1>14, <1>15, <1>16, <1>17, <1>18, <1>19, <1>20, <1>21,
     <1>22, <1>23, <1>24, <1>25, <1>26, <1>27, <1>28, <1>29, <1>30, <1>31,
     <1>32, <1>33 DEF Next, RemoveRoom, IdleTimer, AnyHandler,
     HandleAudioStream, HandleScreenPublisher, HandleScreenViewer, ResetIdle

\* EvictInv: a member stays one until RemoveClear lists it to be closed.
LEMMA EvictStep ==
  TypeOK /\ TypeOK' /\ MapInv /\ TidyInv /\ EvictInv /\ [Next]_vars =>
    EvictInv'
<1> SUFFICES ASSUME TypeOK, TypeOK', MapInv, TidyInv, EvictInv, [Next]_vars
             PROVE  EvictInv'
  OBVIOUS
<1> USE RoomManagerAssumption DEF EvictInv, Accounted, TidyInv, Alive, TypeOK, MapInv,
        PointerInv, BoundInv, FreshInv, MemberInv
<1>1. ASSUME NEW r \in Rooms, CreateRoom(r) PROVE EvictInv'
  BY <1>1 DEF CreateRoom
<1>2. ASSUME NEW r \in Rooms, RemoveUnlist(r) PROVE EvictInv'
  BY <1>2 DEF RemoveUnlist
<1>3. ASSUME NEW r \in Rooms, RemoveStopTimer(r) PROVE EvictInv'
  BY <1>3 DEF RemoveStopTimer, StopTimer
<1>4. ASSUME NEW r \in Rooms, RemoveClear(r) PROVE EvictInv'
  BY <1>4 DEF RemoveClear, Collected, CollectedSfus
<1>5. ASSUME NEW r \in Rooms, RemoveCloseSfus(r) PROVE EvictInv'
  BY <1>5 DEF RemoveCloseSfus, SfuClosed
<1>6. ASSUME NEW r \in Rooms, RemoveClose(r) PROVE EvictInv'
  BY <1>6 DEF RemoveClose
<1>7. ASSUME NEW r \in Rooms, TimerFires(r) PROVE EvictInv'
  BY <1>7 DEF TimerFires, StopTimer
<1>8. ASSUME NEW r \in Rooms, DestroyCheck(r) PROVE EvictInv'
  BY <1>8 DEF DestroyCheck
<1>9. ASSUME NEW r \in Rooms, DestroySkip(r) PROVE EvictInv'
  BY <1>9 DEF DestroySkip
<1>10. ASSUME NEW r \in Rooms, DestroyDelete(r) PROVE EvictInv'
  BY <1>10 DEF DestroyDelete
<1>11. ASSUME NEW c \in Conns, LookUp(c) PROVE EvictInv'
  BY <1>11 DEF LookUp, Move
<1>12. ASSUME NEW c \in Conns, GiveUp(c) PROVE EvictInv'
  BY <1>12 DEF GiveUp, Return, Move
<1>13. ASSUME NEW c \in Conns, PeerGone(c) PROVE EvictInv'
  BY <1>13 DEF PeerGone
<1>14. ASSUME NEW c \in Clients, JoinRegister(c) PROVE EvictInv'
  <2>1. /\ pc[c] = "found" /\ at' = at
        /\ pc' = [pc EXCEPT ![c] = "in"]
        /\ clients' = [clients EXCEPT ![at[c]] = @ \cup {c}]
        /\ late' = IF Alive(at[c]) THEN late ELSE late \cup {c}
        /\ UNCHANGED <<life, publishers, open, evict, drop>>
    BY <1>14, GotoKeepsRoom DEF JoinRegister
  <2>2. ASSUME NEW e \in Clients \cup Publishers, pc'[e] = "in", e \in open',
               e \notin late'
        PROVE  Accounted(e)'
    <3>1. CASE e = c
      BY <2>1, <2>2, <3>1
    <3>2. CASE e # c
      <4>1. Accounted(e) /\ at[e] \in Rooms
        BY <2>1, <2>2, <3>2
      <4> QED
        BY <2>1, <4>1
    <3> QED
      BY <3>1, <3>2
  <2> QED
    BY <2>2
<1>15. ASSUME NEW c \in Clients, EnsureVoiceSFU(c) PROVE EvictInv'
  BY <1>15 DEF EnsureVoiceSFU
<1>16. ASSUME NEW c \in Clients, DropClient(c) PROVE EvictInv'
  <2>1. PICK x \in clients[at[c]] :
        /\ clients' = [clients EXCEPT ![at[c]] = clients[at[c]] \ {x}]
        /\ drop' = [drop EXCEPT ![c] = {x}]
    BY <1>16 DEF DropClient
  <2>2. UNCHANGED <<pc, at, life, publishers, open, evict, late>> /\ drop[c] = {}
    BY <1>16 DEF DropClient, AudioWriteFree
  <2>3. ASSUME NEW e \in Clients \cup Publishers, pc'[e] = "in", e \in open',
               e \notin late'
        PROVE  Accounted(e)'
    <3>1. Accounted(e) /\ at[e] \in Rooms
      BY <2>2, <2>3
    <3>2. CASE e = x
      BY <2>1, <3>2
    <3>3. CASE e # x
      BY <2>1, <2>2, <3>1, <3>3
    <3> QED
      BY <3>2, <3>3
  <2> QED
    BY <2>3
<1>17. ASSUME NEW c \in Clients, CloseDropped(c) PROVE EvictInv'
  BY <1>17 DEF CloseDropped
<1>18. ASSUME NEW c \in Clients, LeaveLookUp(c) PROVE EvictInv'
  BY <1>18 DEF LeaveLookUp, Move
<1>19. ASSUME NEW c \in Clients, LeaveDelete(c) PROVE EvictInv'
  BY <1>19 DEF LeaveDelete, Goto, Return, Move
<1>20. ASSUME NEW c \in Clients, LeaveReset(c) PROVE EvictInv'
  BY <1>20 DEF LeaveReset, ArmTimer, Return, Move
<1>21. ASSUME NEW p \in Publishers, AddScreenPublisher(p) PROVE EvictInv'
  <2>1. /\ pc[p] = "found" /\ at' = at
        /\ pc' = [pc EXCEPT ![p] = "in"]
        /\ publishers' = [publishers EXCEPT ![at[p]] = @ \cup {p}]
        /\ late' = IF Alive(at[p]) THEN late ELSE late \cup {p}
        /\ UNCHANGED <<life, clients, open, evict, drop>>
    BY <1>21, GotoKeepsRoom DEF AddScreenPublisher
  <2>2. ASSUME NEW e \in Clients \cup Publishers, pc'[e] = "in", e \in open',
               e \notin late'
        PROVE  Accounted(e)'
    <3>1. CASE e = p
      BY <2>1, <2>2, <3>1
    <3>2. CASE e # p
      <4>1. Accounted(e) /\ at[e] \in Rooms
        BY <2>1, <2>2, <3>2
      <4> QED
        BY <2>1, <4>1
    <3> QED
      BY <3>1, <3>2
  <2> QED
    BY <2>2
<1>22. ASSUME NEW p \in Publishers, RejectScreenPublisher(p) PROVE EvictInv'
  BY <1>22 DEF RejectScreenPublisher, Return, Move
<1>23. ASSUME NEW p \in Publishers, EnsureScreenSFU(p) PROVE EvictInv'
  BY <1>23 DEF EnsureScreenSFU
<1>24. ASSUME NEW p \in Publishers, ClearScreenPublisher(p) PROVE EvictInv'
  <2>1. /\ at' = at /\ pc' = [pc EXCEPT ![p] = "releasing"]
        /\ publishers' = [publishers EXCEPT ![at[p]] = @ \ {p}]
        /\ UNCHANGED <<life, clients, open, evict, drop, late>>
    BY <1>24, GotoKeepsRoom DEF ClearScreenPublisher
  <2>2. ASSUME NEW e \in Clients \cup Publishers, pc'[e] = "in", e \in open',
               e \notin late'
        PROVE  Accounted(e)'
    <3>1. e # p /\ Accounted(e) /\ at[e] \in Rooms
      BY <2>1, <2>2
    <3> QED
      BY <2>1, <3>1
  <2> QED
    BY <2>2
<1>25. ASSUME NEW p \in Publishers, ClearForgottenPublisher(p) PROVE EvictInv'
  BY <1>25 DEF ClearForgottenPublisher, Goto, Move
<1>26. ASSUME NEW p \in Publishers, CloseScreenSFU(p) PROVE EvictInv'
  BY <1>26 DEF CloseScreenSFU, SfuClosed, Goto, Move
<1>27. ASSUME NEW p \in Publishers, DismissViewers(p) PROVE EvictInv'
  BY <1>27 DEF DismissViewers, Goto, Move
<1>28. ASSUME NEW v \in Viewers, FindTarget(v) PROVE EvictInv'
  BY <1>28 DEF FindTarget, Goto, Move
<1>29. ASSUME NEW v \in Viewers, RegisterScreenViewer(v) PROVE EvictInv'
  <2>1. /\ at' = at /\ pc' = [pc EXCEPT ![v] = "in"] /\ late \subseteq late'
        /\ UNCHANGED <<life, clients, publishers, open, evict, drop>>
    BY <1>29, GotoKeepsRoom DEF RegisterScreenViewer
  <2>2. v \notin Clients \cup Publishers
    BY DEF RoomManagerAssumption
  <2> QED
    BY <2>1, <2>2
<1>30. ASSUME NEW v \in Viewers, RemoveScreenViewer(v) PROVE EvictInv'
  BY <1>30 DEF RemoveScreenViewer, Goto, Move
<1>31. ASSUME NEW c \in Publishers \cup Viewers, ResetLookUp(c)
      PROVE  EvictInv'
  BY <1>31 DEF ResetLookUp, Move
<1>32. ASSUME NEW c \in Publishers \cup Viewers, ResetIdleIfEmpty(c)
      PROVE  EvictInv'
  BY <1>32 DEF ResetIdleIfEmpty, ArmTimer, Return, Move
<1>33. CASE UNCHANGED vars
  BY <1>33 DEF vars
<1> QED
  BY <1>1, <1>2, <1>3, <1>4, <1>5, <1>6, <1>7, <1>8, <1>9, <1>10, <1>11,
     <1>12, <1>13, <1>14, <1>15, <1>16, <1>17, <1>18, <1>19, <1>20, <1>21,
     <1>22, <1>23, <1>24, <1>25, <1>26, <1>27, <1>28, <1>29, <1>30, <1>31,
     <1>32, <1>33 DEF Next, RemoveRoom, IdleTimer, AnyHandler,
     HandleAudioStream, HandleScreenPublisher, HandleScreenViewer, ResetIdle

\* ViewersFollowPublisher: whoever takes a publisher out of the room takes its
\* viewers over into a list to be closed.
LEMMA FollowStep ==
  TypeOK /\ TypeOK' /\ MapInv /\ TidyInv /\ ViewersFollowPublisher /\
  [Next]_vars =>
    ViewersFollowPublisher'
<1> SUFFICES ASSUME TypeOK, TypeOK', MapInv, TidyInv, ViewersFollowPublisher,
                    [Next]_vars
             PROVE  ViewersFollowPublisher'
  OBVIOUS
<1> USE RoomManagerAssumption DEF ViewersFollowPublisher, TidyInv, TypeOK,
        Alive, MapInv, PointerInv, BoundInv, FreshInv, MemberInv
<1>1. ASSUME NEW r \in Rooms, CreateRoom(r) PROVE ViewersFollowPublisher'
  BY <1>1 DEF CreateRoom
<1>2. ASSUME NEW r \in Rooms, RemoveUnlist(r) PROVE ViewersFollowPublisher'
  BY <1>2 DEF RemoveUnlist
<1>3. ASSUME NEW r \in Rooms, RemoveStopTimer(r) PROVE ViewersFollowPublisher'
  BY <1>3 DEF RemoveStopTimer, StopTimer
<1>4. ASSUME NEW r \in Rooms, RemoveClear(r) PROVE ViewersFollowPublisher'
  <2>1. /\ life[r] = "stopped"
        /\ evict' = [evict EXCEPT ![r] = Collected(r)]
        /\ publishers' = [publishers EXCEPT ![r] = {}]
        /\ UNCHANGED <<viewers, pc, at, target, open, dismiss, late>>
    BY <1>4 DEF RemoveClear
  <2>2. SUFFICES ASSUME NEW v \in Viewers,
                        pc[v] = "in", v \in open, v \notin late
                 PROVE  \/ /\ target[v] \in publishers'[at[v]]
                           /\ v \in viewers[target[v]]
                        \/ v \in dismiss[target[v]]
                        \/ \E s \in Rooms : v \in evict'[s]
    BY <2>1
  <2>3. CASE v \in dismiss[target[v]]
    BY <2>3
  <2>4. ASSUME NEW s \in Rooms, v \in evict[s]
        PROVE  \E z \in Rooms : v \in evict'[z]
    <3>1. s # r
      BY <2>1, <2>4
    <3>2. evict'[s] = evict[s]
      BY <2>1, <3>1
    <3> QED
      BY <2>4, <3>2
  <2>5. CASE target[v] \in publishers[at[v]] /\ v \in viewers[target[v]]
    <3>1. at[v] \in Rooms /\ target[v] \in Publishers
      BY <2>2
    <3>2. CASE at[v] = r
      <4>1. v \in Collected(r)
        BY <2>5, <3>2 DEF Collected
      <4>2. evict'[r] = Collected(r)
        BY <2>1
      <4> QED
        BY <4>1, <4>2
    <3>3. CASE at[v] # r
      <4>1. publishers'[at[v]] = publishers[at[v]]
        BY <2>1, <3>1, <3>3
      <4> QED
        BY <2>5, <4>1
    <3> QED
      BY <3>2, <3>3
  <2> QED
    BY <2>2, <2>3, <2>4, <2>5
<1>5. ASSUME NEW r \in Rooms, RemoveCloseSfus(r) PROVE ViewersFollowPublisher'
  BY <1>5 DEF RemoveCloseSfus, SfuClosed
<1>6. ASSUME NEW r \in Rooms, RemoveClose(r) PROVE ViewersFollowPublisher'
  BY <1>6 DEF RemoveClose
<1>7. ASSUME NEW r \in Rooms, TimerFires(r) PROVE ViewersFollowPublisher'
  BY <1>7 DEF TimerFires, StopTimer
<1>8. ASSUME NEW r \in Rooms, DestroyCheck(r) PROVE ViewersFollowPublisher'
  BY <1>8 DEF DestroyCheck
<1>9. ASSUME NEW r \in Rooms, DestroySkip(r) PROVE ViewersFollowPublisher'
  BY <1>9 DEF DestroySkip
<1>10. ASSUME NEW r \in Rooms, DestroyDelete(r) PROVE ViewersFollowPublisher'
  BY <1>10 DEF DestroyDelete
<1>11. ASSUME NEW c \in Conns, LookUp(c) PROVE ViewersFollowPublisher'
  BY <1>11 DEF LookUp, Move
<1>12. ASSUME NEW c \in Conns, GiveUp(c) PROVE ViewersFollowPublisher'
  BY <1>12 DEF GiveUp, Return, Move
<1>13. ASSUME NEW c \in Conns, PeerGone(c) PROVE ViewersFollowPublisher'
  BY <1>13 DEF PeerGone
<1>14. ASSUME NEW c \in Clients, JoinRegister(c) PROVE ViewersFollowPublisher'
  BY <1>14 DEF JoinRegister, Goto, Move, StopTimer
<1>15. ASSUME NEW c \in Clients, EnsureVoiceSFU(c)
      PROVE  ViewersFollowPublisher'
  BY <1>15 DEF EnsureVoiceSFU
<1>16. ASSUME NEW c \in Clients, DropClient(c) PROVE ViewersFollowPublisher'
  BY <1>16 DEF DropClient
<1>17. ASSUME NEW c \in Clients, CloseDropped(c) PROVE ViewersFollowPublisher'
  BY <1>17 DEF CloseDropped
<1>18. ASSUME NEW c \in Clients, LeaveLookUp(c) PROVE ViewersFollowPublisher'
  BY <1>18 DEF LeaveLookUp, Move
<1>19. ASSUME NEW c \in Clients, LeaveDelete(c) PROVE ViewersFollowPublisher'
  BY <1>19 DEF LeaveDelete, Goto, Return, Move
<1>20. ASSUME NEW c \in Clients, LeaveReset(c) PROVE ViewersFollowPublisher'
  BY <1>20 DEF LeaveReset, ArmTimer, Return, Move
<1>21. ASSUME NEW p \in Publishers, AddScreenPublisher(p)
      PROVE  ViewersFollowPublisher'
  BY <1>21 DEF AddScreenPublisher, Goto, Move, StopTimer
<1>22. ASSUME NEW p \in Publishers, RejectScreenPublisher(p)
      PROVE  ViewersFollowPublisher'
  BY <1>22 DEF RejectScreenPublisher, Return, Move
<1>23. ASSUME NEW p \in Publishers, EnsureScreenSFU(p)
      PROVE  ViewersFollowPublisher'
  BY <1>23 DEF EnsureScreenSFU
<1>24. ASSUME NEW p \in Publishers, ClearScreenPublisher(p)
      PROVE  ViewersFollowPublisher'
  <2>1. /\ pc[p] = "in" /\ at[p] \in Rooms
        /\ pc' = [pc EXCEPT ![p] = "releasing"] /\ at' = at
        /\ publishers' = [publishers EXCEPT ![at[p]] = @ \ {p}]
        /\ viewers' = [viewers EXCEPT ![p] = {}]
        /\ dismiss' = [dismiss EXCEPT ![p] = viewers[p]]
        /\ UNCHANGED <<target, open, evict, late>>
    BY <1>24, GotoKeepsRoom DEF ClearScreenPublisher
  <2>2. ASSUME NEW v \in Viewers, pc'[v] = "in", v \in open', v \notin late'
        PROVE  \/ target'[v] \in publishers'[at'[v]] /\ v \in viewers'[target'[v]]
               \/ v \in dismiss'[target'[v]]
               \/ \E r \in Rooms : v \in evict'[r]
    <3>1. pc[v] = "in" /\ target[v] \in Publishers /\ at[v] \in Rooms
      BY <2>1, <2>2
    <3>2. \/ target[v] \in publishers[at[v]] /\ v \in viewers[target[v]]
          \/ v \in dismiss[target[v]]
          \/ \E r \in Rooms : v \in evict[r]
      BY <2>1, <2>2, <3>1
    <3>3. CASE target[v] = p
      BY <2>1, <3>1, <3>2, <3>3
    <3>4. CASE target[v] # p
      BY <2>1, <3>1, <3>2, <3>4
    <3> QED
      BY <3>3, <3>4
  <2> QED
    BY <2>2
<1>25. ASSUME NEW p \in Publishers, ClearForgottenPublisher(p)
      PROVE  ViewersFollowPublisher'
  BY <1>25 DEF ClearForgottenPublisher, Goto, Move
<1>26. ASSUME NEW p \in Publishers, CloseScreenSFU(p)
      PROVE  ViewersFollowPublisher'
  BY <1>26 DEF CloseScreenSFU, SfuClosed, Goto, Move
<1>27. ASSUME NEW p \in Publishers, DismissViewers(p)
      PROVE  ViewersFollowPublisher'
  BY <1>27 DEF DismissViewers, Goto, Move
<1>28. ASSUME NEW v \in Viewers, FindTarget(v) PROVE ViewersFollowPublisher'
  BY <1>28 DEF FindTarget, Goto, Move
<1>29. ASSUME NEW v \in Viewers, RegisterScreenViewer(v)
      PROVE  ViewersFollowPublisher'
  BY <1>29 DEF RegisterScreenViewer, Goto, Move, StopTimer
<1>30. ASSUME NEW v \in Viewers, RemoveScreenViewer(v)
      PROVE  ViewersFollowPublisher'
  BY <1>30 DEF RemoveScreenViewer, Goto, Move
<1>31. ASSUME NEW c \in Publishers \cup Viewers, ResetLookUp(c)
      PROVE  ViewersFollowPublisher'
  BY <1>31 DEF ResetLookUp, Move
<1>32. ASSUME NEW c \in Publishers \cup Viewers, ResetIdleIfEmpty(c)
      PROVE  ViewersFollowPublisher'
  BY <1>32 DEF ResetIdleIfEmpty, ArmTimer, Return, Move
<1>33. CASE UNCHANGED vars
  BY <1>33 DEF vars
<1> QED
  BY <1>1, <1>2, <1>3, <1>4, <1>5, <1>6, <1>7, <1>8, <1>9, <1>10, <1>11,
     <1>12, <1>13, <1>14, <1>15, <1>16, <1>17, <1>18, <1>19, <1>20, <1>21,
     <1>22, <1>23, <1>24, <1>25, <1>26, <1>27, <1>28, <1>29, <1>30, <1>31,
     <1>32, <1>33 DEF Next, RemoveRoom, IdleTimer, AnyHandler,
     HandleAudioStream, HandleScreenPublisher, HandleScreenViewer, ResetIdle

\* SfuInv: whoever takes a publisher out of the room closes its SFU.
LEMMA SfuStep ==
  TypeOK /\ TypeOK' /\ MapInv /\ TidyInv /\ SfuInv /\ [Next]_vars => SfuInv'
<1> SUFFICES ASSUME TypeOK, TypeOK', MapInv, TidyInv, SfuInv, [Next]_vars
             PROVE  SfuInv'
  OBVIOUS
<1> USE RoomManagerAssumption DEF SfuInv, TypeOK, MapInv, PointerInv,
        BoundInv, FreshInv, MemberInv
<1>1. ASSUME NEW r \in Rooms, CreateRoom(r) PROVE SfuInv'
  BY <1>1 DEF CreateRoom
<1>2. ASSUME NEW r \in Rooms, RemoveUnlist(r) PROVE SfuInv'
  BY <1>2 DEF RemoveUnlist
<1>3. ASSUME NEW r \in Rooms, RemoveStopTimer(r) PROVE SfuInv'
  BY <1>3 DEF RemoveStopTimer, StopTimer
<1>4. ASSUME NEW r \in Rooms, RemoveClear(r) PROVE SfuInv'
  <2>1. /\ sfus' = [sfus EXCEPT ![r] = CollectedSfus(r)]
        /\ publishers' = [publishers EXCEPT ![r] = {}]
        /\ life[r] = "stopped"
        /\ UNCHANGED <<pc, at, sfu>>
    BY <1>4 DEF RemoveClear
  <2>2. sfus[r] = {}
    BY <2>1 DEF TidyInv
  <2>3. ASSUME NEW p \in Publishers, sfu[p] = "open", at[p] = r,
               p \in publishers[r]
        PROVE  p \in sfus'[r]
    BY <2>1, <2>3 DEF CollectedSfus
  <2> QED
    BY <2>1, <2>2, <2>3
<1>5. ASSUME NEW r \in Rooms, RemoveCloseSfus(r) PROVE SfuInv'
  BY <1>5 DEF RemoveCloseSfus, SfuClosed
<1>6. ASSUME NEW r \in Rooms, RemoveClose(r) PROVE SfuInv'
  BY <1>6 DEF RemoveClose
<1>7. ASSUME NEW r \in Rooms, TimerFires(r) PROVE SfuInv'
  BY <1>7 DEF TimerFires, StopTimer
<1>8. ASSUME NEW r \in Rooms, DestroyCheck(r) PROVE SfuInv'
  BY <1>8 DEF DestroyCheck
<1>9. ASSUME NEW r \in Rooms, DestroySkip(r) PROVE SfuInv'
  BY <1>9 DEF DestroySkip
<1>10. ASSUME NEW r \in Rooms, DestroyDelete(r) PROVE SfuInv'
  BY <1>10 DEF DestroyDelete
<1>11. ASSUME NEW c \in Conns, LookUp(c) PROVE SfuInv'
  <2>1. /\ pc[c] = "idle"
        /\ \A d \in Conns \ {c} : at'[d] = at[d]
        /\ pc' = [pc EXCEPT ![c] = "found"]
        /\ UNCHANGED <<publishers, sfu, sfus>>
    BY <1>11 DEF LookUp, Move
  <2>2. ASSUME NEW p \in Publishers
      PROVE at[p] \in Rooms /\ p \in publishers[at[p]] => p # c
    BY <2>1
  <2> QED
    BY <2>1, <2>2
<1>12. ASSUME NEW c \in Conns, GiveUp(c) PROVE SfuInv'
  BY <1>12 DEF GiveUp, Return, Move
<1>13. ASSUME NEW c \in Conns, PeerGone(c) PROVE SfuInv'
  BY <1>13 DEF PeerGone
<1>14. ASSUME NEW c \in Clients, JoinRegister(c) PROVE SfuInv'
  BY <1>14 DEF JoinRegister, Goto, Move, StopTimer
<1>15. ASSUME NEW c \in Clients, EnsureVoiceSFU(c) PROVE SfuInv'
  BY <1>15 DEF EnsureVoiceSFU
<1>16. ASSUME NEW c \in Clients, DropClient(c) PROVE SfuInv'
  BY <1>16 DEF DropClient
<1>17. ASSUME NEW c \in Clients, CloseDropped(c) PROVE SfuInv'
  BY <1>17 DEF CloseDropped
<1>18. ASSUME NEW c \in Clients, LeaveLookUp(c) PROVE SfuInv'
  BY <1>18 DEF LeaveLookUp, Move
<1>19. ASSUME NEW c \in Clients, LeaveDelete(c) PROVE SfuInv'
  <2>1. c \notin Publishers
    BY DEF RoomManagerAssumption
  <2>2. UNCHANGED <<sfu, publishers, sfus>> /\ \E stage, r : Move(c, stage, r)
    BY <1>19 DEF LeaveDelete, Goto, Return
  <2> QED
    BY <2>1, <2>2 DEF Move
<1>20. ASSUME NEW c \in Clients, LeaveReset(c) PROVE SfuInv'
  BY <1>20 DEF LeaveReset, ArmTimer, Return, Move
<1>21. ASSUME NEW p \in Publishers, AddScreenPublisher(p) PROVE SfuInv'
  BY <1>21 DEF AddScreenPublisher, Goto, Move, StopTimer
<1>22. ASSUME NEW p \in Publishers, RejectScreenPublisher(p) PROVE SfuInv'
  BY <1>22 DEF RejectScreenPublisher, Return, Move
<1>23. ASSUME NEW p \in Publishers, EnsureScreenSFU(p) PROVE SfuInv'
  BY <1>23 DEF EnsureScreenSFU
<1>24. ASSUME NEW p \in Publishers, ClearScreenPublisher(p) PROVE SfuInv'
  BY <1>24 DEF ClearScreenPublisher, Goto, Move
<1>25. ASSUME NEW p \in Publishers, ClearForgottenPublisher(p) PROVE SfuInv'
  BY <1>25 DEF ClearForgottenPublisher, Goto, Move
<1>26. ASSUME NEW p \in Publishers, CloseScreenSFU(p) PROVE SfuInv'
  BY <1>26 DEF CloseScreenSFU, SfuClosed, Goto, Move
<1>27. ASSUME NEW p \in Publishers, DismissViewers(p) PROVE SfuInv'
  BY <1>27 DEF DismissViewers, Goto, Move
<1>28. ASSUME NEW v \in Viewers, FindTarget(v) PROVE SfuInv'
  BY <1>28 DEF FindTarget, Goto, Move
<1>29. ASSUME NEW v \in Viewers, RegisterScreenViewer(v) PROVE SfuInv'
  BY <1>29 DEF RegisterScreenViewer, Goto, Move, StopTimer
<1>30. ASSUME NEW v \in Viewers, RemoveScreenViewer(v) PROVE SfuInv'
  BY <1>30 DEF RemoveScreenViewer, Goto, Move
<1>31. ASSUME NEW c \in Publishers \cup Viewers, ResetLookUp(c) PROVE SfuInv'
  BY <1>31 DEF ResetLookUp, Move
<1>32. ASSUME NEW c \in Publishers \cup Viewers, ResetIdleIfEmpty(c)
      PROVE  SfuInv'
  BY <1>32 DEF ResetIdleIfEmpty, ArmTimer, Return, Move
<1>33. CASE UNCHANGED vars
  BY <1>33 DEF vars
<1> QED
  BY <1>1, <1>2, <1>3, <1>4, <1>5, <1>6, <1>7, <1>8, <1>9, <1>10, <1>11,
     <1>12, <1>13, <1>14, <1>15, <1>16, <1>17, <1>18, <1>19, <1>20, <1>21,
     <1>22, <1>23, <1>24, <1>25, <1>26, <1>27, <1>28, <1>29, <1>30, <1>31,
     <1>32, <1>33 DEF Next, RemoveRoom, IdleTimer, AnyHandler,
     HandleAudioStream, HandleScreenPublisher, HandleScreenViewer, ResetIdle

\* GrowsBelowLimit: addScreenPublisher counts and inserts in one critical
\* section, and nobody else adds to screenPublishers.
LEMMA PublishersStep ==
  TypeOK /\ [Next]_vars => GrowsBelowLimit
<1> SUFFICES ASSUME TypeOK, [Next]_vars
             PROVE  GrowsBelowLimit
  OBVIOUS
<1> USE RoomManagerAssumption DEF GrowsBelowLimit, TypeOK
<1>1. ASSUME NEW r \in Rooms, CreateRoom(r) PROVE GrowsBelowLimit
  BY <1>1 DEF CreateRoom
<1>2. ASSUME NEW r \in Rooms, RemoveUnlist(r) PROVE GrowsBelowLimit
  BY <1>2 DEF RemoveUnlist
<1>3. ASSUME NEW r \in Rooms, RemoveStopTimer(r) PROVE GrowsBelowLimit
  BY <1>3 DEF RemoveStopTimer, StopTimer
<1>4. ASSUME NEW r \in Rooms, RemoveClear(r) PROVE GrowsBelowLimit
  BY <1>4 DEF RemoveClear, Collected, CollectedSfus
<1>5. ASSUME NEW r \in Rooms, RemoveCloseSfus(r) PROVE GrowsBelowLimit
  BY <1>5 DEF RemoveCloseSfus, SfuClosed
<1>6. ASSUME NEW r \in Rooms, RemoveClose(r) PROVE GrowsBelowLimit
  BY <1>6 DEF RemoveClose
<1>7. ASSUME NEW r \in Rooms, TimerFires(r) PROVE GrowsBelowLimit
  BY <1>7 DEF TimerFires, StopTimer
<1>8. ASSUME NEW r \in Rooms, DestroyCheck(r) PROVE GrowsBelowLimit
  BY <1>8 DEF DestroyCheck
<1>9. ASSUME NEW r \in Rooms, DestroySkip(r) PROVE GrowsBelowLimit
  BY <1>9 DEF DestroySkip
<1>10. ASSUME NEW r \in Rooms, DestroyDelete(r) PROVE GrowsBelowLimit
  BY <1>10 DEF DestroyDelete
<1>11. ASSUME NEW c \in Conns, LookUp(c) PROVE GrowsBelowLimit
  BY <1>11 DEF LookUp, Move
<1>12. ASSUME NEW c \in Conns, GiveUp(c) PROVE GrowsBelowLimit
  BY <1>12 DEF GiveUp, Return, Move
<1>13. ASSUME NEW c \in Conns, PeerGone(c) PROVE GrowsBelowLimit
  BY <1>13 DEF PeerGone
<1>14. ASSUME NEW c \in Clients, JoinRegister(c) PROVE GrowsBelowLimit
  BY <1>14 DEF JoinRegister, Goto, Move, StopTimer
<1>15. ASSUME NEW c \in Clients, EnsureVoiceSFU(c) PROVE GrowsBelowLimit
  BY <1>15 DEF EnsureVoiceSFU
<1>16. ASSUME NEW c \in Clients, DropClient(c) PROVE GrowsBelowLimit
  BY <1>16 DEF DropClient
<1>17. ASSUME NEW c \in Clients, CloseDropped(c) PROVE GrowsBelowLimit
  BY <1>17 DEF CloseDropped
<1>18. ASSUME NEW c \in Clients, LeaveLookUp(c) PROVE GrowsBelowLimit
  BY <1>18 DEF LeaveLookUp, Move
<1>19. ASSUME NEW c \in Clients, LeaveDelete(c) PROVE GrowsBelowLimit
  BY <1>19 DEF LeaveDelete, Goto, Return, Move
<1>20. ASSUME NEW c \in Clients, LeaveReset(c) PROVE GrowsBelowLimit
  BY <1>20 DEF LeaveReset, ArmTimer, Return, Move
<1>21. ASSUME NEW p \in Publishers, AddScreenPublisher(p)
      PROVE  GrowsBelowLimit
  BY <1>21 DEF AddScreenPublisher, Goto, Move, StopTimer
<1>22. ASSUME NEW p \in Publishers, RejectScreenPublisher(p)
      PROVE  GrowsBelowLimit
  BY <1>22 DEF RejectScreenPublisher, Return, Move
<1>23. ASSUME NEW p \in Publishers, EnsureScreenSFU(p) PROVE GrowsBelowLimit
  BY <1>23 DEF EnsureScreenSFU
<1>24. ASSUME NEW p \in Publishers, ClearScreenPublisher(p)
      PROVE  GrowsBelowLimit
  BY <1>24 DEF ClearScreenPublisher, Goto, Move
<1>25. ASSUME NEW p \in Publishers, ClearForgottenPublisher(p)
      PROVE  GrowsBelowLimit
  BY <1>25 DEF ClearForgottenPublisher, Goto, Move
<1>26. ASSUME NEW p \in Publishers, CloseScreenSFU(p) PROVE GrowsBelowLimit
  BY <1>26 DEF CloseScreenSFU, SfuClosed, Goto, Move
<1>27. ASSUME NEW p \in Publishers, DismissViewers(p) PROVE GrowsBelowLimit
  BY <1>27 DEF DismissViewers, Goto, Move
<1>28. ASSUME NEW v \in Viewers, FindTarget(v) PROVE GrowsBelowLimit
  BY <1>28 DEF FindTarget, Goto, Move
<1>29. ASSUME NEW v \in Viewers, RegisterScreenViewer(v) PROVE GrowsBelowLimit
  BY <1>29 DEF RegisterScreenViewer, Goto, Move, StopTimer
<1>30. ASSUME NEW v \in Viewers, RemoveScreenViewer(v) PROVE GrowsBelowLimit
  BY <1>30 DEF RemoveScreenViewer, Goto, Move
<1>31. ASSUME NEW c \in Publishers \cup Viewers, ResetLookUp(c)
      PROVE  GrowsBelowLimit
  BY <1>31 DEF ResetLookUp, Move
<1>32. ASSUME NEW c \in Publishers \cup Viewers, ResetIdleIfEmpty(c)
      PROVE  GrowsBelowLimit
  BY <1>32 DEF ResetIdleIfEmpty, ArmTimer, Return, Move
<1>33. CASE UNCHANGED vars
  BY <1>33 DEF vars
<1> QED
  BY <1>1, <1>2, <1>3, <1>4, <1>5, <1>6, <1>7, <1>8, <1>9, <1>10, <1>11,
     <1>12, <1>13, <1>14, <1>15, <1>16, <1>17, <1>18, <1>19, <1>20, <1>21,
     <1>22, <1>23, <1>24, <1>25, <1>26, <1>27, <1>28, <1>29, <1>30, <1>31,
     <1>32, <1>33 DEF Next, RemoveRoom, IdleTimer, AnyHandler,
     HandleAudioStream, HandleScreenPublisher, HandleScreenViewer, ResetIdle

\* ShareCap: with GrowsBelowLimit, by the cardinality of subsets and of a set
\* with one element more.
LEMMA ShareCapStep ==
  TypeOK /\ ShareCap /\ [Next]_vars => ShareCap'
<1> SUFFICES ASSUME TypeOK, ShareCap, [Next]_vars, NEW r \in Rooms
             PROVE  Cardinality(publishers'[r]) <= MaxShares
  BY DEF ShareCap
<1>1. GrowsBelowLimit
  BY PublishersStep
<1>2. IsFiniteSet(publishers[r])
  <2>1. publishers[r] \subseteq Publishers
    BY DEF TypeOK
  <2> QED
    BY <2>1, FS_Subset, RoomManagerAssumption DEF RoomManagerAssumption
<1>3. Cardinality(publishers[r]) \in Nat /\ MaxShares \in Nat
  BY <1>2, FS_CardinalityType, RoomManagerAssumption DEF RoomManagerAssumption
<1>4. Cardinality(publishers[r]) <= MaxShares
  BY DEF ShareCap
<1>5. CASE publishers'[r] \subseteq publishers[r]
  <2>1. /\ Cardinality(publishers'[r]) \in Nat
        /\ Cardinality(publishers'[r]) <= Cardinality(publishers[r])
    BY <1>2, <1>5, FS_Subset, FS_CardinalityType
  <2> QED
    BY <1>3, <1>4, <2>1
<1>6. ASSUME NEW p \in Publishers, HasRoomFor(r),
             publishers'[r] = publishers[r] \cup {p}
      PROVE  Cardinality(publishers'[r]) <= MaxShares
  <2>1. Cardinality(publishers[r]) < MaxShares
    BY <1>6 DEF HasRoomFor
  <2>2. \/ Cardinality(publishers'[r]) = Cardinality(publishers[r])
        \/ Cardinality(publishers'[r]) = Cardinality(publishers[r]) + 1
    BY <1>2, <1>6, FS_AddElement
  <2> QED
    BY <1>3, <2>1, <2>2
<1> QED
  BY <1>1, <1>5, <1>6 DEF GrowsBelowLimit

-----------------------------------------------------------------------------
(* The inductive invariant and the theorems                                *)

IInv ==
  /\ TypeOK
  /\ MapInv
  /\ TidyInv
  /\ ShareCap
  /\ EmptyRoomHasCaretaker
  /\ EvictInv
  /\ ViewersFollowPublisher
  /\ SfuInv

\* IInv holds before the first room is created.
LEMMA InitIInv == Init => IInv
<1> SUFFICES ASSUME Init PROVE IInv
  OBVIOUS
<1> USE RoomManagerAssumption DEF RoomManagerAssumption, Init
<1>1. TypeOK
  BY DEF TypeOK, Life, Stage
<1>2. MapInv
  BY DEF MapInv, PointerInv, BoundInv, FreshInv, MemberInv
<1>3. TidyInv
  BY DEF TidyInv
<1>4. ShareCap
  BY FS_EmptySet DEF ShareCap
<1>5. EmptyRoomHasCaretaker
  BY DEF EmptyRoomHasCaretaker
<1>6. EvictInv /\ ViewersFollowPublisher /\ SfuInv
  BY DEF EvictInv, Accounted, ViewersFollowPublisher, SfuInv
<1> QED
  BY <1>1, <1>2, <1>3, <1>4, <1>5, <1>6 DEF IInv

\* Every step preserves IInv, by the lemmas above.
LEMMA StepIInv == IInv /\ [Next]_vars => IInv'
<1> SUFFICES ASSUME IInv, [Next]_vars PROVE IInv'
  OBVIOUS
<1>1. TypeOK'
  BY TypeStep DEF IInv, MapInv
<1>2. MapInv'
  BY <1>1, MapStep DEF IInv
<1>3. TidyInv' /\ ShareCap'
  BY <1>1, TidyStep, ShareCapStep DEF IInv
<1>4. EmptyRoomHasCaretaker' /\ ViewersFollowPublisher'
  BY <1>1, CaretakerStep, FollowStep DEF IInv
<1>5. EvictInv' /\ SfuInv'
  BY <1>1, EvictStep, SfuStep DEF IInv
<1> QED
  BY <1>1, <1>2, <1>3, <1>4, <1>5 DEF IInv

\* IInv holds in every state the program reaches.
THEOREM Invariance == Spec => []IInv
  BY InitIInv, StepIInv, PTL DEF Spec

\* Every variable keeps its type: in particular no handler in its read loop
\* uses a nil Room, and no viewer a publisher it has not looked up.
THEOREM TypeCorrect == Spec => []TypeOK
<1>1. IInv => TypeOK
  BY DEF IInv
<1> QED
  BY <1>1, Invariance, PTL

\* maxScreenSharesPerRoom is never exceeded, however publishers arrive, leave
\* and are removed with their room.
THEOREM SharesCapped == Spec => []ShareCap
<1>1. IInv => ShareCap
  BY DEF IInv
<1> QED
  BY <1>1, Invariance, PTL

\* An empty listed room always has an armed timer, a running destroyRoom or a
\* handler that will re-arm the timer.
THEOREM EmptyRoomWatched == Spec => []EmptyRoomHasCaretaker
<1>1. IInv => EmptyRoomHasCaretaker
  BY DEF IInv
<1> QED
  BY <1>1, Invariance, PTL

\* A completed RemoveRoom has closed every client and publisher that was in the
\* room when it emptied its maps, and whoever a Broadcast had taken out before
\* that, Broadcast closes.
THEOREM RemovalComplete == Spec => []RemovalEvicts
<1>1. IInv => RemovalEvicts
  BY DEF IInv, EvictInv, Accounted, RemovalEvicts
<1> QED
  BY <1>1, Invariance, PTL

\* No viewer is left behind by its publisher unless it registered too late.
THEOREM ViewersNotLeftBehind == Spec => []ViewersFollowPublisher
<1>1. IInv => ViewersFollowPublisher
  BY DEF IInv
<1> QED
  BY <1>1, Invariance, PTL

\* No publisher's SFU outlives its handler, but one that a RemoveRoom under way
\* will close, or that was made too late for it.
THEOREM ScreenSfuReleased == Spec => []SfuReleased
<1>1. IInv => SfuReleased
  <2> SUFFICES ASSUME IInv, NEW p \in Publishers, pc[p] = "done",
                      sfu[p] = "open"
               PROVE  \E r \in Rooms : life[r] = "cleared" /\ p \in sfus[r]
    BY DEF SfuReleased
  <2>1. ~(at[p] \in Rooms /\ p \in publishers[at[p]])
    BY DEF IInv, MapInv, MemberInv
  <2>2. PICK r \in Rooms : p \in sfus[r]
    BY <2>1 DEF IInv, SfuInv
  <2> QED
    BY <2>2 DEF IInv, TidyInv
<1> QED
  BY <1>1, Invariance, PTL
=============================================================================
