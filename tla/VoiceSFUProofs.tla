---------------------------- MODULE VoiceSFUProofs ----------------------------
(***************************************************************************)
(* Proofs about VoiceSFU, for any number of users, devices and tracks: no  *)
(* PeerConnection goes astray, nobody hears itself, and nobody is missed.  *)
(***************************************************************************)
EXTENDS VoiceSFU, TLAPS

\* The pub a user id is reserved for belongs to a connection of that user.
PublisherOf(u) ==
  publishers[u] # None =>
    publishers[u] \in Pubs /\ owner[publishers[u]] \in Conns
      /\ PubUser(publishers[u]) = u

\* A pub is made once, and has no pc and no track before.
MadeOnce(p) ==
  /\ owner[p] = None => pubPc[p] = "nil"
  /\ p \in local => pubPc[p] # "nil"

\* While HandleOffer sets up a pub, it is in the map or somebody has seen it
\* there; CreatePublisherPc does not look.
SettingUp(c) ==
  handler[c] \in {"creating", "negotiating"} =>
    /\ mine[c] \in Pubs /\ owner[mine[c]] = c
    /\ handler[c] = "creating" =>
         /\ pubPc[mine[c]] = "nil"
         /\ \/ publishers[User[c]] = mine[c]
            \/ mine[c] \in doomed
            \/ mine[c] \in orphans

PubInv ==
  /\ \A u \in Users : PublisherOf(u)
  /\ \A p \in Pubs : MadeOnce(p)
  /\ \A c \in Conns : SettingUp(c)

\* A sub carries a track to a connection of another user, from the start to the
\* end.
Carries(x) ==
  subPc[x] # "nil" =>
    /\ to[x] \in Conns
    /\ of[x] \in Pubs /\ owner[of[x]] \in Conns
    /\ User[to[x]] # PubUser(of[x])

\* It is registered where removeSubscriber, RemoveParticipant and sendOfferTo
\* look for it.
RegisteredAt(c, u) ==
  subscribers[c][u] # None =>
    /\ subPc[subscribers[c][u]] # "nil"
    /\ to[subscribers[c][u]] = c
    /\ PubUser(of[subscribers[c][u]]) = u

SubInv ==
  /\ \A x \in Subs : Carries(x)
  /\ \A c \in Conns, u \in Users : RegisteredAt(c, u)
  /\ \A t \in Threads : current[t] # None => subPc[current[t]] # "nil"
  /\ \A x \in Subs : x \in callback \/ x \in doomed => subPc[x] # "nil"

\* What a thread remembers it remembers of tracks that have arrived and of
\* other users' connections; and it remembers nothing that would be forgotten
\* when it is told the next.
TodoInv ==
  /\ \A t \in Threads, c \in Conns, p \in Pubs :
       <<c, p>> \in todo[t] => p \in local /\ User[c] # PubUser(p)
  /\ \A c \in Conns : handler[c] # "reading" => todo[c] = {}
  /\ \A p \in Pubs : p \notin local => todo[p] = {}

\* A closed SFU is empty and stays so.
ClosedInv ==
  closed =>
    /\ participants = {}
    /\ \A u \in Users : publishers[u] = None
    /\ \A c \in Conns, u \in Users : subscribers[c][u] = None

\* NobodyMissed, where the sub is looked for.
Receives(c, p) ==
  /\ subscribers[c][PubUser(p)] # None
  /\ of[subscribers[c][PubUser(p)]] = p

Heard(c, p) ==
  Apart(c, p) /\ <<c, p>> \notin masked => OfferUnderWay(c, p) \/ Receives(c, p)

HeardInv == \A c \in Conns, p \in Pubs : Heard(c, p)

IInv ==
  /\ TypeOK /\ PubInv /\ SubInv /\ TodoInv /\ ClosedInv /\ HeardInv
  /\ NoStraySubscriber /\ NoStrayPublisher

-----------------------------------------------------------------------------
\* Nobody takes part and nothing is registered.
LEMMA InitIInv == Init => IInv
<1> SUFFICES ASSUME Init PROVE IInv
  OBVIOUS
<1> USE VoiceSFUAssumption DEF VoiceSFUAssumption, Init
<1>1. closed \in BOOLEAN
  OBVIOUS
<1>2. TypeOK
  BY <1>1 DEF TypeOK, Threads
<1>3. PubInv
  BY DEF PubInv, PublisherOf, MadeOnce, SettingUp
<1>4. SubInv
  BY DEF SubInv, Carries, RegisteredAt
<1>5. TodoInv /\ ClosedInv
  BY DEF TodoInv, ClosedInv, Threads
<1>6. NoStraySubscriber /\ NoStrayPublisher
  BY DEF NoStraySubscriber, NoStrayPublisher, PubOpen
<1>7. HeardInv
  BY DEF HeardInv, Heard, Apart
<1> QED
  BY <1>2, <1>3, <1>4, <1>5, <1>6, <1>7 DEF IInv

\* removeSubscriber keeps the types.
LEMMA RemoveSubscriberTypes ==
  ASSUME TypeOK, SubInv, NEW c \in Conns, NEW u \in Users, RemoveSubscriber(c, u)
  PROVE  /\ subscribers' \in [Conns -> [Users -> Subs \cup {None}]]
         /\ doomed' \subseteq Pubs \cup Subs /\ lost' \subseteq Conns \X Pubs
<1>1. subscribers[c][u] \in Subs \cup {None}
  BY DEF TypeOK
<1>2. SubAt(c, u) \subseteq Subs /\ \A x \in SubAt(c, u) : of[x] \in Pubs
  BY <1>1 DEF SubAt, SubInv, RegisteredAt, Carries
<1> QED
  BY <1>1, <1>2 DEF TypeOK, RemoveSubscriber

\* What it takes out of the map it leaves to be closed.
LEMMA RemoveSubscriberStray ==
  ASSUME TypeOK, NoStraySubscriber, NEW c \in Conns, NEW u \in Users,
         RemoveSubscriber(c, u), UNCHANGED subPc
  PROVE  NoStraySubscriber'
<1>1. SUFFICES ASSUME NEW y \in Subs, subPc[y] = "open"
               PROVE  y \in Registered' \/ y \in doomed'
  BY DEF NoStraySubscriber
<1>2. doomed' = doomed \cup SubAt(c, u)
  BY DEF RemoveSubscriber
<1>3. CASE y \in doomed
  BY <1>2, <1>3
<1>4. CASE y \in Registered
  <2>1. PICK d \in Conns, w \in Users : y \in SubAt(d, w)
    BY <1>4 DEF Registered, Own
  <2>2. CASE d = c /\ w = u
    BY <1>2, <2>1, <2>2
  <2>3. CASE ~(d = c /\ w = u)
    <3>1. subscribers'[d][w] = subscribers[d][w]
      BY <2>3 DEF RemoveSubscriber, TypeOK
    <3>2. y \in SubAt(d, w)'
      BY <2>1, <3>1 DEF SubAt
    <3> QED
      BY <3>2 DEF Registered, Own
  <2> QED
    BY <2>2, <2>3
<1> QED
  BY <1>1, <1>3, <1>4 DEF NoStraySubscriber

\* Whom it stops from hearing somebody it notes in lost.
LEMMA RemoveSubscriberHeard ==
  ASSUME TypeOK, NEW d \in Conns, NEW q \in Pubs, Heard(d, q),
         q \in local => PubUser(q) \in Users,
         NEW c \in Conns, NEW u \in Users, RemoveSubscriber(c, u),
         UNCHANGED <<participants, publishers, pubVars, of, handler, todo,
                     masked>>
  PROVE  Heard(d, q)'
<1>1. lost \subseteq lost'
  BY DEF RemoveSubscriber
<1>2. UNCHANGED PubUser(q)
  BY DEF PubUser, pubVars
<1>3. ASSUME q \in local, Receives(d, q), <<d, q>> \notin lost'
      PROVE  Receives(d, q)'
  <2>1. ~(d = c /\ u = PubUser(q))
    BY <1>3 DEF RemoveSubscriber, SubAt, Receives
  <2>2. subscribers'[d][PubUser(q)] = subscribers[d][PubUser(q)]
    BY <1>3, <2>1 DEF RemoveSubscriber, TypeOK
  <2> QED
    BY <1>2, <1>3, <2>2 DEF Receives
<1> QED
  BY <1>1, <1>2, <1>3 DEF Heard, Apart, OfferUnderWay, pubVars

\* Every action keeps the types.
LEMMA TypeStep ==
  TypeOK /\ PubInv /\ SubInv /\ [Next]_vars => TypeOK'
<1> SUFFICES ASSUME TypeOK, PubInv, SubInv, [Next]_vars
             PROVE  TypeOK'
  OBVIOUS
<1> USE VoiceSFUAssumption DEF VoiceSFUAssumption, TypeOK, PubInv, SubInv,
   TodoInv, SettingUp, Carries, RegisteredAt, MayFail, Fails, sfuVars, pubVars,
   subVars, threadVars, history, Threads
<1>1. ASSUME NEW c \in Conns, RegisterParticipant(c) PROVE TypeOK'
  BY <1>1 DEF RegisterParticipant, Reading
<1>2. ASSUME NEW c \in Conns, OfferClosed(c) PROVE TypeOK'
  BY <1>2 DEF OfferClosed
<1>3. ASSUME NEW c \in Conns, OfferKnownUser(c) PROVE TypeOK'
  BY <1>3 DEF OfferKnownUser
<1>4. ASSUME NEW c \in Conns, NEW p \in Pubs, OfferNewPublisher(c, p)
      PROVE  TypeOK'
  BY <1>4 DEF OfferNewPublisher
<1>5. ASSUME NEW c \in Conns, CreatePublisherPc(c) PROVE TypeOK'
  BY <1>5 DEF CreatePublisherPc
<1>6. ASSUME NEW c \in Conns, HandleOfferFails(c) PROVE TypeOK'
  BY <1>6 DEF HandleOfferFails, Publishing, PubOf
<1>7. ASSUME NEW c \in Conns, SendAnswer(c) PROVE TypeOK'
  BY <1>7 DEF SendAnswer
<1>8. ASSUME NEW c \in Conns, FanOutExistingTo(c) PROVE TypeOK'
  BY <1>8 DEF FanOutExistingTo, PubOf
<1>9. ASSUME NEW c \in Conns, RemoveParticipant(c) PROVE TypeOK'
  BY <1>9 DEF RemoveParticipant, Reading, LeavePub, LeaveStale, PubOf, Own,
     SubAt
<1>10. ASSUME NEW t \in Threads, NEW c \in Conns, NEW p \in Pubs, SkipOffer(t,
              c, p)
      PROVE  TypeOK'
  BY <1>10 DEF SkipOffer, SubAt
<1>11. ASSUME NEW t \in Threads, NEW c \in Conns, NEW p \in Pubs,
              CreateSubscriberFails(t, c, p)
      PROVE  TypeOK'
  BY <1>11 DEF CreateSubscriberFails
<1>12. ASSUME NEW t \in Threads, NEW c \in Conns, NEW p \in Pubs, NEW x \in
              Subs, RegisterSubscriber(t, c, p, x)
      PROVE  TypeOK'
  BY <1>12 DEF RegisterSubscriber, NewSubscriber
<1>13. ASSUME NEW t \in Threads, SendOffer(t) PROVE TypeOK'
  BY <1>13 DEF SendOffer
<1>14. ASSUME NEW t \in Threads, SendOfferFails(t) PROVE TypeOK'
  <2>1. /\ to[current[t]] \in Conns /\ of[current[t]] \in Pubs
        /\ PubUser(of[current[t]]) \in Users
    BY <1>14 DEF SendOfferFails, PubUser
  <2>2. /\ subscribers' \in [Conns -> [Users -> Subs \cup {None}]]
        /\ doomed' \subseteq Pubs \cup Subs /\ lost' \subseteq Conns \X Pubs
    BY <1>14, <2>1, RemoveSubscriberTypes DEF SendOfferFails
  <2>3. failures' \in 0 .. MaxFailures
    BY <1>14 DEF SendOfferFails
  <2> QED
    BY <1>14, <2>2, <2>3 DEF SendOfferFails
<1>15. ASSUME NEW p \in Pubs, OnPublisherTrack(p) PROVE TypeOK'
  BY <1>15 DEF OnPublisherTrack
<1>16. ASSUME NEW p \in Pubs, ClosePublisher(p) PROVE TypeOK'
  BY <1>16 DEF ClosePublisher
<1>17. ASSUME NEW x \in Subs, SubscriberDisconnects(x) PROVE TypeOK'
  BY <1>17 DEF SubscriberDisconnects
<1>18. ASSUME NEW x \in Subs, OnSubscriberStateChange(x) PROVE TypeOK'
  <2>1. /\ to[x] \in Conns /\ of[x] \in Pubs /\ PubUser(of[x]) \in Users
    BY <1>18 DEF OnSubscriberStateChange, PubUser
  <2>2. /\ subscribers' \in [Conns -> [Users -> Subs \cup {None}]]
        /\ doomed' \subseteq Pubs \cup Subs /\ lost' \subseteq Conns \X Pubs
    BY <1>18, <2>1, RemoveSubscriberTypes DEF OnSubscriberStateChange
  <2> QED
    BY <1>18, <2>2 DEF OnSubscriberStateChange
<1>19. ASSUME NEW x \in Subs, CloseSubscriber(x) PROVE TypeOK'
  BY <1>19 DEF CloseSubscriber
<1>20. CASE Close
  BY <1>20 DEF Close, Registered, Publishing, Own, SubAt, PubOf
<1>21. CASE UNCHANGED vars
  BY <1>21 DEF vars
<1> QED
  BY <1>1, <1>2, <1>3, <1>4, <1>5, <1>6, <1>7, <1>8, <1>9, <1>10, <1>11, <1>12,
     <1>13, <1>14, <1>15, <1>16, <1>17, <1>18, <1>19, <1>20, <1>21 DEF Next,
     HandleOffer, SendOfferTo, Pion

\* Nobody but its HandleOffer gives a pub its pc.
LEMMA PubStep ==
  TypeOK /\ PubInv /\ [Next]_vars => PubInv'
<1> SUFFICES ASSUME TypeOK, PubInv, [Next]_vars
             PROVE  PubInv'
  OBVIOUS
<1> USE VoiceSFUAssumption DEF VoiceSFUAssumption, TypeOK, PubInv, SettingUp,
   PublisherOf, MadeOnce, PubUser, sfuVars, pubVars, subVars, threadVars,
   history, Threads
<1>1. ASSUME NEW c \in Conns, RegisterParticipant(c) PROVE PubInv'
  BY <1>1 DEF RegisterParticipant, Reading
<1>2. ASSUME NEW c \in Conns, OfferClosed(c) PROVE PubInv'
  BY <1>2 DEF OfferClosed
<1>3. ASSUME NEW c \in Conns, OfferKnownUser(c) PROVE PubInv'
  BY <1>3 DEF OfferKnownUser
<1>4. ASSUME NEW c \in Conns, NEW p \in Pubs, OfferNewPublisher(c, p)
      PROVE  PubInv'
  BY <1>4 DEF OfferNewPublisher
<1>5. ASSUME NEW c \in Conns, CreatePublisherPc(c) PROVE PubInv'
  BY <1>5 DEF CreatePublisherPc
<1>6. ASSUME NEW c \in Conns, HandleOfferFails(c) PROVE PubInv'
  BY <1>6 DEF HandleOfferFails, Publishing, PubOf
<1>7. ASSUME NEW c \in Conns, SendAnswer(c) PROVE PubInv'
  BY <1>7 DEF SendAnswer
<1>8. ASSUME NEW c \in Conns, FanOutExistingTo(c) PROVE PubInv'
  BY <1>8 DEF FanOutExistingTo, PubOf
<1>9. ASSUME NEW c \in Conns, RemoveParticipant(c) PROVE PubInv'
  BY <1>9 DEF RemoveParticipant, Reading, LeavePub, LeaveStale, PubOf, Own,
     SubAt
<1>10. ASSUME NEW t \in Threads, NEW c \in Conns, NEW p \in Pubs, SkipOffer(t,
              c, p)
      PROVE  PubInv'
  BY <1>10 DEF SkipOffer, SubAt
<1>11. ASSUME NEW t \in Threads, NEW c \in Conns, NEW p \in Pubs,
              CreateSubscriberFails(t, c, p)
      PROVE  PubInv'
  BY <1>11 DEF CreateSubscriberFails
<1>12. ASSUME NEW t \in Threads, NEW c \in Conns, NEW p \in Pubs, NEW x \in
              Subs, RegisterSubscriber(t, c, p, x)
      PROVE  PubInv'
  BY <1>12 DEF RegisterSubscriber, NewSubscriber
<1>13. ASSUME NEW t \in Threads, SendOffer(t) PROVE PubInv'
  BY <1>13 DEF SendOffer
<1>14. ASSUME NEW t \in Threads, SendOfferFails(t) PROVE PubInv'
  BY <1>14 DEF SendOfferFails, RemoveSubscriber
<1>15. ASSUME NEW p \in Pubs, OnPublisherTrack(p) PROVE PubInv'
  BY <1>15 DEF OnPublisherTrack
<1>16. ASSUME NEW p \in Pubs, ClosePublisher(p) PROVE PubInv'
  <2>1. CASE pubPc[p] = "nil"
    BY <1>16, <2>1 DEF ClosePublisher
  <2>2. CASE pubPc[p] # "nil"
    <3> DEFINE over == IF pubPc[p] = "stable" THEN "hungUp" ELSE "closed"
    <3>0. over \in {"hungUp", "closed"}
      OBVIOUS
    <3>1. /\ pubPc' = [pubPc EXCEPT ![p] = over] /\ doomed' = doomed \ {p}
          /\ UNCHANGED <<publishers, owner, local, handler, mine, orphans>>
      BY <1>16, <2>2 DEF ClosePublisher
    <3> HIDE DEF over
    <3>2. \A u \in Users : PublisherOf(u)'
      BY <3>1
    <3>3. \A r \in Pubs : MadeOnce(r)'
      BY <2>2, <3>0, <3>1
    <3>4. ASSUME NEW c \in Conns PROVE SettingUp(c)'
      BY <2>2, <3>0, <3>1
    <3> QED
      BY <3>2, <3>3, <3>4
  <2> QED
    BY <2>1, <2>2
<1>17. ASSUME NEW x \in Subs, SubscriberDisconnects(x) PROVE PubInv'
  BY <1>17 DEF SubscriberDisconnects
<1>18. ASSUME NEW x \in Subs, OnSubscriberStateChange(x) PROVE PubInv'
  BY <1>18 DEF OnSubscriberStateChange, RemoveSubscriber
<1>19. ASSUME NEW x \in Subs, CloseSubscriber(x) PROVE PubInv'
  BY <1>19 DEF CloseSubscriber
<1>20. CASE Close
  BY <1>20 DEF Close, Registered, Publishing, Own, SubAt, PubOf
<1>21. CASE UNCHANGED vars
  BY <1>21 DEF vars
<1> QED
  BY <1>1, <1>2, <1>3, <1>4, <1>5, <1>6, <1>7, <1>8, <1>9, <1>10, <1>11, <1>12,
     <1>13, <1>14, <1>15, <1>16, <1>17, <1>18, <1>19, <1>20, <1>21 DEF Next,
     HandleOffer, SendOfferTo, Pion

\* A sub is registered once, where it is looked for.
LEMMA SubStep ==
  TypeOK /\ PubInv /\ SubInv /\ TodoInv /\ [Next]_vars => SubInv'
<1> SUFFICES ASSUME TypeOK, PubInv, SubInv, TodoInv, [Next]_vars
             PROVE  SubInv'
  OBVIOUS
<1> USE VoiceSFUAssumption DEF VoiceSFUAssumption, TypeOK, PubInv, SubInv,
   TodoInv, MadeOnce, Carries, RegisteredAt, PubUser, sfuVars, pubVars,
   subVars, threadVars, history, Threads
<1>1. ASSUME NEW c \in Conns, RegisterParticipant(c) PROVE SubInv'
  BY <1>1 DEF RegisterParticipant, Reading
<1>2. ASSUME NEW c \in Conns, OfferClosed(c) PROVE SubInv'
  BY <1>2 DEF OfferClosed
<1>3. ASSUME NEW c \in Conns, OfferKnownUser(c) PROVE SubInv'
  BY <1>3 DEF OfferKnownUser
<1>4. ASSUME NEW c \in Conns, NEW p \in Pubs, OfferNewPublisher(c, p)
      PROVE  SubInv'
  BY <1>4 DEF OfferNewPublisher
<1>5. ASSUME NEW c \in Conns, CreatePublisherPc(c) PROVE SubInv'
  BY <1>5 DEF CreatePublisherPc
<1>6. ASSUME NEW c \in Conns, HandleOfferFails(c) PROVE SubInv'
  BY <1>6 DEF HandleOfferFails, Publishing, PubOf
<1>7. ASSUME NEW c \in Conns, SendAnswer(c) PROVE SubInv'
  BY <1>7 DEF SendAnswer
<1>8. ASSUME NEW c \in Conns, FanOutExistingTo(c) PROVE SubInv'
  BY <1>8 DEF FanOutExistingTo, PubOf
<1>9. ASSUME NEW c \in Conns, RemoveParticipant(c) PROVE SubInv'
  BY <1>9 DEF RemoveParticipant, Reading, LeavePub, LeaveStale, PubOf, Own,
     SubAt
<1>10. ASSUME NEW t \in Threads, NEW c \in Conns, NEW p \in Pubs, SkipOffer(t,
              c, p)
      PROVE  SubInv'
  BY <1>10 DEF SkipOffer, SubAt
<1>11. ASSUME NEW t \in Threads, NEW c \in Conns, NEW p \in Pubs,
              CreateSubscriberFails(t, c, p)
      PROVE  SubInv'
  BY <1>11 DEF CreateSubscriberFails
<1>12. ASSUME NEW t \in Threads, NEW c \in Conns, NEW p \in Pubs, NEW x \in
              Subs, RegisterSubscriber(t, c, p, x)
      PROVE  SubInv'
  <2>1. /\ <<c, p>> \in todo[t] /\ subPc[x] = "nil"
        /\ current' = [current EXCEPT ![t] = x]
        /\ subscribers' = [subscribers EXCEPT ![c][PubUser(p)] = x]
        /\ to' = [to EXCEPT ![x] = c] /\ of' = [of EXCEPT ![x] = p]
        /\ subPc' = [subPc EXCEPT ![x] = "open"]
        /\ UNCHANGED <<owner, callback, doomed>>
    BY <1>12 DEF RegisterSubscriber, NewSubscriber
  <2>2. owner[p] \in Conns /\ User[c] # User[owner[p]]
    BY <2>1
  <2>3. /\ subPc'[x] = "open" /\ to'[x] = c /\ of'[x] = p
        /\ \A y \in Subs \ {x} :
             subPc'[y] = subPc[y] /\ to'[y] = to[y] /\ of'[y] = of[y]
    BY <2>1
  <2>4. \A y \in Subs : Carries(y)'
    BY <2>1, <2>2, <2>3
  <2>5. ASSUME NEW d \in Conns, NEW u \in Users PROVE RegisteredAt(d, u)'
    <3>1. CASE d = c /\ u = User[owner[p]]
      <4>1. subscribers'[d][u] = x
        BY <2>1, <3>1
      <4> QED
        BY <2>1, <2>3, <3>1, <4>1
    <3>2. CASE ~(d = c /\ u = User[owner[p]])
      <4>1. subscribers'[d][u] = subscribers[d][u]
        BY <2>1, <3>2
      <4>2. subscribers[d][u] # x
        <5>1. subscribers[d][u] # None => subPc[subscribers[d][u]] # "nil"
          OBVIOUS
        <5>2. x # None
          OBVIOUS
        <5> QED
          BY <2>1, <5>1, <5>2
      <4> QED
        BY <2>1, <2>3, <4>1, <4>2
    <3> QED
      BY <3>1, <3>2
  <2>6. \A s \in Threads : current'[s] # None => subPc'[current'[s]] # "nil"
    BY <2>1, <2>3
  <2>7. \A y \in Subs : y \in callback' \/ y \in doomed' => subPc'[y] # "nil"
    BY <2>1, <2>3
  <2> QED
    BY <2>4, <2>5, <2>6, <2>7
<1>13. ASSUME NEW t \in Threads, SendOffer(t) PROVE SubInv'
  BY <1>13 DEF SendOffer
<1>14. ASSUME NEW t \in Threads, SendOfferFails(t) PROVE SubInv'
  <2>1. PICK c \in Conns, u \in Users : RemoveSubscriber(c, u)
    BY <1>14 DEF SendOfferFails
  <2>2. /\ UNCHANGED <<owner, to, of, subPc, callback>>
        /\ current' = [current EXCEPT ![t] = None]
    BY <1>14 DEF SendOfferFails
  <2> QED
    BY <2>1, <2>2 DEF RemoveSubscriber, SubAt
<1>15. ASSUME NEW p \in Pubs, OnPublisherTrack(p) PROVE SubInv'
  BY <1>15 DEF OnPublisherTrack
<1>16. ASSUME NEW p \in Pubs, ClosePublisher(p) PROVE SubInv'
  BY <1>16 DEF ClosePublisher
<1>17. ASSUME NEW x \in Subs, SubscriberDisconnects(x) PROVE SubInv'
  BY <1>17 DEF SubscriberDisconnects
<1>18. ASSUME NEW x \in Subs, OnSubscriberStateChange(x) PROVE SubInv'
  <2>1. PICK c \in Conns, u \in Users : RemoveSubscriber(c, u)
    BY <1>18 DEF OnSubscriberStateChange
  <2>2. UNCHANGED <<owner, to, of, subPc, current>> /\ callback' = callback \ {x}
    BY <1>18 DEF OnSubscriberStateChange
  <2> QED
    BY <2>1, <2>2 DEF RemoveSubscriber, SubAt
<1>19. ASSUME NEW x \in Subs, CloseSubscriber(x) PROVE SubInv'
  BY <1>19 DEF CloseSubscriber
<1>20. CASE Close
  BY <1>20 DEF Close, Registered, Publishing, Own, SubAt, PubOf
<1>21. CASE UNCHANGED vars
  BY <1>21 DEF vars
<1> QED
  BY <1>1, <1>2, <1>3, <1>4, <1>5, <1>6, <1>7, <1>8, <1>9, <1>10, <1>11, <1>12,
     <1>13, <1>14, <1>15, <1>16, <1>17, <1>18, <1>19, <1>20, <1>21 DEF Next,
     HandleOffer, SendOfferTo, Pion

\* What is to be offered is for others.
LEMMA TodoStep ==
  TypeOK /\ PubInv /\ TodoInv /\ [Next]_vars => TodoInv'
<1> SUFFICES ASSUME TypeOK, PubInv, TodoInv, [Next]_vars
             PROVE  TodoInv'
  OBVIOUS
<1> USE VoiceSFUAssumption DEF VoiceSFUAssumption, TypeOK, PubInv, PublisherOf,
   MadeOnce, TodoInv, PubUser, sfuVars, pubVars, subVars, threadVars, history,
   Threads
<1>1. ASSUME NEW c \in Conns, RegisterParticipant(c) PROVE TodoInv'
  BY <1>1 DEF RegisterParticipant, Reading
<1>2. ASSUME NEW c \in Conns, OfferClosed(c) PROVE TodoInv'
  BY <1>2 DEF OfferClosed
<1>3. ASSUME NEW c \in Conns, OfferKnownUser(c) PROVE TodoInv'
  BY <1>3 DEF OfferKnownUser
<1>4. ASSUME NEW c \in Conns, NEW p \in Pubs, OfferNewPublisher(c, p)
      PROVE  TodoInv'
  BY <1>4 DEF OfferNewPublisher
<1>5. ASSUME NEW c \in Conns, CreatePublisherPc(c) PROVE TodoInv'
  BY <1>5 DEF CreatePublisherPc
<1>6. ASSUME NEW c \in Conns, HandleOfferFails(c) PROVE TodoInv'
  BY <1>6 DEF HandleOfferFails, Publishing, PubOf
<1>7. ASSUME NEW c \in Conns, SendAnswer(c) PROVE TodoInv'
  BY <1>7 DEF SendAnswer
<1>8. ASSUME NEW c \in Conns, FanOutExistingTo(c) PROVE TodoInv'
  BY <1>8 DEF FanOutExistingTo, PubOf
<1>9. ASSUME NEW c \in Conns, RemoveParticipant(c) PROVE TodoInv'
  BY <1>9 DEF RemoveParticipant, Reading
<1>10. ASSUME NEW t \in Threads, NEW c \in Conns, NEW p \in Pubs, SkipOffer(t,
              c, p)
      PROVE  TodoInv'
  BY <1>10 DEF SkipOffer, SubAt
<1>11. ASSUME NEW t \in Threads, NEW c \in Conns, NEW p \in Pubs,
              CreateSubscriberFails(t, c, p)
      PROVE  TodoInv'
  BY <1>11 DEF CreateSubscriberFails
<1>12. ASSUME NEW t \in Threads, NEW c \in Conns, NEW p \in Pubs, NEW x \in
              Subs, RegisterSubscriber(t, c, p, x)
      PROVE  TodoInv'
  BY <1>12 DEF RegisterSubscriber, NewSubscriber
<1>13. ASSUME NEW t \in Threads, SendOffer(t) PROVE TodoInv'
  BY <1>13 DEF SendOffer
<1>14. ASSUME NEW t \in Threads, SendOfferFails(t) PROVE TodoInv'
  BY <1>14 DEF SendOfferFails
<1>15. ASSUME NEW p \in Pubs, OnPublisherTrack(p) PROVE TodoInv'
  BY <1>15 DEF OnPublisherTrack
<1>16. ASSUME NEW p \in Pubs, ClosePublisher(p) PROVE TodoInv'
  BY <1>16 DEF ClosePublisher
<1>17. ASSUME NEW x \in Subs, SubscriberDisconnects(x) PROVE TodoInv'
  BY <1>17 DEF SubscriberDisconnects
<1>18. ASSUME NEW x \in Subs, OnSubscriberStateChange(x) PROVE TodoInv'
  BY <1>18 DEF OnSubscriberStateChange
<1>19. ASSUME NEW x \in Subs, CloseSubscriber(x) PROVE TodoInv'
  BY <1>19 DEF CloseSubscriber
<1>20. CASE Close
  BY <1>20 DEF Close, Registered, Publishing, Own, SubAt, PubOf
<1>21. CASE UNCHANGED vars
  BY <1>21 DEF vars
<1> QED
  BY <1>1, <1>2, <1>3, <1>4, <1>5, <1>6, <1>7, <1>8, <1>9, <1>10, <1>11, <1>12,
     <1>13, <1>14, <1>15, <1>16, <1>17, <1>18, <1>19, <1>20, <1>21 DEF Next,
     HandleOffer, SendOfferTo, Pion

\* Everything that adds to the maps has tested s.closed.
LEMMA ClosedStep ==
  TypeOK /\ ClosedInv /\ [Next]_vars => ClosedInv'
<1> SUFFICES ASSUME TypeOK, ClosedInv, [Next]_vars
             PROVE  ClosedInv'
  OBVIOUS
<1> USE VoiceSFUAssumption DEF VoiceSFUAssumption, TypeOK, ClosedInv, sfuVars,
   pubVars, subVars, threadVars, history, Threads
<1>1. ASSUME NEW c \in Conns, RegisterParticipant(c) PROVE ClosedInv'
  BY <1>1 DEF RegisterParticipant, Reading
<1>2. ASSUME NEW c \in Conns, OfferClosed(c) PROVE ClosedInv'
  BY <1>2 DEF OfferClosed
<1>3. ASSUME NEW c \in Conns, OfferKnownUser(c) PROVE ClosedInv'
  BY <1>3 DEF OfferKnownUser
<1>4. ASSUME NEW c \in Conns, NEW p \in Pubs, OfferNewPublisher(c, p)
      PROVE  ClosedInv'
  BY <1>4 DEF OfferNewPublisher
<1>5. ASSUME NEW c \in Conns, CreatePublisherPc(c) PROVE ClosedInv'
  BY <1>5 DEF CreatePublisherPc
<1>6. ASSUME NEW c \in Conns, HandleOfferFails(c) PROVE ClosedInv'
  BY <1>6 DEF HandleOfferFails, Publishing, PubOf
<1>7. ASSUME NEW c \in Conns, SendAnswer(c) PROVE ClosedInv'
  BY <1>7 DEF SendAnswer
<1>8. ASSUME NEW c \in Conns, FanOutExistingTo(c) PROVE ClosedInv'
  BY <1>8 DEF FanOutExistingTo, PubOf
<1>9. ASSUME NEW c \in Conns, RemoveParticipant(c) PROVE ClosedInv'
  BY <1>9 DEF RemoveParticipant, Reading, LeavePub, LeaveStale, PubOf, Own,
     SubAt
<1>10. ASSUME NEW t \in Threads, NEW c \in Conns, NEW p \in Pubs, SkipOffer(t,
              c, p)
      PROVE  ClosedInv'
  BY <1>10 DEF SkipOffer, SubAt
<1>11. ASSUME NEW t \in Threads, NEW c \in Conns, NEW p \in Pubs,
              CreateSubscriberFails(t, c, p)
      PROVE  ClosedInv'
  BY <1>11 DEF CreateSubscriberFails
<1>12. ASSUME NEW t \in Threads, NEW c \in Conns, NEW p \in Pubs, NEW x \in
              Subs, RegisterSubscriber(t, c, p, x)
      PROVE  ClosedInv'
  BY <1>12 DEF RegisterSubscriber, NewSubscriber
<1>13. ASSUME NEW t \in Threads, SendOffer(t) PROVE ClosedInv'
  BY <1>13 DEF SendOffer
<1>14. ASSUME NEW t \in Threads, SendOfferFails(t) PROVE ClosedInv'
  BY <1>14 DEF SendOfferFails, RemoveSubscriber, SubAt
<1>15. ASSUME NEW p \in Pubs, OnPublisherTrack(p) PROVE ClosedInv'
  BY <1>15 DEF OnPublisherTrack
<1>16. ASSUME NEW p \in Pubs, ClosePublisher(p) PROVE ClosedInv'
  BY <1>16 DEF ClosePublisher
<1>17. ASSUME NEW x \in Subs, SubscriberDisconnects(x) PROVE ClosedInv'
  BY <1>17 DEF SubscriberDisconnects
<1>18. ASSUME NEW x \in Subs, OnSubscriberStateChange(x) PROVE ClosedInv'
  BY <1>18 DEF OnSubscriberStateChange, RemoveSubscriber, SubAt
<1>19. ASSUME NEW x \in Subs, CloseSubscriber(x) PROVE ClosedInv'
  BY <1>19 DEF CloseSubscriber
<1>20. CASE Close
  BY <1>20 DEF Close, Registered, Publishing, Own, SubAt, PubOf
<1>21. CASE UNCHANGED vars
  BY <1>21 DEF vars
<1> QED
  BY <1>1, <1>2, <1>3, <1>4, <1>5, <1>6, <1>7, <1>8, <1>9, <1>10, <1>11, <1>12,
     <1>13, <1>14, <1>15, <1>16, <1>17, <1>18, <1>19, <1>20, <1>21 DEF Next,
     HandleOffer, SendOfferTo, Pion

\* Whoever takes a sub out of the map closes it, and nobody overwrites one.
LEMMA StraySubscriberStep ==
  TypeOK /\ PubInv /\ SubInv /\ TodoInv /\ NoStraySubscriber /\ [Next]_vars =>
    NoStraySubscriber'
<1> SUFFICES ASSUME TypeOK, PubInv, SubInv, TodoInv, NoStraySubscriber,
                    [Next]_vars
             PROVE  NoStraySubscriber'
  OBVIOUS
<1> USE VoiceSFUAssumption DEF VoiceSFUAssumption, TypeOK, SubInv, Carries,
   RegisteredAt, NoStraySubscriber, Registered, Own, SubAt, sfuVars, pubVars,
   subVars, threadVars, history, Threads
<1>1. ASSUME NEW c \in Conns, RegisterParticipant(c) PROVE NoStraySubscriber'
  BY <1>1 DEF RegisterParticipant, Reading
<1>2. ASSUME NEW c \in Conns, OfferClosed(c) PROVE NoStraySubscriber'
  BY <1>2 DEF OfferClosed
<1>3. ASSUME NEW c \in Conns, OfferKnownUser(c) PROVE NoStraySubscriber'
  BY <1>3 DEF OfferKnownUser
<1>4. ASSUME NEW c \in Conns, NEW p \in Pubs, OfferNewPublisher(c, p)
      PROVE  NoStraySubscriber'
  BY <1>4 DEF OfferNewPublisher
<1>5. ASSUME NEW c \in Conns, CreatePublisherPc(c) PROVE NoStraySubscriber'
  BY <1>5 DEF CreatePublisherPc
<1>6. ASSUME NEW c \in Conns, HandleOfferFails(c) PROVE NoStraySubscriber'
  BY <1>6 DEF HandleOfferFails, Publishing, PubOf
<1>7. ASSUME NEW c \in Conns, SendAnswer(c) PROVE NoStraySubscriber'
  BY <1>7 DEF SendAnswer
<1>8. ASSUME NEW c \in Conns, FanOutExistingTo(c) PROVE NoStraySubscriber'
  BY <1>8 DEF FanOutExistingTo, PubOf
<1>9. ASSUME NEW c \in Conns, RemoveParticipant(c) PROVE NoStraySubscriber'
  BY <1>9 DEF RemoveParticipant, Reading, LeavePub, LeaveStale, PubOf, Own,
     SubAt
<1>10. ASSUME NEW t \in Threads, NEW c \in Conns, NEW p \in Pubs, SkipOffer(t,
              c, p)
      PROVE  NoStraySubscriber'
  BY <1>10 DEF SkipOffer, SubAt
<1>11. ASSUME NEW t \in Threads, NEW c \in Conns, NEW p \in Pubs,
              CreateSubscriberFails(t, c, p)
      PROVE  NoStraySubscriber'
  BY <1>11 DEF CreateSubscriberFails
<1>12. ASSUME NEW t \in Threads, NEW c \in Conns, NEW p \in Pubs, NEW x \in
              Subs, RegisterSubscriber(t, c, p, x)
      PROVE  NoStraySubscriber'
  <2>1. /\ subscribers' = [subscribers EXCEPT ![c][PubUser(p)] = x]
        /\ subscribers[c][PubUser(p)] = None
        /\ subPc' = [subPc EXCEPT ![x] = "open"] /\ UNCHANGED doomed
    BY <1>12 DEF RegisterSubscriber, NewSubscriber
  <2>2. PubUser(p) \in Users
    BY <1>12 DEF RegisterSubscriber, NewSubscriber, TodoInv, PubInv, MadeOnce,
       PubUser
  <2>3. ASSUME NEW y \in Subs, subPc'[y] = "open"
        PROVE  \/ \E d \in Conns, u \in Users : y = subscribers'[d][u]
               \/ y \in doomed'
    <3>1. CASE y = x
      BY <2>1, <2>2, <3>1
    <3>2. CASE y # x
      <4>1. CASE y \in doomed
        BY <2>1, <4>1
      <4>2. CASE y \notin doomed
        <5>1. PICK d \in Conns, u \in Users : y = subscribers[d][u]
          BY <2>1, <2>3, <3>2, <4>2
        <5>2. subscribers'[d][u] = y
          BY <2>1, <2>3, <5>1
        <5> QED
          BY <5>2
      <4> QED
        BY <4>1, <4>2
    <3> QED
      BY <3>1, <3>2
  <2> QED
    BY <2>3
<1>13. ASSUME NEW t \in Threads, SendOffer(t) PROVE NoStraySubscriber'
  BY <1>13 DEF SendOffer
<1>14. ASSUME NEW t \in Threads, SendOfferFails(t) PROVE NoStraySubscriber'
  <2>1. to[current[t]] \in Conns /\ PubUser(of[current[t]]) \in Users
    BY <1>14 DEF SendOfferFails, PubUser
  <2>2. RemoveSubscriber(to[current[t]], PubUser(of[current[t]]))
        /\ UNCHANGED subPc
    BY <1>14 DEF SendOfferFails
  <2> QED
    BY <2>1, <2>2, RemoveSubscriberStray
<1>15. ASSUME NEW p \in Pubs, OnPublisherTrack(p) PROVE NoStraySubscriber'
  BY <1>15 DEF OnPublisherTrack
<1>16. ASSUME NEW p \in Pubs, ClosePublisher(p) PROVE NoStraySubscriber'
  BY <1>16 DEF ClosePublisher
<1>17. ASSUME NEW x \in Subs, SubscriberDisconnects(x) PROVE NoStraySubscriber'
  BY <1>17 DEF SubscriberDisconnects
<1>18. ASSUME NEW x \in Subs, OnSubscriberStateChange(x)
      PROVE  NoStraySubscriber'
  <2>1. to[x] \in Conns /\ PubUser(of[x]) \in Users
    BY <1>18 DEF OnSubscriberStateChange, PubUser
  <2>2. RemoveSubscriber(to[x], PubUser(of[x])) /\ UNCHANGED subPc
    BY <1>18 DEF OnSubscriberStateChange
  <2> QED
    BY <2>1, <2>2, RemoveSubscriberStray
<1>19. ASSUME NEW x \in Subs, CloseSubscriber(x) PROVE NoStraySubscriber'
  BY <1>19 DEF CloseSubscriber
<1>20. CASE Close
  BY <1>20 DEF Close, Registered, Publishing, Own, SubAt, PubOf
<1>21. CASE UNCHANGED vars
  BY <1>21 DEF vars
<1> QED
  BY <1>1, <1>2, <1>3, <1>4, <1>5, <1>6, <1>7, <1>8, <1>9, <1>10, <1>11, <1>12,
     <1>13, <1>14, <1>15, <1>16, <1>17, <1>18, <1>19, <1>20, <1>21 DEF Next,
     HandleOffer, SendOfferTo, Pion

\* Whoever takes a pub out of the map closes it.
LEMMA StrayPublisherStep ==
  TypeOK /\ PubInv /\ NoStrayPublisher /\ [Next]_vars => NoStrayPublisher'
<1> SUFFICES ASSUME TypeOK, PubInv, NoStrayPublisher, [Next]_vars
             PROVE  NoStrayPublisher'
  OBVIOUS
<1> USE VoiceSFUAssumption DEF VoiceSFUAssumption, TypeOK, PubInv, SettingUp,
   PublisherOf, MadeOnce, NoStrayPublisher, PubOpen, PubUser, sfuVars, pubVars,
   subVars, threadVars, history, Threads
<1>1. ASSUME NEW c \in Conns, RegisterParticipant(c) PROVE NoStrayPublisher'
  BY <1>1 DEF RegisterParticipant, Reading
<1>2. ASSUME NEW c \in Conns, OfferClosed(c) PROVE NoStrayPublisher'
  BY <1>2 DEF OfferClosed
<1>3. ASSUME NEW c \in Conns, OfferKnownUser(c) PROVE NoStrayPublisher'
  BY <1>3 DEF OfferKnownUser
<1>4. ASSUME NEW c \in Conns, NEW p \in Pubs, OfferNewPublisher(c, p)
      PROVE  NoStrayPublisher'
  BY <1>4 DEF OfferNewPublisher
<1>5. ASSUME NEW c \in Conns, CreatePublisherPc(c) PROVE NoStrayPublisher'
  BY <1>5 DEF CreatePublisherPc
<1>6. ASSUME NEW c \in Conns, HandleOfferFails(c) PROVE NoStrayPublisher'
  BY <1>6 DEF HandleOfferFails, Publishing, PubOf
<1>7. ASSUME NEW c \in Conns, SendAnswer(c) PROVE NoStrayPublisher'
  BY <1>7 DEF SendAnswer
<1>8. ASSUME NEW c \in Conns, FanOutExistingTo(c) PROVE NoStrayPublisher'
  BY <1>8 DEF FanOutExistingTo, PubOf
<1>9. ASSUME NEW c \in Conns, RemoveParticipant(c) PROVE NoStrayPublisher'
  BY <1>9 DEF RemoveParticipant, Reading, LeavePub, LeaveStale, PubOf, Own,
     SubAt
<1>10. ASSUME NEW t \in Threads, NEW c \in Conns, NEW p \in Pubs, SkipOffer(t,
              c, p)
      PROVE  NoStrayPublisher'
  BY <1>10 DEF SkipOffer, SubAt
<1>11. ASSUME NEW t \in Threads, NEW c \in Conns, NEW p \in Pubs,
              CreateSubscriberFails(t, c, p)
      PROVE  NoStrayPublisher'
  BY <1>11 DEF CreateSubscriberFails
<1>12. ASSUME NEW t \in Threads, NEW c \in Conns, NEW p \in Pubs, NEW x \in
              Subs, RegisterSubscriber(t, c, p, x)
      PROVE  NoStrayPublisher'
  BY <1>12 DEF RegisterSubscriber, NewSubscriber
<1>13. ASSUME NEW t \in Threads, SendOffer(t) PROVE NoStrayPublisher'
  BY <1>13 DEF SendOffer
<1>14. ASSUME NEW t \in Threads, SendOfferFails(t) PROVE NoStrayPublisher'
  BY <1>14 DEF SendOfferFails, RemoveSubscriber
<1>15. ASSUME NEW p \in Pubs, OnPublisherTrack(p) PROVE NoStrayPublisher'
  BY <1>15 DEF OnPublisherTrack
<1>16. ASSUME NEW p \in Pubs, ClosePublisher(p) PROVE NoStrayPublisher'
  BY <1>16 DEF ClosePublisher
<1>17. ASSUME NEW x \in Subs, SubscriberDisconnects(x) PROVE NoStrayPublisher'
  BY <1>17 DEF SubscriberDisconnects
<1>18. ASSUME NEW x \in Subs, OnSubscriberStateChange(x)
      PROVE  NoStrayPublisher'
  BY <1>18 DEF OnSubscriberStateChange, RemoveSubscriber
<1>19. ASSUME NEW x \in Subs, CloseSubscriber(x) PROVE NoStrayPublisher'
  BY <1>19 DEF CloseSubscriber
<1>20. CASE Close
  BY <1>20 DEF Close, Registered, Publishing, Own, SubAt, PubOf
<1>21. CASE UNCHANGED vars
  BY <1>21 DEF vars
<1> QED
  BY <1>1, <1>2, <1>3, <1>4, <1>5, <1>6, <1>7, <1>8, <1>9, <1>10, <1>11, <1>12,
     <1>13, <1>14, <1>15, <1>16, <1>17, <1>18, <1>19, <1>20, <1>21 DEF Next,
     HandleOffer, SendOfferTo, Pion

\* Whichever comes second sees the other's state.
LEMMA HeardStep ==
  TypeOK /\ PubInv /\ SubInv /\ TodoInv /\ ClosedInv /\ HeardInv /\ [Next]_vars
     =>
    HeardInv'
<1> SUFFICES ASSUME TypeOK, PubInv, SubInv, TodoInv, ClosedInv, HeardInv,
                    [Next]_vars
             PROVE  HeardInv'
  OBVIOUS
<1> USE DEF TypeOK, Heard, Receives, Apart, OfferUnderWay, PubUser, sfuVars,
   pubVars, subVars, threadVars, history, Threads
<1> SUFFICES ASSUME NEW d \in Conns, NEW q \in Pubs PROVE Heard(d, q)'
  BY DEF HeardInv
<1>a. Heard(d, q)
  BY DEF HeardInv
<1>b. q \in local => PubUser(q) \in Users /\ owner[q] \in Conns /\ owner[q] # None
  BY VoiceSFUAssumption DEF VoiceSFUAssumption, PubInv, MadeOnce
<1>c. q # None
  BY VoiceSFUAssumption DEF VoiceSFUAssumption
<1>1. ASSUME NEW c \in Conns, RegisterParticipant(c) PROVE Heard(d, q)'
  BY <1>1, <1>a DEF RegisterParticipant, Reading
<1>2. ASSUME NEW c \in Conns, OfferClosed(c) PROVE Heard(d, q)'
  BY <1>2, <1>a DEF OfferClosed, ClosedInv
<1>3. ASSUME NEW c \in Conns, OfferKnownUser(c) PROVE Heard(d, q)'
  BY <1>3, <1>a DEF OfferKnownUser
<1>4. ASSUME NEW c \in Conns, NEW p \in Pubs, OfferNewPublisher(c, p)
      PROVE  Heard(d, q)'
  <2>1. p \notin local
    BY <1>4 DEF OfferNewPublisher, PubInv, MadeOnce
  <2>2. CASE q = p
    BY <1>4, <2>1, <2>2 DEF OfferNewPublisher
  <2>3. CASE q # p
    BY <1>4, <1>a, <1>b, <2>3 DEF OfferNewPublisher
  <2> QED
    BY <2>2, <2>3
<1>5. ASSUME NEW c \in Conns, CreatePublisherPc(c) PROVE Heard(d, q)'
  BY <1>5, <1>a DEF CreatePublisherPc
<1>6. ASSUME NEW c \in Conns, HandleOfferFails(c) PROVE Heard(d, q)'
  <2>1. /\ lost' = lost \cup ({c} \X (local \cap Publishing))
        /\ UNCHANGED <<participants, subscribers, owner, local, of, todo, masked>>
        /\ \A e \in Conns \ {c} : handler'[e] = handler[e]
    BY <1>6 DEF HandleOfferFails
  <2>2. q \in local /\ publishers'[PubUser(q)] = q => publishers[PubUser(q)] = q
    BY <1>6, <1>b, <1>c DEF HandleOfferFails
  <2>3. CASE d = c
    <3>1. Apart(d, q)' => q \in Publishing
      BY <1>b, <1>c, <2>1, <2>2 DEF Publishing, PubOf
    <3> QED
      BY <2>1, <2>3, <3>1
  <2>4. CASE d # c
    BY <1>a, <2>1, <2>2, <2>4
  <2> QED
    BY <2>3, <2>4
<1>7. ASSUME NEW c \in Conns, SendAnswer(c) PROVE Heard(d, q)'
  BY <1>7, <1>a DEF SendAnswer
<1>8. ASSUME NEW c \in Conns, FanOutExistingTo(c) PROVE Heard(d, q)'
  <2>1. CASE d = c
    <3>1. Apart(d, q)' =>
            q \in local \cap UNION {PubOf(u) : u \in Users \ {User[c]}}
      BY <1>8, <1>b, <1>c, <2>1 DEF FanOutExistingTo, PubOf
    <3>2. Apart(d, q)' => <<d, q>> \in todo'[c]
      BY <1>8, <2>1, <3>1 DEF FanOutExistingTo
    <3> QED
      BY <3>2
  <2>2. CASE d # c
    <3>1. todo[c] = {}
      BY <1>8 DEF FanOutExistingTo, TodoInv
    <3> QED
      BY <1>8, <1>a, <2>2, <3>1 DEF FanOutExistingTo
  <2> QED
    BY <2>1, <2>2
<1>9. ASSUME NEW c \in Conns, RemoveParticipant(c) PROVE Heard(d, q)'
  <2>1. CASE d = c \/ ~Apart(d, q)'
    BY <1>9, <2>1 DEF RemoveParticipant
  <2>2. CASE d # c /\ Apart(d, q)'
    <3>1. /\ d \in participants /\ publishers[PubUser(q)] = q
          /\ ~(c \in participants /\ PubUser(q) = User[c])
      BY <1>9, <1>b, <1>c, <2>2 DEF RemoveParticipant
    <3>2. q \notin LeavePub(c)
      <4>1. PublisherOf(User[c])
        BY VoiceSFUAssumption DEF VoiceSFUAssumption, PubInv
      <4> QED
        BY <3>1, <4>1 DEF LeavePub, PubOf, PublisherOf
    <3>3. /\ <<d, q>> \in lost' <=> <<d, q>> \in lost
          /\ <<d, q>> \in masked' <=> <<d, q>> \in masked
      BY <1>9, <2>2, <3>2 DEF RemoveParticipant
    <3>4. subscribers'[d][PubUser(q)] = subscribers[d][PubUser(q)]
      BY <1>9, <1>b, <2>2, <3>1 DEF RemoveParticipant
    <3> QED
      BY <1>9, <1>a, <1>b, <2>2, <3>1, <3>3, <3>4 DEF RemoveParticipant
  <2> QED
    BY <2>1, <2>2
<1>10. ASSUME NEW t \in Threads, NEW c \in Conns, NEW p \in Pubs, SkipOffer(t,
              c, p)
      PROVE  Heard(d, q)'
  <2>1. CASE d = c /\ q = p
    BY <1>10, <1>b, <2>1 DEF SkipOffer, SubAt, ClosedInv
  <2>2. CASE <<d, q>> # <<c, p>>
    <3>1. \A s \in Threads : <<d, q>> \in todo[s] => <<d, q>> \in todo'[s]
      BY <1>10, <2>2 DEF SkipOffer
    <3>2. /\ UNCHANGED <<sfuVars, pubVars, subVars, handler, lost>>
          /\ masked \subseteq masked'
      BY <1>10 DEF SkipOffer
    <3> QED
      BY <1>a, <3>1, <3>2
  <2> QED
    BY <2>1, <2>2
<1>11. ASSUME NEW t \in Threads, NEW c \in Conns, NEW p \in Pubs,
              CreateSubscriberFails(t, c, p)
      PROVE  Heard(d, q)'
  BY <1>11, <1>a DEF CreateSubscriberFails
<1>12. ASSUME NEW t \in Threads, NEW c \in Conns, NEW p \in Pubs, NEW x \in
              Subs, RegisterSubscriber(t, c, p, x)
      PROVE  Heard(d, q)'
  <2>1. /\ subscribers' = [subscribers EXCEPT ![c][PubUser(p)] = x]
        /\ of' = [of EXCEPT ![x] = p] /\ subPc[x] = "nil"
        /\ subscribers[c][PubUser(p)] = None
        /\ UNCHANGED <<participants, publishers, pubVars, handler, history>>
    BY <1>12 DEF RegisterSubscriber, NewSubscriber
  <2>2. CASE d = c /\ q = p
    <3>1. q \in local => Receives(d, q)'
      BY <1>b, <2>1, <2>2, VoiceSFUAssumption DEF VoiceSFUAssumption
    <3> QED
      BY <2>1, <3>1
  <2>3. CASE <<d, q>> # <<c, p>>
    <3>1. \A s \in Threads : <<d, q>> \in todo[s] => <<d, q>> \in todo'[s]
      BY <1>12, <2>3 DEF RegisterSubscriber, NewSubscriber
    <3>2. ASSUME q \in local, Receives(d, q) PROVE Receives(d, q)'
      <4> DEFINE y == subscribers[d][PubUser(q)]
      <4>1. y # None /\ of[y] = q /\ y # x
        BY <1>b, <2>1, <3>2 DEF SubInv, RegisteredAt
      <4>2. subscribers'[d][PubUser(q)] = y
        BY <1>b, <2>1, <3>2, <4>1
      <4>3. of'[y] = of[y]
        BY <2>1, <4>1
      <4> QED
        BY <2>1, <4>1, <4>2, <4>3
    <3> QED
      BY <1>a, <2>1, <3>1, <3>2
  <2> QED
    BY <2>2, <2>3
<1>13. ASSUME NEW t \in Threads, SendOffer(t) PROVE Heard(d, q)'
  BY <1>13, <1>a DEF SendOffer
<1>14. ASSUME NEW t \in Threads, SendOfferFails(t) PROVE Heard(d, q)'
  <2>1. PICK c \in Conns, u \in Users : RemoveSubscriber(c, u)
    BY <1>14, VoiceSFUAssumption
       DEF SendOfferFails, SubInv, Carries, VoiceSFUAssumption
  <2>2. UNCHANGED <<participants, publishers, pubVars, of, handler, todo, masked>>
    BY <1>14 DEF SendOfferFails
  <2> HIDE DEF Heard, Apart, OfferUnderWay, Receives, PubUser
  <2> QED
    BY <1>a, <1>b, <2>1, <2>2, RemoveSubscriberHeard
<1>15. ASSUME NEW p \in Pubs, OnPublisherTrack(p) PROVE Heard(d, q)'
  <2>1. CASE q = p
    BY <1>15, <2>1 DEF OnPublisherTrack
  <2>2. CASE q # p
    <3>1. todo[p] = {}
      BY <1>15 DEF OnPublisherTrack, TodoInv
    <3> QED
      BY <1>15, <1>a, <2>2, <3>1 DEF OnPublisherTrack
  <2> QED
    BY <2>1, <2>2
<1>16. ASSUME NEW p \in Pubs, ClosePublisher(p) PROVE Heard(d, q)'
  BY <1>16, <1>a DEF ClosePublisher
<1>17. ASSUME NEW x \in Subs, SubscriberDisconnects(x) PROVE Heard(d, q)'
  BY <1>17, <1>a DEF SubscriberDisconnects
<1>18. ASSUME NEW x \in Subs, OnSubscriberStateChange(x) PROVE Heard(d, q)'
  <2>1. PICK c \in Conns, u \in Users : RemoveSubscriber(c, u)
    BY <1>18, VoiceSFUAssumption
       DEF OnSubscriberStateChange, SubInv, Carries, VoiceSFUAssumption
  <2>2. UNCHANGED <<participants, publishers, pubVars, of, handler, todo, masked>>
    BY <1>18 DEF OnSubscriberStateChange
  <2> HIDE DEF Heard, Apart, OfferUnderWay, Receives, PubUser
  <2> QED
    BY <1>a, <1>b, <2>1, <2>2, RemoveSubscriberHeard
<1>19. ASSUME NEW x \in Subs, CloseSubscriber(x) PROVE Heard(d, q)'
  BY <1>19, <1>a DEF CloseSubscriber
<1>20. CASE Close
  BY <1>20, <1>a DEF Close, Registered, Publishing, Own, SubAt, PubOf
<1>21. CASE UNCHANGED vars
  BY <1>21, <1>a DEF vars
<1> QED
  BY <1>1, <1>2, <1>3, <1>4, <1>5, <1>6, <1>7, <1>8, <1>9, <1>10, <1>11, <1>12,
     <1>13, <1>14, <1>15, <1>16, <1>17, <1>18, <1>19, <1>20, <1>21 DEF Next,
     HandleOffer, SendOfferTo, Pion

-----------------------------------------------------------------------------
(* Theorems                                                                *)

\* IInv holds always.
THEOREM Invariance == Spec => []IInv
<1>1. Init => IInv
  BY InitIInv
<1>2. IInv /\ [Next]_vars => IInv'
  BY TypeStep, PubStep, SubStep, TodoStep, ClosedStep, StraySubscriberStep,
     StrayPublisherStep, HeardStep DEF IInv
<1> QED
  BY <1>1, <1>2, PTL DEF Spec

\* The types hold.
THEOREM TypeCorrect == Spec => []TypeOK
<1>1. IInv => TypeOK
  BY DEF IInv
<1> QED
  BY <1>1, Invariance, PTL

\* However offers, callbacks, departures and Close interleave, an open downstream
\* PeerConnection is in the map or about to be closed: every removal closes what
\* it takes out, and sendOfferTo's second test lets nothing be overwritten.
THEOREM SubscribersReachable == Spec => []NoStraySubscriber
<1>1. IInv => NoStraySubscriber
  BY DEF IInv
<1> QED
  BY <1>1, Invariance, PTL

\* So is an open upstream one, but for the pubs that were closed before they had
\* a PeerConnection: HandleOffer reserves the user id, and a reservation is given
\* up only by somebody who closes the pub.
THEOREM PublishersReachable == Spec => []NoStrayPublisher
<1>1. IInv => NoStrayPublisher
  BY DEF IInv
<1> QED
  BY <1>1, Invariance, PTL

\* Nothing is registered in a closed SFU, by whatever was under way.
THEOREM ClosedIsEmpty == Spec => []NobodyHeardAfterClose
<1>1. IInv => NobodyHeardAfterClose
  BY DEF IInv, ClosedInv, NobodyHeardAfterClose, Registered, Own, SubAt
<1> QED
  BY <1>1, Invariance, PTL

\* No user hears itself, on whichever device: both fan-outs leave out the user id,
\* and a sub never changes hands.
THEOREM NoUserHearsItself == Spec => []NoEcho
<1>1. IInv => NoEcho
  BY DEF IInv, SubInv, Carries, NoEcho
<1> QED
  BY <1>1, Invariance, PTL

\* Every participant is offered every other user's track or is about to be: of
\* registration and OnTrack, each of which is one critical section, the second
\* finds the first.
THEOREM EverybodyHeard == Spec => []NobodyMissed
<1>1. IInv => NobodyMissed
  <2> SUFFICES ASSUME IInv, NEW c \in Conns, NEW p \in Pubs,
                      Apart(c, p), <<c, p>> \notin masked
               PROVE  OfferUnderWay(c, p) \/ \E x \in Own(c) : of[x] = p
    BY DEF NobodyMissed
  <2>1. OfferUnderWay(c, p) \/ Receives(c, p)
    BY DEF IInv, HeardInv, Heard
  <2>2. PubUser(p) \in Users
    BY VoiceSFUAssumption
       DEF VoiceSFUAssumption, IInv, TypeOK, PubInv, MadeOnce, PubUser, Apart
  <2>3. ASSUME Receives(c, p) PROVE \E x \in Own(c) : of[x] = p
    <3>1. subscribers[c][PubUser(p)] \in Own(c)
      BY <2>2, <2>3 DEF Receives, Own, SubAt
    <3> QED
      BY <2>3, <3>1 DEF Receives
  <2> QED
    BY <2>1, <2>3
<1> QED
  BY <1>1, Invariance, PTL
=============================================================================
