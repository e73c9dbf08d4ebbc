--------------------------- MODULE AudioRoomProofs ----------------------------
(***************************************************************************)
(* Proofs about AudioRoom, for any number of clients, shares and streams   *)
(* of any length: the unlocked init writes are undisturbed, the cache      *)
(* belongs to who is there, shares are announced, and streams can be       *)
(* decoded.                                                                *)
(***************************************************************************)
EXTENDS AudioRoom, TLAPS

Broadcasting(s) == handler[s] \in {"broadcasting", "writing"}

\* Before it registers and after it has left, a client is in none of the room's
\* maps and nobody is about to write to it.
AloneOf(c) ==
  /\ handler[c] \in {"out", "joining"} =>
       /\ \A s \in Clients : todo[s][c] = {}
       /\ \A p \in Publishers : c \notin targets[p]
  /\ handler[c] \in {"out", "joining", "gone"} => c \notin clients
  /\ handler[c] \in {"out", "joining", "registered", "gone"} =>
       cached[c] = 0 /\ relay[c] = "nil"

AloneInv == \A c \in Clients : AloneOf(c)

\* A client that is taken out of the room is broken.
MemberOf(c) ==
  c \notin broken =>
    /\ handler[c] # "gone"
    /\ handler[c] \notin {"out", "joining"} => c \in clients

\* A client that has looked for shares shows p, has noted p, or is about to be
\* told of it.
BadgeOf(p, c) ==
  c \in clients \ broken /\ c # Owner[p] /\ handler[c] # "registered" =>
    /\ pub[p] = "announcing" => p \in badge[c] \cup notify[c] \/ c \in targets[p]
    /\ pub[p] = "sharing" => p \in badge[c] \cup notify[c]

BadgeInv == \A p \in Publishers, c \in Clients : BadgeOf(p, c)

\* The room knows a share until it is stopped.
SharingInv ==
  \A p \in Publishers :
    pub[p] \in {"started", "announcing", "sharing"} => p \in sharing

\* The relay of a sender that has not been dropped is its only one: it is ready
\* as soon as a unit has been relayed, and what is cached begins with the first.
RelayOf(s) ==
  /\ cached[s] <= produced[s]
  /\ Broadcasting(s) => relay[s] # "pending"
  /\ s \notin dropped /\ handler[s] # "gone" =>
       /\ relay[s] = "ready" => cached[s] = 1
       /\ relay[s] # "ready" => produced[s] = 0 /\ cached[s] = 0

\* What Broadcast has still to write to c are the last units of s.
TailOf(c, s) ==
  /\ todo[s][s] = {}
  /\ ~Broadcasting(s) => todo[s][c] = {}
  /\ todo[s][c] # {} => \E k \in 1 .. produced[s] : todo[s][c] = k .. produced[s]

\* Nothing comes from the cache but the first unit, and nothing from elsewhere
\* before the client has registered.
CacheOf(c, s) ==
  /\ inits[c][s] <= produced[s] /\ last[c][s] <= produced[s]
  /\ handler[c] \in {"out", "joining"} /\ last[c][s] > 0 => <<c, s>> \in fresh
  /\ s \notin dropped =>
       /\ inits[c][s] \in {0, 1}
       /\ <<c, s>> \in fresh => last[c][s] = 1

\* A client that has nothing of s yet has the init in hand or will be written
\* the first unit; and behind what it was broadcast last comes the next.
StreamOf(c, s) ==
  c # s /\ c \notin broken /\ s \notin dropped /\ <<c, s>> \notin missed =>
    /\ last[c][s] = 0 /\ produced[s] > 0 /\ handler[s] # "gone" =>
         /\ handler[c] = "joining" => inits[c][s] # 0
         /\ handler[c] \notin {"out", "joining", "gone"} => 1 \in todo[s][c]
    /\ last[c][s] > 0 /\ <<c, s>> \notin fresh =>
         todo[s][c] = last[c][s] + 1 .. produced[s]

StreamInv ==
  /\ \A c \in Clients : MemberOf(c) /\ RelayOf(c)
  /\ \A c, s \in Clients : TailOf(c, s) /\ CacheOf(c, s) /\ StreamOf(c, s)

IInv == TypeOK /\ AloneInv /\ SharingInv /\ BadgeInv /\ StreamInv

-----------------------------------------------------------------------------
\* The units still to be written begin with the least one.
LEMMA MinOfInterval ==
  ASSUME NEW n \in Nat, NEW k \in 1 .. n
  PROVE  Min(k .. n) = k /\ (k .. n) \ {k} = k + 1 .. n
<1>1. k \in k .. n /\ \A y \in k .. n : k <= y
  OBVIOUS
<1>2. \A x \in k .. n : (\A y \in k .. n : x <= y) => x = k
  BY <1>1
<1>3. Min(k .. n) = k
  BY <1>1, <1>2 DEF Min
<1> QED
  BY <1>3

\* WriteUnit writes the first of them and leaves the others.
LEMMA WriteUnitWritesNext ==
  ASSUME TypeOK, StreamInv, NEW s \in Clients, NEW c \in Clients, WriteUnit(s, c)
  PROVE  \E k \in 1 .. produced[s] :
           /\ todo[s][c] = k .. produced[s]
           /\ todo' = [todo EXCEPT ![s][c] = k + 1 .. produced[s]]
           /\ Receive(c, s, k, FALSE)
<1>1. PICK k \in 1 .. produced[s] : todo[s][c] = k .. produced[s]
  BY DEF WriteUnit, StreamInv, TailOf
<1>2. produced[s] \in Nat
  BY DEF TypeOK
<1>3. Min(todo[s][c]) = k /\ todo[s][c] \ {k} = k + 1 .. produced[s]
  BY <1>1, <1>2, MinOfInterval
<1>4. todo' = [todo EXCEPT ![s][c] = todo[s][c] \ {k}] /\ Receive(c, s, k, FALSE)
  BY <1>3 DEF WriteUnit
<1> QED
  BY <1>1, <1>3, <1>4

\* DeleteClient counts no unit off, and none on but the init that was pending.
LEMMA DeleteClientFacts ==
  ASSUME TypeOK, NEW c \in Clients, DeleteClient(c)
  PROVE  /\ clients' = clients \ {c}
         /\ cached' = [cached EXCEPT ![c] = 0]
         /\ relay' = [relay EXCEPT ![c] = "nil"]
         /\ produced' \in [Clients -> Nat]
         /\ \A s \in Clients :
              /\ produced[s] <= produced'[s]
              /\ s # c \/ relay[s] # "pending" => produced'[s] = produced[s]
<1>1. produced[c] \in Nat
  BY DEF TypeOK
<1> DEFINE m == Max({produced[c], 1})
<1>2. m \in Nat /\ produced[c] <= m
  <2>1. \E x \in {produced[c], 1} : \A y \in {produced[c], 1} : x >= y
    BY <1>1
  <2>2. m \in {produced[c], 1} /\ \A y \in {produced[c], 1} : m >= y
    BY <2>1 DEF Max
  <2> QED
    BY <1>1, <2>2
<1>3. produced' = [produced EXCEPT ![c] = IF relay[c] = "pending" THEN m
                                                                 ELSE produced[c]]
  BY DEF DeleteClient
<1> HIDE DEF m
<1>4. produced' \in [Clients -> Nat]
  BY <1>1, <1>2, <1>3 DEF TypeOK
<1>5. ASSUME NEW s \in Clients
      PROVE  /\ produced[s] <= produced'[s]
             /\ s # c \/ relay[s] # "pending" => produced'[s] = produced[s]
  <2>1. produced[s] \in Nat
    BY DEF TypeOK
  <2> QED
    BY <1>2, <1>3, <2>1 DEF TypeOK
<1> QED
  BY <1>4, <1>5 DEF DeleteClient

\* Counters are numbers.
LEMMA Counts ==
  ASSUME TypeOK, NEW c \in Clients, NEW s \in Clients
  PROVE  /\ inits[c][s] \in Nat /\ last[c][s] \in Nat
         /\ produced[s] \in Nat /\ cached[s] \in Nat
         /\ inits[c] \in [Clients -> Nat] /\ last[c] \in [Clients -> Nat]
         /\ todo[s] \in [Clients -> SUBSET Nat]
BY DEF TypeOK

\* What Receive changes, if anything, is what c has of s.
LEMMA ReceiveFacts ==
  ASSUME TypeOK, NEW c \in Clients, NEW s \in Clients, NEW u \in Nat,
         NEW b, Receive(c, s, u, b)
  PROVE  /\ last' \in [Clients -> [Clients -> Nat]]
         /\ fresh' \subseteq Clients \X Clients
         /\ c \in broken => UNCHANGED inbox
         /\ c \notin broken => last'[c][s] = u
         /\ \A d, r \in Clients : <<d, r>> # <<c, s>> =>
              last'[d][r] = last[d][r] /\ (<<d, r>> \in fresh' <=> <<d, r>> \in fresh)
<1>1. CASE c \in broken
  BY <1>1 DEF Receive, inbox, TypeOK
<1>2. CASE c \notin broken
  <2>1. last' = [last EXCEPT ![c] = [last[c] EXCEPT ![s] = u]]
    BY <1>2 DEF Receive
  <2>2. fresh' \in {fresh \cup {<<c, s>>}, fresh \ {<<c, s>>}}
    BY <1>2 DEF Receive
  <2>3. last[c] \in [Clients -> Nat]
    BY DEF TypeOK
  <2>4. last' \in [Clients -> [Clients -> Nat]]
    BY <2>1, <2>3 DEF TypeOK
  <2>5. last'[c][s] = u
    BY <2>1, <2>3 DEF TypeOK
  <2>6. \A d, r \in Clients : <<d, r>> # <<c, s>> =>
          last'[d][r] = last[d][r] /\ (<<d, r>> \in fresh' <=> <<d, r>> \in fresh)
    BY <2>1, <2>2, <2>3 DEF TypeOK
  <2>7. fresh' \subseteq Clients \X Clients
    BY <2>2 DEF TypeOK
  <2> QED
    BY <1>2, <2>4, <2>5, <2>6, <2>7
<1> QED
  BY <1>1, <1>2

\* A connection that takes frames has what it is sent.
LEMMA ReceiveGives ==
  ASSUME TypeOK, NEW c \in Clients, NEW s \in Clients, NEW u, NEW b,
         Receive(c, s, u, b), c \notin broken
  PROVE  last'[c][s] = u
<1>1. last' = [last EXCEPT ![c] = [last[c] EXCEPT ![s] = u]]
  BY DEF Receive
<1>2. last[c] \in [Clients -> Nat]
  BY DEF TypeOK
<1> QED
  BY <1>1, <1>2 DEF TypeOK

\* Nobody else receives anything.
LEMMA ReceiveElsewhere ==
  ASSUME TypeOK, NEW c \in Clients, NEW s \in Clients, NEW u, NEW b,
         Receive(c, s, u, b), c \notin broken
  PROVE  \A d, r \in Clients : last'[d][r] # last[d][r] => d = c /\ r = s
<1>1. last' = [last EXCEPT ![c] = [last[c] EXCEPT ![s] = u]]
  BY DEF Receive
<1>2. last[c] \in [Clients -> Nat]
  BY DEF TypeOK
<1> QED
  BY <1>1, <1>2 DEF TypeOK

\* What Broadcast does, one client at a time.
LEMMA BroadcastFacts ==
  ASSUME TypeOK, NEW s \in Clients, NEW n \in 0 .. MaxUnits[s], Broadcast(s, n)
  PROVE  /\ n \in Nat /\ produced[s] \in Nat
         /\ handler[s] = "reading" /\ notify[s] = {}
         /\ produced'[s] = produced[s] + n
         /\ \A d \in Clients : todo'[s][d] =
              IF d \in clients \ {s}
              THEN produced[s] + 1 .. produced[s] + n ELSE {}
         /\ handler'[s] = IF n = 0 THEN "reading" ELSE "broadcasting"
         /\ relay'[s] = IF relay[s] # "ready" /\ n > 0 THEN "ready"
                        ELSE IF relay[s] = "nil" THEN "pending" ELSE relay[s]
         /\ cached'[s] = IF relay[s] # "ready" /\ n > 0
                         THEN produced[s] + 1 ELSE cached[s]
         /\ missed \subseteq missed'
         /\ \A d \in Clients :
              relay[s] # "ready" /\ n > 0 /\ handler[d] = "joining" =>
                <<d, s>> \in missed'
         /\ \A d \in Clients \ {s} :
              UNCHANGED <<produced[d], todo[d], handler[d], relay[d], cached[d]>>
         /\ UNCHANGED <<clients, writer, inits, requests, shareVars, inbox, broken,
                        dropped>>
<1>1. n \in Nat /\ produced[s] \in Nat
  BY AudioRoomAssumption DEF AudioRoomAssumption, TypeOK
<1>2. produced[s] + n - n + 1 = produced[s] + 1
  BY <1>1
<1>3. /\ relay'[s] = IF relay[s] # "ready" /\ n > 0 THEN "ready"
                     ELSE IF relay[s] = "nil" THEN "pending" ELSE relay[s]
      /\ \A d \in Clients \ {s} : UNCHANGED relay[d]
  BY DEF Broadcast, TypeOK
<1>4. /\ cached'[s] = IF relay[s] # "ready" /\ n > 0
                      THEN produced[s] + 1 ELSE cached[s]
      /\ \A d \in Clients \ {s} : UNCHANGED cached[d]
  BY <1>2 DEF Broadcast, TypeOK
<1>5. /\ missed \subseteq missed'
      /\ \A d \in Clients :
           relay[s] # "ready" /\ n > 0 /\ handler[d] = "joining" =>
             <<d, s>> \in missed'
  BY DEF Broadcast
<1>6. /\ produced'[s] = produced[s] + n
      /\ \A d \in Clients \ {s} : UNCHANGED produced[d]
  BY DEF Broadcast, TypeOK
<1>7. /\ handler[s] = "reading" /\ notify[s] = {}
      /\ handler'[s] = IF n = 0 THEN "reading" ELSE "broadcasting"
      /\ \A d \in Clients \ {s} : UNCHANGED handler[d]
  BY DEF Broadcast, Reading, Goto, TypeOK
<1>8. todo' = [todo EXCEPT ![s] = [c \in Clients |->
                IF c \in clients \ {s}
                THEN produced[s] + 1 .. produced[s] + n ELSE {}]]
  BY DEF Broadcast
<1>9. /\ \A d \in Clients : todo'[s][d] =
           IF d \in clients \ {s}
           THEN produced[s] + 1 .. produced[s] + n ELSE {}
      /\ \A d \in Clients \ {s} : UNCHANGED todo[d]
  BY <1>8 DEF TypeOK
<1>10. UNCHANGED <<clients, writer, inits, requests, shareVars, inbox, broken,
                   dropped>>
  BY DEF Broadcast
<1> QED
  BY <1>1, <1>3, <1>4, <1>5, <1>6, <1>7, <1>9, <1>10

\* What leaves the Broadcasts alone.
LEMMA TailFrame ==
  ASSUME NEW c \in Clients, NEW s \in Clients, TailOf(c, s),
         UNCHANGED <<todo, produced>>, Broadcasting(s) => Broadcasting(s)'
  PROVE  TailOf(c, s)'
BY DEF TailOf

\* What changes nothing that concerns c and s.
LEMMA CacheFrame ==
  ASSUME TypeOK, TypeOK', NEW c \in Clients, NEW s \in Clients, CacheOf(c, s),
         inits'[c][s] \in {inits[c][s], 0},
         UNCHANGED last[c][s], produced[s] <= produced'[s],
         <<c, s>> \in fresh' <=> <<c, s>> \in fresh, dropped \subseteq dropped',
         handler'[c] \in {"out", "joining"} => handler[c] \in {"out", "joining"}
  PROVE  CacheOf(c, s)'
<1>1. /\ produced[s] \in Nat /\ produced'[s] \in Nat
      /\ inits[c][s] \in Nat /\ last[c][s] \in Nat
  BY DEF TypeOK
<1> QED
  BY <1>1 DEF CacheOf

\* What changes nothing that concerns c and s, but that one of them may leave.
LEMMA StreamFrame ==
  ASSUME NEW c \in Clients, NEW s \in Clients, StreamOf(c, s),
         broken \subseteq broken', dropped \subseteq dropped',
         missed \subseteq missed',
         UNCHANGED <<last[c][s], produced[s], todo[s][c]>>,
         <<c, s>> \in fresh' <=> <<c, s>> \in fresh,
         handler[s] = "gone" => handler'[s] = "gone",
         handler'[c] = "joining" =>
           handler[c] = "joining" /\ inits'[c][s] = inits[c][s],
         handler'[c] \notin {"out", "joining", "gone"} =>
           handler[c] \notin {"out", "joining", "gone"}
  PROVE  StreamOf(c, s)'
BY DEF StreamOf

\* Nobody is there and nothing has been sent.
LEMMA InitIInv == Init => IInv
<1> SUFFICES ASSUME Init PROVE IInv
  OBVIOUS
<1> USE AudioRoomAssumption DEF AudioRoomAssumption, Init
<1>1. TypeOK
  BY DEF TypeOK
<1>2. AloneInv
  BY DEF AloneInv, AloneOf
<1>3. SharingInv /\ BadgeInv
  BY DEF SharingInv, BadgeInv, BadgeOf
<1>4. StreamInv
  BY DEF StreamInv, MemberOf, RelayOf, TailOf, CacheOf, StreamOf, Broadcasting
<1> QED
  BY <1>1, <1>2, <1>3, <1>4 DEF IInv

\* What is cached of a sender that has not been dropped is its first unit.
LEMMA CachedIsFirst ==
  ASSUME TypeOK, AloneInv, StreamInv, NEW s \in Clients
  PROVE  cached[s] <= produced[s] /\ (s \notin dropped => cached[s] \in {0, 1})
<1>1. cached[s] <= produced[s]
  BY DEF StreamInv, RelayOf
<1>2. CASE handler[s] = "gone"
  BY <1>1, <1>2 DEF AloneInv, AloneOf
<1>3. CASE handler[s] # "gone"
  BY <1>1, <1>3 DEF StreamInv, RelayOf, TypeOK
<1> QED
  BY <1>2, <1>3

\* Broadcast begins where it has ended, for every client that is a target.
LEMMA BroadcastGoesOn ==
  ASSUME TypeOK, AloneInv, StreamInv, NEW s \in Clients,
         NEW n \in 0 .. MaxUnits[s], Broadcast(s, n), NEW c \in Clients
  PROVE  StreamOf(c, s)'
<1>1. /\ UNCHANGED <<last, fresh, inits, broken, dropped, clients>>
      /\ missed \subseteq missed' /\ handler[s] = "reading" /\ n \in Nat
      /\ produced'[s] = produced[s] + n
  BY BroadcastFacts DEF inbox
<1>2. c # s => handler'[c] = handler[c]
  BY BroadcastFacts
<1>3. todo'[s][c] = IF c \in clients \ {s}
                    THEN produced[s] + 1 .. produced[s] + n ELSE {}
  BY BroadcastFacts
<1>4. /\ produced[s] \in Nat /\ last[c][s] \in Nat /\ last[c][s] <= produced[s]
      /\ todo[s][c] = {}
  BY <1>1, Counts DEF StreamInv, CacheOf, TailOf, Broadcasting
<1> SUFFICES ASSUME c # s, c \notin broken, s \notin dropped,
                    <<c, s>> \notin missed'
             PROVE  /\ last[c][s] = 0 /\ produced'[s] > 0 =>
                         /\ handler[c] = "joining" => inits[c][s] # 0
                         /\ handler[c] \notin {"out", "joining", "gone"} =>
                              1 \in todo'[s][c]
                    /\ last[c][s] > 0 /\ <<c, s>> \notin fresh =>
                         todo'[s][c] = last[c][s] + 1 .. produced'[s]
  BY <1>1, <1>2 DEF StreamOf
<1>5. /\ last[c][s] = 0 /\ produced[s] > 0 =>
           /\ handler[c] = "joining" => inits[c][s] # 0
           /\ handler[c] \in {"out", "joining", "gone"}
      /\ last[c][s] > 0 /\ <<c, s>> \notin fresh =>
           last[c][s] + 1 .. produced[s] = {}
  BY <1>1, <1>4 DEF StreamInv, StreamOf
<1>6. handler[c] \notin {"out", "joining"} => c \in clients
  BY DEF StreamInv, MemberOf
<1>7. ASSUME last[c][s] = 0, produced'[s] > 0, handler[c] = "joining"
      PROVE  inits[c][s] # 0
  <2>1. CASE produced[s] > 0
    BY <1>5, <1>7, <2>1
  <2>2. CASE produced[s] = 0
    <3>1. n > 0
      BY <1>1, <1>7, <2>2
    <3>2. relay[s] # "ready"
      BY <1>1, <2>2, Counts DEF StreamInv, RelayOf
    <3>3. <<c, s>> \in missed'
      BY <1>7, <3>1, <3>2, BroadcastFacts
    <3> QED
      BY <3>3
  <2> QED
    BY <1>4, <2>1, <2>2
<1>8. ASSUME last[c][s] = 0, produced'[s] > 0,
             handler[c] \notin {"out", "joining", "gone"}
      PROVE  1 \in todo'[s][c]
  <2>1. produced[s] = 0
    BY <1>4, <1>5, <1>8
  <2>2. todo'[s][c] = 1 .. n /\ n > 0
    BY <1>1, <1>3, <1>6, <1>8, <2>1
  <2> QED
    BY <1>1, <2>2
<1>9. ASSUME last[c][s] > 0, <<c, s>> \notin fresh
      PROVE  todo'[s][c] = last[c][s] + 1 .. produced'[s]
  <2>1. last[c][s] = produced[s]
    <3>1. last[c][s] < produced[s] => produced[s] \in last[c][s] + 1 .. produced[s]
      BY <1>4
    <3> QED
      BY <1>4, <1>5, <1>9, <3>1
  <2>2. c \in clients
    BY <1>6, <1>9 DEF StreamInv, CacheOf
  <2> QED
    BY <1>1, <1>3, <2>1, <2>2
<1> QED
  BY <1>7, <1>8, <1>9

\* Every action keeps the types.
LEMMA TypeStep ==
  TypeOK /\ AloneInv /\ StreamInv /\ [Next]_vars => TypeOK'
<1> SUFFICES ASSUME TypeOK, AloneInv, StreamInv, [Next]_vars
             PROVE  TypeOK'
  OBVIOUS
<1> USE AudioRoomAssumption DEF AudioRoomAssumption, TypeOK, streamVars,
   loopVars, shareVars, inbox, history
<1>1. ASSUME NEW c \in Clients, SnapshotInits(c) PROVE TypeOK'
  BY <1>1 DEF SnapshotInits, Goto
<1>2. ASSUME NEW c \in Clients, NEW s \in Clients, SendInit(c, s) PROVE TypeOK'
  <2>1. Receive(c, s, inits[c][s], TRUE)
    BY <1>2 DEF SendInit
  <2>2. /\ last' \in [Clients -> [Clients -> Nat]]
        /\ fresh' \subseteq Clients \X Clients
    <3> HIDE DEF TypeOK
    <3> QED
      BY <2>1, Counts, ReceiveFacts
  <2>3. inits' \in [Clients -> [Clients -> Nat]]
    BY <1>2 DEF SendInit
  <2> QED
    BY <1>2, <2>2, <2>3 DEF SendInit
<1>3. ASSUME NEW c \in Clients, SendInitFails(c) PROVE TypeOK'
  BY <1>3 DEF SendInitFails, Goto
<1>4. ASSUME NEW c \in Clients, RegisterClient(c) PROVE TypeOK'
  BY <1>4 DEF RegisterClient, Goto
<1>5. ASSUME NEW c \in Clients, CurrentShares(c) PROVE TypeOK'
  BY <1>5 DEF CurrentShares, Goto
<1>6. ASSUME NEW c \in Clients, NEW p \in Publishers, NotifyShare(c, p)
      PROVE  TypeOK'
  BY <1>6 DEF NotifyShare
<1>7. ASSUME NEW s \in Clients, NEW n \in 0 .. MaxUnits[s], Broadcast(s, n)
      PROVE  TypeOK'
  <2> HIDE DEF TypeOK
  <2>1. produced[s] \in Nat /\ n \in Nat
    BY <1>7, BroadcastFacts
  <2>2. produced' \in [Clients -> Nat]
    <3>1. produced' = [produced EXCEPT ![s] = produced[s] + n]
      BY <1>7 DEF Broadcast
    <3>2. produced[s] + n \in Nat /\ produced \in [Clients -> Nat]
      BY <2>1 DEF TypeOK
    <3> QED
      BY <3>1, <3>2
  <2>3. cached' \in [Clients -> Nat]
    <3>1. cached' = [d \in Clients |-> cached'[d]]
      BY <1>7 DEF Broadcast, TypeOK
    <3>2. \A d \in Clients : cached'[d] = cached[d] \/ cached'[d] = produced[s] + 1
      <4>1. \A d \in Clients \ {s} : cached'[d] = cached[d]
        BY <1>7, BroadcastFacts
      <4>2. cached'[s] = cached[s] \/ cached'[s] = produced[s] + 1
        BY <1>7, BroadcastFacts
      <4> QED
        BY <4>1, <4>2
    <3>3. \A d \in Clients : cached[d] \in Nat
      BY DEF TypeOK
    <3> QED
      BY <2>1, <3>1, <3>2, <3>3
  <2>4. todo' \in [Clients -> [Clients -> SUBSET Nat]]
    <3> DEFINE w == [c \in Clients |-> IF c \in clients \ {s}
                       THEN produced[s] + 1 .. produced[s] + n ELSE {}]
    <3>1. todo' = [todo EXCEPT ![s] = w]
      BY <1>7 DEF Broadcast
    <3>2. (produced[s] + 1 .. produced[s] + n) \subseteq Nat
      BY <2>1
    <3>3. w \in [Clients -> SUBSET Nat]
      BY <3>2
    <3>4. todo \in [Clients -> [Clients -> SUBSET Nat]]
      BY DEF TypeOK
    <3> HIDE DEF w
    <3> QED
      BY <3>1, <3>3, <3>4
  <2>5. relay' \in [Clients -> {"nil", "pending", "ready"}]
    BY <1>7 DEF Broadcast, TypeOK
  <2>6. \A r \in Clients : cached'[r] # 0 => relay'[r] = "ready"
    <3>1. \A r \in Clients : cached[r] # 0 => relay[r] = "ready"
      BY DEF TypeOK
    <3>2. \A r \in Clients \ {s} : cached'[r] = cached[r] /\ relay'[r] = relay[r]
      BY <1>7, BroadcastFacts
    <3>3. cached'[s] # 0 => relay'[s] = "ready"
      BY <1>7, <3>1, BroadcastFacts
    <3> QED
      BY <3>1, <3>2, <3>3
  <2>7. missed' \subseteq Clients \X Clients
    <3>1. missed' \subseteq missed \cup {<<c, s>> : c \in Clients}
      BY <1>7 DEF Broadcast
    <3>2. missed \subseteq Clients \X Clients
      BY DEF TypeOK
    <3> QED
      BY <3>1, <3>2
  <2>8. handler' \in [Clients -> {"out", "joining", "registered", "reading",
                                 "broadcasting", "writing", "asking", "gone"}]
    <3>1. handler' \in {[handler EXCEPT ![s] = "reading"],
                        [handler EXCEPT ![s] = "broadcasting"]}
      BY <1>7 DEF Broadcast, Goto
    <3> QED
      BY <3>1 DEF TypeOK
  <2>9. UNCHANGED <<clients, writer, inits, requests, shareVars, inbox, broken,
                    dropped>>
    BY <1>7 DEF Broadcast
  <2> QED
    BY <2>2, <2>3, <2>4, <2>5, <2>6, <2>7, <2>8, <2>9 DEF TypeOK
<1>8. ASSUME NEW s \in Clients, LockWrites(s) PROVE TypeOK'
  BY <1>8 DEF LockWrites, Goto
<1>9. ASSUME NEW s \in Clients, NEW c \in Clients, WriteUnit(s, c)
      PROVE  TypeOK'
  <2>1. PICK k \in 1 .. produced[s] :
          /\ todo' = [todo EXCEPT ![s][c] = k + 1 .. produced[s]]
          /\ Receive(c, s, k, FALSE)
    BY <1>9, WriteUnitWritesNext
  <2>2. k \in Nat
    OBVIOUS
  <2>3. /\ last' \in [Clients -> [Clients -> Nat]]
        /\ fresh' \subseteq Clients \X Clients
    <3> HIDE DEF TypeOK
    <3> QED
      BY <2>1, <2>2, ReceiveFacts
  <2>4. todo' \in [Clients -> [Clients -> SUBSET Nat]]
    <3> HIDE DEF TypeOK
    <3>1. todo' = [todo EXCEPT ![s] = [todo[s] EXCEPT ![c] = k + 1 .. produced[s]]]
      BY <2>1
    <3>2. (k + 1 .. produced[s]) \subseteq Nat
      BY <2>2, Counts
    <3>3. todo[s] \in [Clients -> SUBSET Nat]
      BY Counts
    <3>4. todo \in [Clients -> [Clients -> SUBSET Nat]]
      BY DEF TypeOK
    <3>5. [todo[s] EXCEPT ![c] = k + 1 .. produced[s]] \in [Clients -> SUBSET Nat]
      BY <3>2, <3>3
    <3> QED
      BY <3>1, <3>4, <3>5
  <2> QED
    BY <1>9, <2>3, <2>4 DEF WriteUnit
<1>10. ASSUME NEW s \in Clients, NEW c \in Clients, DropClient(s, c)
      PROVE  TypeOK'
  <2>1. DeleteClient(c)
    BY <1>10 DEF DropClient
  <2>2. /\ clients' = clients \ {c}
        /\ cached' = [cached EXCEPT ![c] = 0]
        /\ relay' = [relay EXCEPT ![c] = "nil"]
        /\ produced' \in [Clients -> Nat]
    <3> HIDE DEF TypeOK
    <3> QED
      BY <2>1, DeleteClientFacts
  <2> QED
    BY <1>10, <2>2 DEF DropClient
<1>11. ASSUME NEW s \in Clients, UnlockWrites(s) PROVE TypeOK'
  BY <1>11 DEF UnlockWrites, Goto
<1>12. ASSUME NEW c \in Clients, NEW s \in Clients, RequestKeyframe(c, s)
      PROVE  TypeOK'
  BY <1>12 DEF RequestKeyframe, Reading, Goto
<1>13. ASSUME NEW c \in Clients, NEW s \in Clients, SendKeyframe(c, s)
      PROVE  TypeOK'
  <2>1. Receive(c, s, inits[c][s], TRUE)
    BY <1>13 DEF SendKeyframe
  <2>2. /\ last' \in [Clients -> [Clients -> Nat]]
        /\ fresh' \subseteq Clients \X Clients
    <3> HIDE DEF TypeOK
    <3> QED
      BY <2>1, Counts, ReceiveFacts
  <2>3. inits' \in [Clients -> [Clients -> Nat]]
    BY <1>13 DEF SendKeyframe
  <2> QED
    BY <1>13, <2>2, <2>3 DEF SendKeyframe, Goto
<1>14. ASSUME NEW c \in Clients, LeaveRoom(c) PROVE TypeOK'
  <2>1. DeleteClient(c)
    BY <1>14 DEF LeaveRoom
  <2>2. /\ clients' = clients \ {c}
        /\ cached' = [cached EXCEPT ![c] = 0]
        /\ relay' = [relay EXCEPT ![c] = "nil"]
        /\ produced' \in [Clients -> Nat]
    <3> HIDE DEF TypeOK
    <3> QED
      BY <2>1, DeleteClientFacts
  <2> QED
    BY <1>14, <2>2 DEF LeaveRoom, Goto
<1>15. ASSUME NEW c \in Clients, PeerStalls(c) PROVE TypeOK'
  BY <1>15 DEF PeerStalls
<1>16. ASSUME NEW p \in Publishers, AddScreenPublisher(p) PROVE TypeOK'
  BY <1>16 DEF AddScreenPublisher, PubGoto
<1>17. ASSUME NEW p \in Publishers, ClearScreenPublisher(p) PROVE TypeOK'
  BY <1>17 DEF ClearScreenPublisher, PubGoto
<1>18. ASSUME NEW p \in Publishers, CollectTargets(p) PROVE TypeOK'
  BY <1>18 DEF CollectTargets, PubGoto
<1>19. ASSUME NEW p \in Publishers, SendShareState(p) PROVE TypeOK'
  <2>1. badge' \in [Clients -> SUBSET Publishers]
    <3> HIDE DEF TypeOK
    <3>1. badge \in [Clients -> SUBSET Publishers]
      BY DEF TypeOK
    <3>2. \A c \in Clients : /\ badge[c] \cup {p} \in SUBSET Publishers
                             /\ badge[c] \ {p} \in SUBSET Publishers
      BY <3>1
    <3>3. \/ badge' = [c \in Clients |-> IF c \in targets[p] \ broken
                                         THEN badge[c] \cup {p} ELSE badge[c]]
          \/ badge' = [c \in Clients |-> IF c \in targets[p] \ broken
                                         THEN badge[c] \ {p} ELSE badge[c]]
      BY <1>19 DEF SendShareState
    <3> QED
      BY <3>1, <3>2, <3>3
  <2>2. pub' \in [Publishers -> {"out", "started", "announcing", "sharing",
                                "stopped", "retracting", "gone"}]
    BY <1>19 DEF SendShareState, PubGoto
  <2> QED
    BY <1>19, <2>1, <2>2 DEF SendShareState
<1>20. CASE UNCHANGED vars
  BY <1>20 DEF vars
<1> QED
  BY <1>1, <1>2, <1>3, <1>4, <1>5, <1>6, <1>7, <1>8, <1>9, <1>10, <1>11, <1>12,
     <1>13, <1>14, <1>15, <1>16, <1>17, <1>18, <1>19, <1>20 DEF Next,
     HandleAudioStream, JoinRoom, HandleScreenPublisher

\* Nobody is reached before it has registered, or after it has left.
LEMMA AloneStep ==
  TypeOK /\ TypeOK' /\ AloneInv /\ [Next]_vars => AloneInv'
<1> SUFFICES ASSUME TypeOK, TypeOK', AloneInv, [Next]_vars
             PROVE  AloneInv'
  OBVIOUS
<1> USE DEF TypeOK, AloneOf, streamVars, loopVars, shareVars, inbox, history
<1> SUFFICES ASSUME NEW d \in Clients PROVE AloneOf(d)'
  BY DEF AloneInv
<1>a. AloneOf(d)
  BY DEF AloneInv
<1>1. ASSUME NEW c \in Clients, SnapshotInits(c) PROVE AloneOf(d)'
  BY <1>1, <1>a DEF SnapshotInits, Goto
<1>2. ASSUME NEW c \in Clients, NEW s \in Clients, SendInit(c, s)
      PROVE  AloneOf(d)'
  BY <1>2, <1>a DEF SendInit, Receive
<1>3. ASSUME NEW c \in Clients, SendInitFails(c) PROVE AloneOf(d)'
  BY <1>3, <1>a DEF SendInitFails, Goto
<1>4. ASSUME NEW c \in Clients, RegisterClient(c) PROVE AloneOf(d)'
  BY <1>4, <1>a DEF RegisterClient, Goto
<1>5. ASSUME NEW c \in Clients, CurrentShares(c) PROVE AloneOf(d)'
  BY <1>5, <1>a DEF CurrentShares, Goto
<1>6. ASSUME NEW c \in Clients, NEW p \in Publishers, NotifyShare(c, p)
      PROVE  AloneOf(d)'
  BY <1>6, <1>a DEF NotifyShare
<1>7. ASSUME NEW s \in Clients, NEW n \in 0 .. MaxUnits[s], Broadcast(s, n)
      PROVE  AloneOf(d)'
  <2> HIDE DEF TypeOK
  <2>1. UNCHANGED <<clients, targets>>
    BY <1>7, BroadcastFacts
  <2>2. d \notin clients => todo'[s][d] = {}
    BY <1>7, BroadcastFacts
  <2>3. \A r \in Clients \ {s} : todo'[r] = todo[r]
    BY <1>7, BroadcastFacts
  <2>4. CASE d = s
    <3>1. handler[s] = "reading" /\ handler'[s] \in {"reading", "broadcasting"}
      BY <1>7, BroadcastFacts
    <3> QED
      BY <2>4, <3>1
  <2>5. CASE d # s
    <3>1. UNCHANGED <<handler[d], cached[d], relay[d]>>
      BY <1>7, <2>5, BroadcastFacts
    <3> QED
      BY <1>a, <2>1, <2>2, <2>3, <3>1
  <2> QED
    BY <2>4, <2>5
<1>8. ASSUME NEW s \in Clients, LockWrites(s) PROVE AloneOf(d)'
  BY <1>8, <1>a DEF LockWrites, Goto
<1>9. ASSUME NEW s \in Clients, NEW c \in Clients, WriteUnit(s, c)
      PROVE  AloneOf(d)'
  BY <1>9, <1>a DEF WriteUnit, Receive
<1>10. ASSUME NEW s \in Clients, NEW c \in Clients, DropClient(s, c)
      PROVE  AloneOf(d)'
  BY <1>10, DeleteClientFacts, <1>a DEF DropClient
<1>11. ASSUME NEW s \in Clients, UnlockWrites(s) PROVE AloneOf(d)'
  BY <1>11, <1>a DEF UnlockWrites, Goto
<1>12. ASSUME NEW c \in Clients, NEW s \in Clients, RequestKeyframe(c, s)
      PROVE  AloneOf(d)'
  BY <1>12, <1>a DEF RequestKeyframe, Reading, Goto
<1>13. ASSUME NEW c \in Clients, NEW s \in Clients, SendKeyframe(c, s)
      PROVE  AloneOf(d)'
  BY <1>13, <1>a DEF SendKeyframe, Receive, Goto
<1>14. ASSUME NEW c \in Clients, LeaveRoom(c) PROVE AloneOf(d)'
  BY <1>14, DeleteClientFacts, <1>a DEF LeaveRoom, Reading, Goto
<1>15. ASSUME NEW c \in Clients, PeerStalls(c) PROVE AloneOf(d)'
  BY <1>15, <1>a DEF PeerStalls
<1>16. ASSUME NEW p \in Publishers, AddScreenPublisher(p) PROVE AloneOf(d)'
  BY <1>16, <1>a DEF AddScreenPublisher, PubGoto
<1>17. ASSUME NEW p \in Publishers, ClearScreenPublisher(p) PROVE AloneOf(d)'
  BY <1>17, <1>a DEF ClearScreenPublisher, PubGoto
<1>18. ASSUME NEW p \in Publishers, CollectTargets(p) PROVE AloneOf(d)'
  BY <1>18, <1>a DEF CollectTargets, PubGoto
<1>19. ASSUME NEW p \in Publishers, SendShareState(p) PROVE AloneOf(d)'
  BY <1>19, <1>a DEF SendShareState, PubGoto
<1>20. CASE UNCHANGED vars
  BY <1>20, <1>a DEF vars, streamVars, loopVars, shareVars, inbox, history
<1> QED
  BY <1>1, <1>2, <1>3, <1>4, <1>5, <1>6, <1>7, <1>8, <1>9, <1>10, <1>11, <1>12,
     <1>13, <1>14, <1>15, <1>16, <1>17, <1>18, <1>19, <1>20 DEF Next,
     HandleAudioStream, JoinRoom, HandleScreenPublisher

\* Shares enter and leave the room with their handler.
LEMMA SharingStep ==
  TypeOK /\ TypeOK' /\ SharingInv /\ [Next]_vars => SharingInv'
<1> SUFFICES ASSUME TypeOK, TypeOK', SharingInv, [Next]_vars
             PROVE  SharingInv'
  OBVIOUS
<1> USE AudioRoomAssumption DEF AudioRoomAssumption, TypeOK, SharingInv,
   streamVars, loopVars, shareVars, inbox, history
<1>1. ASSUME NEW c \in Clients, SnapshotInits(c) PROVE SharingInv'
  BY <1>1 DEF SnapshotInits, Goto
<1>2. ASSUME NEW c \in Clients, NEW s \in Clients, SendInit(c, s)
      PROVE  SharingInv'
  BY <1>2 DEF SendInit, Receive
<1>3. ASSUME NEW c \in Clients, SendInitFails(c) PROVE SharingInv'
  BY <1>3 DEF SendInitFails, Goto
<1>4. ASSUME NEW c \in Clients, RegisterClient(c) PROVE SharingInv'
  BY <1>4 DEF RegisterClient, Goto
<1>5. ASSUME NEW c \in Clients, CurrentShares(c) PROVE SharingInv'
  BY <1>5 DEF CurrentShares, Goto
<1>6. ASSUME NEW c \in Clients, NEW p \in Publishers, NotifyShare(c, p)
      PROVE  SharingInv'
  BY <1>6 DEF NotifyShare
<1>7. ASSUME NEW s \in Clients, NEW n \in 0 .. MaxUnits[s], Broadcast(s, n)
      PROVE  SharingInv'
  BY <1>7 DEF Broadcast, Goto, Reading
<1>8. ASSUME NEW s \in Clients, LockWrites(s) PROVE SharingInv'
  BY <1>8 DEF LockWrites, Goto
<1>9. ASSUME NEW s \in Clients, NEW c \in Clients, WriteUnit(s, c)
      PROVE  SharingInv'
  BY <1>9 DEF WriteUnit, Receive
<1>10. ASSUME NEW s \in Clients, NEW c \in Clients, DropClient(s, c)
      PROVE  SharingInv'
  BY <1>10, DeleteClientFacts DEF DropClient
<1>11. ASSUME NEW s \in Clients, UnlockWrites(s) PROVE SharingInv'
  BY <1>11 DEF UnlockWrites, Goto
<1>12. ASSUME NEW c \in Clients, NEW s \in Clients, RequestKeyframe(c, s)
      PROVE  SharingInv'
  BY <1>12 DEF RequestKeyframe, Reading, Goto
<1>13. ASSUME NEW c \in Clients, NEW s \in Clients, SendKeyframe(c, s)
      PROVE  SharingInv'
  BY <1>13 DEF SendKeyframe, Receive, Goto
<1>14. ASSUME NEW c \in Clients, LeaveRoom(c) PROVE SharingInv'
  BY <1>14, DeleteClientFacts DEF LeaveRoom, Reading, Goto
<1>15. ASSUME NEW c \in Clients, PeerStalls(c) PROVE SharingInv'
  BY <1>15 DEF PeerStalls
<1>16. ASSUME NEW p \in Publishers, AddScreenPublisher(p) PROVE SharingInv'
  BY <1>16 DEF AddScreenPublisher, PubGoto
<1>17. ASSUME NEW p \in Publishers, ClearScreenPublisher(p) PROVE SharingInv'
  BY <1>17 DEF ClearScreenPublisher, PubGoto
<1>18. ASSUME NEW p \in Publishers, CollectTargets(p) PROVE SharingInv'
  BY <1>18 DEF CollectTargets, PubGoto
<1>19. ASSUME NEW p \in Publishers, SendShareState(p) PROVE SharingInv'
  BY <1>19 DEF SendShareState, PubGoto
<1>20. CASE UNCHANGED vars
  BY <1>20 DEF vars
<1> QED
  BY <1>1, <1>2, <1>3, <1>4, <1>5, <1>6, <1>7, <1>8, <1>9, <1>10, <1>11, <1>12,
     <1>13, <1>14, <1>15, <1>16, <1>17, <1>18, <1>19, <1>20 DEF Next,
     HandleAudioStream, JoinRoom, HandleScreenPublisher

\* Who registers before the targets are collected is among them, who registers
\* later finds the share.
LEMMA BadgeStep ==
  TypeOK /\ TypeOK' /\ AloneInv /\ SharingInv /\ BadgeInv /\ [Next]_vars =>
    BadgeInv'
<1> SUFFICES ASSUME TypeOK, TypeOK', AloneInv, SharingInv, BadgeInv,
                    [Next]_vars
             PROVE  BadgeInv'
  OBVIOUS
<1> SUFFICES ASSUME NEW r \in Publishers, NEW d \in Clients
             PROVE  BadgeOf(r, d)'
  BY DEF BadgeInv
<1>a. BadgeOf(r, d)
  BY DEF BadgeInv
<1> USE AudioRoomAssumption DEF AudioRoomAssumption, TypeOK, AloneInv, AloneOf,
   SharingInv, BadgeOf, streamVars, loopVars, shareVars, inbox, history
<1>1. ASSUME NEW c \in Clients, SnapshotInits(c) PROVE BadgeOf(r, d)'
  BY <1>1, <1>a DEF SnapshotInits, Goto
<1>2. ASSUME NEW c \in Clients, NEW s \in Clients, SendInit(c, s)
      PROVE  BadgeOf(r, d)'
  BY <1>2, <1>a DEF SendInit, Receive
<1>3. ASSUME NEW c \in Clients, SendInitFails(c) PROVE BadgeOf(r, d)'
  BY <1>3, <1>a DEF SendInitFails, Goto
<1>4. ASSUME NEW c \in Clients, RegisterClient(c) PROVE BadgeOf(r, d)'
  BY <1>4, <1>a DEF RegisterClient, Goto
<1>5. ASSUME NEW c \in Clients, CurrentShares(c) PROVE BadgeOf(r, d)'
  BY <1>5, <1>a DEF CurrentShares, Goto
<1>6. ASSUME NEW c \in Clients, NEW p \in Publishers, NotifyShare(c, p)
      PROVE  BadgeOf(r, d)'
  BY <1>6, <1>a DEF NotifyShare
<1>7. ASSUME NEW s \in Clients, NEW n \in 0 .. MaxUnits[s], Broadcast(s, n)
      PROVE  BadgeOf(r, d)'
  <2>1. UNCHANGED <<clients, shareVars, broken>>
    BY <1>7 DEF Broadcast
  <2>2. handler'[d] = "registered" <=> handler[d] = "registered"
    BY <1>7 DEF Broadcast, Reading, Goto, TypeOK
  <2> QED
    BY <1>a, <2>1, <2>2 DEF BadgeOf, shareVars
<1>8. ASSUME NEW s \in Clients, LockWrites(s) PROVE BadgeOf(r, d)'
  BY <1>8, <1>a DEF LockWrites, Goto
<1>9. ASSUME NEW s \in Clients, NEW c \in Clients, WriteUnit(s, c)
      PROVE  BadgeOf(r, d)'
  BY <1>9, <1>a DEF WriteUnit, Receive
<1>10. ASSUME NEW s \in Clients, NEW c \in Clients, DropClient(s, c)
      PROVE  BadgeOf(r, d)'
  BY <1>10, DeleteClientFacts, <1>a DEF DropClient
<1>11. ASSUME NEW s \in Clients, UnlockWrites(s) PROVE BadgeOf(r, d)'
  BY <1>11, <1>a DEF UnlockWrites, Goto
<1>12. ASSUME NEW c \in Clients, NEW s \in Clients, RequestKeyframe(c, s)
      PROVE  BadgeOf(r, d)'
  BY <1>12, <1>a DEF RequestKeyframe, Reading, Goto
<1>13. ASSUME NEW c \in Clients, NEW s \in Clients, SendKeyframe(c, s)
      PROVE  BadgeOf(r, d)'
  BY <1>13, <1>a DEF SendKeyframe, Receive, Goto
<1>14. ASSUME NEW c \in Clients, LeaveRoom(c) PROVE BadgeOf(r, d)'
  BY <1>14, DeleteClientFacts, <1>a DEF LeaveRoom, Reading, Goto
<1>15. ASSUME NEW c \in Clients, PeerStalls(c) PROVE BadgeOf(r, d)'
  BY <1>15, <1>a DEF PeerStalls
<1>16. ASSUME NEW p \in Publishers, AddScreenPublisher(p) PROVE BadgeOf(r, d)'
  BY <1>16, <1>a DEF AddScreenPublisher, PubGoto
<1>17. ASSUME NEW p \in Publishers, ClearScreenPublisher(p)
      PROVE  BadgeOf(r, d)'
  BY <1>17, <1>a DEF ClearScreenPublisher, PubGoto
<1>18. ASSUME NEW p \in Publishers, CollectTargets(p) PROVE BadgeOf(r, d)'
  BY <1>18, <1>a DEF CollectTargets, PubGoto
<1>19. ASSUME NEW p \in Publishers, SendShareState(p) PROVE BadgeOf(r, d)'
  <2>1. UNCHANGED <<clients, broken, handler, notify>>
    BY <1>19 DEF SendShareState
  <2>2. CASE r # p
    <3>1. UNCHANGED <<pub[r], targets[r]>>
      BY <1>19, <2>2 DEF SendShareState, PubGoto, TypeOK
    <3>2. r \in badge[d] => r \in badge'[d]
      <4>1. badge'[d] \in {badge[d], badge[d] \cup {p}, badge[d] \ {p}}
        BY <1>19 DEF SendShareState
      <4> QED
        BY <2>2, <4>1
    <3> QED
      BY <1>a, <2>1, <3>1, <3>2 DEF BadgeOf
  <2>3. CASE r = p /\ pub[p] = "announcing"
    <3>1. pub'[p] = "sharing"
      BY <1>19, <2>3 DEF SendShareState, PubGoto, TypeOK
    <3>2. p \in badge[d] \/ d \in targets[p] \ broken => p \in badge'[d]
      BY <1>19, <2>3 DEF SendShareState, TypeOK
    <3> QED
      BY <1>a, <2>1, <2>3, <3>1, <3>2 DEF BadgeOf
  <2>4. CASE r = p /\ pub[p] # "announcing"
    <3>1. pub'[p] = "gone"
      BY <1>19, <2>4 DEF SendShareState, PubGoto, TypeOK
    <3> QED
      BY <2>4, <3>1 DEF BadgeOf
  <2> QED
    BY <2>2, <2>3, <2>4
<1>20. CASE UNCHANGED vars
  BY <1>20, <1>a DEF vars, streamVars, loopVars, shareVars, inbox, history
<1> QED
  BY <1>1, <1>2, <1>3, <1>4, <1>5, <1>6, <1>7, <1>8, <1>9, <1>10, <1>11, <1>12,
     <1>13, <1>14, <1>15, <1>16, <1>17, <1>18, <1>19, <1>20 DEF Next,
     HandleAudioStream, JoinRoom, HandleScreenPublisher

\* Only a broken client is dropped.
LEMMA MemberStep ==
  TypeOK /\ TypeOK' /\ AloneInv /\ StreamInv /\ [Next]_vars =>
    (\A d \in Clients : MemberOf(d))'
<1> SUFFICES ASSUME TypeOK, TypeOK', AloneInv, StreamInv, [Next]_vars
             PROVE  (\A d \in Clients : MemberOf(d))'
  OBVIOUS
<1> USE DEF TypeOK, MemberOf, streamVars, loopVars, shareVars, inbox, history
<1> SUFFICES ASSUME NEW d \in Clients PROVE MemberOf(d)'
  OBVIOUS
<1>a. MemberOf(d)
  BY DEF StreamInv
<1>1. ASSUME NEW c \in Clients, SnapshotInits(c) PROVE MemberOf(d)'
  BY <1>1, <1>a DEF SnapshotInits, Goto
<1>2. ASSUME NEW c \in Clients, NEW s \in Clients, SendInit(c, s)
      PROVE  MemberOf(d)'
  BY <1>2, <1>a DEF SendInit, Receive
<1>3. ASSUME NEW c \in Clients, SendInitFails(c) PROVE MemberOf(d)'
  BY <1>3, <1>a DEF SendInitFails, Goto
<1>4. ASSUME NEW c \in Clients, RegisterClient(c) PROVE MemberOf(d)'
  BY <1>4, <1>a DEF RegisterClient, Goto
<1>5. ASSUME NEW c \in Clients, CurrentShares(c) PROVE MemberOf(d)'
  BY <1>5, <1>a DEF CurrentShares, Goto
<1>6. ASSUME NEW c \in Clients, NEW p \in Publishers, NotifyShare(c, p)
      PROVE  MemberOf(d)'
  BY <1>6, <1>a DEF NotifyShare
<1>7. ASSUME NEW s \in Clients, NEW n \in 0 .. MaxUnits[s], Broadcast(s, n)
      PROVE  MemberOf(d)'
  BY <1>7, <1>a DEF Broadcast, Goto, Reading
<1>8. ASSUME NEW s \in Clients, LockWrites(s) PROVE MemberOf(d)'
  BY <1>8, <1>a DEF LockWrites, Goto
<1>9. ASSUME NEW s \in Clients, NEW c \in Clients, WriteUnit(s, c)
      PROVE  MemberOf(d)'
  BY <1>9, <1>a DEF WriteUnit, Receive
<1>10. ASSUME NEW s \in Clients, NEW c \in Clients, DropClient(s, c)
      PROVE  MemberOf(d)'
  BY <1>10, DeleteClientFacts, <1>a DEF DropClient
<1>11. ASSUME NEW s \in Clients, UnlockWrites(s) PROVE MemberOf(d)'
  BY <1>11, <1>a DEF UnlockWrites, Goto
<1>12. ASSUME NEW c \in Clients, NEW s \in Clients, RequestKeyframe(c, s)
      PROVE  MemberOf(d)'
  BY <1>12, <1>a DEF RequestKeyframe, Reading, Goto
<1>13. ASSUME NEW c \in Clients, NEW s \in Clients, SendKeyframe(c, s)
      PROVE  MemberOf(d)'
  BY <1>13, <1>a DEF SendKeyframe, Receive, Goto
<1>14. ASSUME NEW c \in Clients, LeaveRoom(c) PROVE MemberOf(d)'
  BY <1>14, DeleteClientFacts, <1>a DEF LeaveRoom, Reading, Goto
<1>15. ASSUME NEW c \in Clients, PeerStalls(c) PROVE MemberOf(d)'
  BY <1>15, <1>a DEF PeerStalls
<1>16. ASSUME NEW p \in Publishers, AddScreenPublisher(p) PROVE MemberOf(d)'
  BY <1>16, <1>a DEF AddScreenPublisher, PubGoto
<1>17. ASSUME NEW p \in Publishers, ClearScreenPublisher(p) PROVE MemberOf(d)'
  BY <1>17, <1>a DEF ClearScreenPublisher, PubGoto
<1>18. ASSUME NEW p \in Publishers, CollectTargets(p) PROVE MemberOf(d)'
  BY <1>18, <1>a DEF CollectTargets, PubGoto
<1>19. ASSUME NEW p \in Publishers, SendShareState(p) PROVE MemberOf(d)'
  BY <1>19, <1>a DEF SendShareState, PubGoto
<1>20. CASE UNCHANGED vars
  BY <1>20, <1>a DEF vars, streamVars, loopVars, shareVars, inbox, history
<1> QED
  BY <1>1, <1>2, <1>3, <1>4, <1>5, <1>6, <1>7, <1>8, <1>9, <1>10, <1>11, <1>12,
     <1>13, <1>14, <1>15, <1>16, <1>17, <1>18, <1>19, <1>20 DEF Next,
     HandleAudioStream, JoinRoom, HandleScreenPublisher

\* A sender that is there for good has one relay.
LEMMA RelayStep ==
  TypeOK /\ TypeOK' /\ AloneInv /\ StreamInv /\ [Next]_vars =>
    (\A d \in Clients : RelayOf(d))'
<1> SUFFICES ASSUME TypeOK, TypeOK', AloneInv, StreamInv, [Next]_vars
             PROVE  (\A d \in Clients : RelayOf(d))'
  OBVIOUS
<1> USE AudioRoomAssumption DEF AudioRoomAssumption, TypeOK, AloneInv, AloneOf,
   RelayOf, Broadcasting, streamVars, loopVars, shareVars, inbox, history
<1> SUFFICES ASSUME NEW d \in Clients PROVE RelayOf(d)'
  OBVIOUS
<1>a. RelayOf(d)
  BY DEF StreamInv
<1>1. ASSUME NEW c \in Clients, SnapshotInits(c) PROVE RelayOf(d)'
  BY <1>1, <1>a DEF SnapshotInits, Goto
<1>2. ASSUME NEW c \in Clients, NEW s \in Clients, SendInit(c, s)
      PROVE  RelayOf(d)'
  BY <1>2, <1>a DEF SendInit, Receive
<1>3. ASSUME NEW c \in Clients, SendInitFails(c) PROVE RelayOf(d)'
  BY <1>3, <1>a DEF SendInitFails, Goto
<1>4. ASSUME NEW c \in Clients, RegisterClient(c) PROVE RelayOf(d)'
  BY <1>4, <1>a DEF RegisterClient, Goto
<1>5. ASSUME NEW c \in Clients, CurrentShares(c) PROVE RelayOf(d)'
  BY <1>5, <1>a DEF CurrentShares, Goto
<1>6. ASSUME NEW c \in Clients, NEW p \in Publishers, NotifyShare(c, p)
      PROVE  RelayOf(d)'
  BY <1>6, <1>a DEF NotifyShare
<1>7. ASSUME NEW s \in Clients, NEW n \in 0 .. MaxUnits[s], Broadcast(s, n)
      PROVE  RelayOf(d)'
  <2> HIDE DEF TypeOK
  <2>1. CASE d = s
    <3>1. handler[s] = "reading" /\ produced[s] \in Nat /\ cached[s] \in Nat
      BY <1>7, BroadcastFacts, Counts
    <3>2. /\ relay'[s] = IF relay[s] # "ready" /\ n > 0 THEN "ready"
                         ELSE IF relay[s] = "nil" THEN "pending" ELSE relay[s]
          /\ cached'[s] = IF relay[s] # "ready" /\ n > 0
                          THEN produced[s] + 1 ELSE cached[s]
          /\ produced'[s] = produced[s] + n /\ n \in Nat /\ UNCHANGED dropped
          /\ handler'[s] = IF n = 0 THEN "reading" ELSE "broadcasting"
      BY <1>7, BroadcastFacts
    <3> QED
      BY <1>a, <2>1, <3>1, <3>2
  <2>2. CASE d # s
    <3>1. UNCHANGED <<handler[d], cached[d], relay[d], produced[d], dropped>>
      BY <1>7, <2>2, BroadcastFacts
    <3> QED
      BY <1>a, <3>1
  <2> QED
    BY <2>1, <2>2
<1>8. ASSUME NEW s \in Clients, LockWrites(s) PROVE RelayOf(d)'
  BY <1>8, <1>a DEF LockWrites, Goto
<1>9. ASSUME NEW s \in Clients, NEW c \in Clients, WriteUnit(s, c)
      PROVE  RelayOf(d)'
  BY <1>9, <1>a DEF WriteUnit, Receive
<1>10. ASSUME NEW s \in Clients, NEW c \in Clients, DropClient(s, c)
      PROVE  RelayOf(d)'
  BY <1>10, DeleteClientFacts, <1>a DEF DropClient
<1>11. ASSUME NEW s \in Clients, UnlockWrites(s) PROVE RelayOf(d)'
  BY <1>11, <1>a DEF UnlockWrites, Goto
<1>12. ASSUME NEW c \in Clients, NEW s \in Clients, RequestKeyframe(c, s)
      PROVE  RelayOf(d)'
  BY <1>12, <1>a DEF RequestKeyframe, Reading, Goto
<1>13. ASSUME NEW c \in Clients, NEW s \in Clients, SendKeyframe(c, s)
      PROVE  RelayOf(d)'
  BY <1>13, <1>a DEF SendKeyframe, Receive, Goto
<1>14. ASSUME NEW c \in Clients, LeaveRoom(c) PROVE RelayOf(d)'
  BY <1>14, DeleteClientFacts, <1>a DEF LeaveRoom, Reading, Goto
<1>15. ASSUME NEW c \in Clients, PeerStalls(c) PROVE RelayOf(d)'
  BY <1>15, <1>a DEF PeerStalls
<1>16. ASSUME NEW p \in Publishers, AddScreenPublisher(p) PROVE RelayOf(d)'
  BY <1>16, <1>a DEF AddScreenPublisher, PubGoto
<1>17. ASSUME NEW p \in Publishers, ClearScreenPublisher(p) PROVE RelayOf(d)'
  BY <1>17, <1>a DEF ClearScreenPublisher, PubGoto
<1>18. ASSUME NEW p \in Publishers, CollectTargets(p) PROVE RelayOf(d)'
  BY <1>18, <1>a DEF CollectTargets, PubGoto
<1>19. ASSUME NEW p \in Publishers, SendShareState(p) PROVE RelayOf(d)'
  BY <1>19, <1>a DEF SendShareState, PubGoto
<1>20. CASE UNCHANGED vars
  BY <1>20, <1>a DEF vars, streamVars, loopVars, shareVars, inbox, history
<1> QED
  BY <1>1, <1>2, <1>3, <1>4, <1>5, <1>6, <1>7, <1>8, <1>9, <1>10, <1>11, <1>12,
     <1>13, <1>14, <1>15, <1>16, <1>17, <1>18, <1>19, <1>20 DEF Next,
     HandleAudioStream, JoinRoom, HandleScreenPublisher

\* Broadcast writes its units in order.
LEMMA TailStep ==
  TypeOK /\ TypeOK' /\ AloneInv /\ StreamInv /\ [Next]_vars =>
    (\A d, r \in Clients : TailOf(d, r))'
<1> SUFFICES ASSUME TypeOK, TypeOK', AloneInv, StreamInv, [Next]_vars
             PROVE  (\A d, r \in Clients : TailOf(d, r))'
  OBVIOUS
<1> SUFFICES ASSUME NEW d \in Clients, NEW r \in Clients PROVE TailOf(d, r)'
  OBVIOUS
<1>a. TailOf(d, r)
  BY DEF StreamInv
<1>1. ASSUME NEW c \in Clients, SnapshotInits(c) PROVE TailOf(d, r)'
  <2>1. UNCHANGED <<todo, produced>> /\ (Broadcasting(r) => Broadcasting(r)')
    BY <1>1 DEF SnapshotInits, Goto, streamVars, loopVars, TypeOK, Broadcasting
  <2> QED
    BY <1>a, <2>1, TailFrame
<1>2. ASSUME NEW c \in Clients, NEW s \in Clients, SendInit(c, s)
      PROVE  TailOf(d, r)'
  <2>1. UNCHANGED <<todo, produced>> /\ (Broadcasting(r) => Broadcasting(r)')
    BY <1>2 DEF SendInit, streamVars, loopVars, TypeOK, Broadcasting
  <2> QED
    BY <1>a, <2>1, TailFrame
<1>3. ASSUME NEW c \in Clients, SendInitFails(c) PROVE TailOf(d, r)'
  <2>1. UNCHANGED <<todo, produced>> /\ (Broadcasting(r) => Broadcasting(r)')
    BY <1>3 DEF SendInitFails, Goto, streamVars, loopVars, TypeOK, Broadcasting
  <2> QED
    BY <1>a, <2>1, TailFrame
<1>4. ASSUME NEW c \in Clients, RegisterClient(c) PROVE TailOf(d, r)'
  <2>1. UNCHANGED <<todo, produced>> /\ (Broadcasting(r) => Broadcasting(r)')
    BY <1>4 DEF RegisterClient, Goto, streamVars, loopVars, TypeOK, Broadcasting
  <2> QED
    BY <1>a, <2>1, TailFrame
<1>5. ASSUME NEW c \in Clients, CurrentShares(c) PROVE TailOf(d, r)'
  <2>1. UNCHANGED <<todo, produced>> /\ (Broadcasting(r) => Broadcasting(r)')
    BY <1>5 DEF CurrentShares, Goto, streamVars, loopVars, TypeOK, Broadcasting
  <2> QED
    BY <1>a, <2>1, TailFrame
<1>6. ASSUME NEW c \in Clients, NEW p \in Publishers, NotifyShare(c, p)
      PROVE  TailOf(d, r)'
  <2>1. UNCHANGED <<todo, produced>> /\ (Broadcasting(r) => Broadcasting(r)')
    BY <1>6 DEF NotifyShare, streamVars, loopVars, TypeOK, Broadcasting
  <2> QED
    BY <1>a, <2>1, TailFrame
<1>7. ASSUME NEW s \in Clients, NEW n \in 0 .. MaxUnits[s], Broadcast(s, n)
      PROVE  TailOf(d, r)'
  <2>1. ~Broadcasting(s) /\ produced[s] \in Nat
    BY <1>7, BroadcastFacts DEF Broadcasting
  <2>2. CASE r # s
    <3>1. todo'[r] = todo[r] /\ produced'[r] = produced[r] /\ handler'[r] = handler[r]
      BY <1>7, <2>2, BroadcastFacts
    <3> QED
      BY <1>a, <3>1 DEF TailOf, Broadcasting
  <2>3. CASE r = s
    <3>1. /\ produced'[s] = produced[s] + n /\ n \in Nat
          /\ todo'[s][d] = IF d \in clients \ {s}
                           THEN produced[s] + 1 .. produced[s] + n ELSE {}
          /\ todo'[s][s] = {}
          /\ Broadcasting(s)' <=> n # 0
      BY <1>7, BroadcastFacts DEF Broadcasting
    <3>2. n = 0 => todo'[s][d] = {}
      BY <2>1, <3>1
    <3>3. n # 0 => produced[s] + 1 \in 1 .. produced'[s]
      BY <2>1, <3>1
    <3> QED
      BY <2>1, <2>3, <3>1, <3>2, <3>3 DEF TailOf
  <2> QED
    BY <2>2, <2>3
<1>8. ASSUME NEW s \in Clients, LockWrites(s) PROVE TailOf(d, r)'
  <2>1. UNCHANGED <<todo, produced>> /\ (Broadcasting(r) => Broadcasting(r)')
    BY <1>8 DEF LockWrites, Goto, streamVars, loopVars, TypeOK, Broadcasting
  <2> QED
    BY <1>a, <2>1, TailFrame
<1>9. ASSUME NEW s \in Clients, NEW c \in Clients, WriteUnit(s, c)
      PROVE  TailOf(d, r)'
  <2>1. PICK k \in 1 .. produced[s] :
          /\ todo[s][c] = k .. produced[s]
          /\ todo' = [todo EXCEPT ![s][c] = k + 1 .. produced[s]]
          /\ Receive(c, s, k, FALSE)
    BY <1>9, WriteUnitWritesNext
  <2>2. UNCHANGED <<produced, handler>> /\ produced[s] \in Nat
    BY <1>9 DEF WriteUnit, streamVars, TypeOK
  <2>3. /\ todo'[s][c] = k + 1 .. produced[s]
        /\ \A x, y \in Clients : <<x, y>> # <<s, c>> => todo'[x][y] = todo[x][y]
    BY <2>1 DEF TypeOK
  <2>4. c # s /\ Broadcasting(s)
    BY <1>9 DEF WriteUnit, StreamInv, TailOf, Broadcasting
  <2>5. CASE r = s /\ d = c
    <3>1. k + 1 .. produced[s] # {} => k + 1 \in 1 .. produced[s]
      BY <2>2
    <3>2. todo'[s][s] = {}
      BY <1>a, <2>3, <2>4, <2>5 DEF TailOf
    <3> QED
      BY <2>2, <2>3, <2>4, <2>5, <3>1, <3>2 DEF TailOf, Broadcasting
  <2>6. CASE ~(r = s /\ d = c)
    <3>1. todo'[r][d] = todo[r][d] /\ todo'[r][r] = todo[r][r]
      BY <2>3, <2>4, <2>6
    <3> QED
      BY <1>a, <2>2, <3>1 DEF TailOf, Broadcasting
  <2> QED
    BY <2>5, <2>6
<1>10. ASSUME NEW s \in Clients, NEW c \in Clients, DropClient(s, c)
      PROVE  TailOf(d, r)'
  <2>1. DeleteClient(c) /\ UNCHANGED handler
    BY <1>10 DEF DropClient
  <2>2. \A y \in Clients : todo'[r][y] \in {todo[r][y], {}}
    BY <1>10 DEF DropClient, TypeOK
  <2>3. todo[r][d] # {} => produced'[r] = produced[r]
    BY <1>a, <2>1, DeleteClientFacts DEF StreamInv, RelayOf, TailOf
  <2> QED
    BY <1>a, <2>1, <2>2, <2>3 DEF TailOf, Broadcasting
<1>11. ASSUME NEW s \in Clients, UnlockWrites(s) PROVE TailOf(d, r)'
  <2>1. /\ UNCHANGED <<todo, produced>>
        /\ \A y \in Clients : todo[s][y] = {}
        /\ r # s => (Broadcasting(r) <=> Broadcasting(r)')
    BY <1>11 DEF UnlockWrites, Goto, streamVars, loopVars, TypeOK, Broadcasting
  <2> QED
    BY <1>a, <2>1 DEF TailOf
<1>12. ASSUME NEW c \in Clients, NEW s \in Clients, RequestKeyframe(c, s)
      PROVE  TailOf(d, r)'
  <2>1. UNCHANGED <<todo, produced>> /\ (Broadcasting(r) => Broadcasting(r)')
    BY <1>12 DEF RequestKeyframe, Reading, Goto, streamVars, loopVars, TypeOK, Broadcasting
  <2> QED
    BY <1>a, <2>1, TailFrame
<1>13. ASSUME NEW c \in Clients, NEW s \in Clients, SendKeyframe(c, s)
      PROVE  TailOf(d, r)'
  <2>1. UNCHANGED <<todo, produced>> /\ (Broadcasting(r) => Broadcasting(r)')
    BY <1>13 DEF SendKeyframe, Goto, streamVars, loopVars, TypeOK, Broadcasting
  <2> QED
    BY <1>a, <2>1, TailFrame
<1>14. ASSUME NEW c \in Clients, LeaveRoom(c) PROVE TailOf(d, r)'
  <2>1. DeleteClient(c) /\ UNCHANGED todo /\ ~Broadcasting(c)
    BY <1>14 DEF LeaveRoom, Reading, loopVars, Broadcasting
  <2>2. Broadcasting(r) => Broadcasting(r)'
    BY <1>14, <2>1 DEF LeaveRoom, Goto, TypeOK, Broadcasting
  <2>3. todo[r][d] # {} => produced'[r] = produced[r]
    BY <1>a, <2>1, DeleteClientFacts DEF TailOf
  <2> QED
    BY <1>a, <2>1, <2>2, <2>3 DEF TailOf
<1>15. ASSUME NEW c \in Clients, PeerStalls(c) PROVE TailOf(d, r)'
  <2>1. UNCHANGED <<todo, produced>> /\ (Broadcasting(r) => Broadcasting(r)')
    BY <1>15 DEF PeerStalls, streamVars, loopVars, TypeOK, Broadcasting
  <2> QED
    BY <1>a, <2>1, TailFrame
<1>16. ASSUME NEW p \in Publishers, AddScreenPublisher(p) PROVE TailOf(d, r)'
  <2>1. UNCHANGED <<todo, produced>> /\ (Broadcasting(r) => Broadcasting(r)')
    BY <1>16 DEF AddScreenPublisher, streamVars, loopVars, TypeOK, Broadcasting
  <2> QED
    BY <1>a, <2>1, TailFrame
<1>17. ASSUME NEW p \in Publishers, ClearScreenPublisher(p) PROVE TailOf(d, r)'
  <2>1. UNCHANGED <<todo, produced>> /\ (Broadcasting(r) => Broadcasting(r)')
    BY <1>17 DEF ClearScreenPublisher, streamVars, loopVars, TypeOK, Broadcasting
  <2> QED
    BY <1>a, <2>1, TailFrame
<1>18. ASSUME NEW p \in Publishers, CollectTargets(p) PROVE TailOf(d, r)'
  <2>1. UNCHANGED <<todo, produced>> /\ (Broadcasting(r) => Broadcasting(r)')
    BY <1>18 DEF CollectTargets, streamVars, loopVars, TypeOK, Broadcasting
  <2> QED
    BY <1>a, <2>1, TailFrame
<1>19. ASSUME NEW p \in Publishers, SendShareState(p) PROVE TailOf(d, r)'
  <2>1. UNCHANGED <<todo, produced>> /\ (Broadcasting(r) => Broadcasting(r)')
    BY <1>19 DEF SendShareState, streamVars, loopVars, TypeOK, Broadcasting
  <2> QED
    BY <1>a, <2>1, TailFrame
<1>20. CASE UNCHANGED vars
  BY <1>20, <1>a DEF vars, streamVars, loopVars, shareVars, inbox, history,
     TailOf, Broadcasting
<1> QED
  BY <1>1, <1>2, <1>3, <1>4, <1>5, <1>6, <1>7, <1>8, <1>9, <1>10, <1>11, <1>12,
     <1>13, <1>14, <1>15, <1>16, <1>17, <1>18, <1>19, <1>20 DEF Next,
     HandleAudioStream, JoinRoom, HandleScreenPublisher

\* Only what is cached is served, which begins with the first unit.
LEMMA CacheStep ==
  TypeOK /\ TypeOK' /\ AloneInv /\ StreamInv /\ [Next]_vars =>
    (\A d, r \in Clients : CacheOf(d, r))'
<1> SUFFICES ASSUME TypeOK, TypeOK', AloneInv, StreamInv, [Next]_vars
             PROVE  (\A d, r \in Clients : CacheOf(d, r))'
  OBVIOUS
<1> SUFFICES ASSUME NEW d \in Clients, NEW r \in Clients PROVE CacheOf(d, r)'
  OBVIOUS
<1>a. CacheOf(d, r)
  BY DEF StreamInv
<1>1. ASSUME NEW c \in Clients, SnapshotInits(c) PROVE CacheOf(d, r)'
  <2>1. /\ UNCHANGED <<inbox, produced, dropped>>
        /\ inits'[d][r] \in {inits[d][r], cached[r]}
        /\ handler'[d] \in {"out", "joining"} => handler[d] \in {"out", "joining"}
    BY <1>1 DEF SnapshotInits, Goto, streamVars, history, TypeOK
  <2> QED
    BY <1>a, <2>1, CachedIsFirst DEF CacheOf, inbox
<1>2. ASSUME NEW c \in Clients, NEW s \in Clients, SendInit(c, s)
      PROVE  CacheOf(d, r)'
  <2>0. inits[c][s] \in Nat
    BY Counts
  <2>1. /\ Receive(c, s, inits[c][s], TRUE) /\ inits[c][s] # 0
        /\ UNCHANGED <<produced, dropped>>
        /\ inits' = [inits EXCEPT ![c][s] = 0]
    BY <1>2 DEF SendInit, streamVars, history
  <2>i. inits'[d][r] \in {inits[d][r], 0}
    BY <2>1 DEF TypeOK
  <2>h. handler'[d] \in {"out", "joining"} => handler[d] \in {"out", "joining"}
    BY <1>2 DEF SendInit, TypeOK
  <2>2. CASE <<d, r>> # <<c, s>> \/ c \in broken
    <3>1. last'[d][r] = last[d][r] /\ (<<d, r>> \in fresh' <=> <<d, r>> \in fresh)
      BY <2>0, <2>1, <2>2, ReceiveFacts DEF inbox
    <3>2. produced[r] <= produced'[r]
      BY <2>1 DEF TypeOK
    <3> QED
      BY <1>a, <2>i, <2>h, <2>1, <3>1, <3>2, CacheFrame
  <2>3. CASE d = c /\ r = s /\ c \notin broken
    <3>1. last'[c][s] = inits[c][s]
      BY <2>1, <2>3, ReceiveGives
    <3>0. <<c, s>> \in fresh'
      BY <2>1, <2>3 DEF Receive
    <3>2. inits'[c][s] <= produced[s] /\ produced[s] \in Nat
      BY <1>a, <2>0, <2>i, <2>3, Counts DEF CacheOf
    <3> QED
      BY <1>a, <2>0, <2>1, <2>i, <2>3, <3>0, <3>1, <3>2 DEF CacheOf
  <2> QED
    BY <2>2, <2>3
<1>3. ASSUME NEW c \in Clients, SendInitFails(c) PROVE CacheOf(d, r)'
  <2>1. /\ inits'[d][r] \in {inits[d][r], 0} /\ UNCHANGED <<inbox, produced>>
        /\ handler'[d] \in {"out", "joining"} => handler[d] \in {"out", "joining"}
        /\ dropped \subseteq dropped'
    BY <1>3 DEF SendInitFails, Goto, streamVars, loopVars, inbox, history, TypeOK
  <2>2. produced[r] <= produced'[r]
    BY <2>1 DEF TypeOK
  <2> QED
    BY <1>a, <2>1, <2>2, CacheFrame DEF inbox
<1>4. ASSUME NEW c \in Clients, RegisterClient(c) PROVE CacheOf(d, r)'
  <2>1. /\ inits'[d][r] \in {inits[d][r], 0} /\ UNCHANGED <<inbox, produced>>
        /\ handler'[d] \in {"out", "joining"} => handler[d] \in {"out", "joining"}
        /\ dropped \subseteq dropped'
    BY <1>4 DEF RegisterClient, Goto, streamVars, loopVars, inbox, history, TypeOK
  <2>2. produced[r] <= produced'[r]
    BY <2>1 DEF TypeOK
  <2> QED
    BY <1>a, <2>1, <2>2, CacheFrame DEF inbox
<1>5. ASSUME NEW c \in Clients, CurrentShares(c) PROVE CacheOf(d, r)'
  <2>1. /\ inits'[d][r] \in {inits[d][r], 0} /\ UNCHANGED <<inbox, produced>>
        /\ handler'[d] \in {"out", "joining"} => handler[d] \in {"out", "joining"}
        /\ dropped \subseteq dropped'
    BY <1>5 DEF CurrentShares, Goto, streamVars, loopVars, inbox, history, TypeOK
  <2>2. produced[r] <= produced'[r]
    BY <2>1 DEF TypeOK
  <2> QED
    BY <1>a, <2>1, <2>2, CacheFrame DEF inbox
<1>6. ASSUME NEW c \in Clients, NEW p \in Publishers, NotifyShare(c, p)
      PROVE  CacheOf(d, r)'
  <2>1. /\ inits'[d][r] \in {inits[d][r], 0} /\ UNCHANGED <<inbox, produced>>
        /\ handler'[d] \in {"out", "joining"} => handler[d] \in {"out", "joining"}
        /\ dropped \subseteq dropped'
    BY <1>6 DEF NotifyShare, streamVars, loopVars, inbox, history, TypeOK
  <2>2. produced[r] <= produced'[r]
    BY <2>1 DEF TypeOK
  <2> QED
    BY <1>a, <2>1, <2>2, CacheFrame DEF inbox
<1>7. ASSUME NEW s \in Clients, NEW n \in 0 .. MaxUnits[s], Broadcast(s, n)
      PROVE  CacheOf(d, r)'
  <2>1. /\ UNCHANGED <<inbox, inits, dropped>>
        /\ handler'[d] \in {"out", "joining"} => handler[d] \in {"out", "joining"}
    BY <1>7 DEF Broadcast, Reading, Goto, history, TypeOK
  <2>2. produced[r] <= produced'[r]
    <3>1. CASE r = s
      BY <1>7, <3>1, BroadcastFacts
    <3>2. CASE r # s
      BY <1>7, <3>2, BroadcastFacts, Counts
    <3> QED
      BY <3>1, <3>2
  <2> QED
    BY <1>a, <2>1, <2>2, CacheFrame DEF inbox
<1>8. ASSUME NEW s \in Clients, LockWrites(s) PROVE CacheOf(d, r)'
  <2>1. /\ inits'[d][r] \in {inits[d][r], 0} /\ UNCHANGED <<inbox, produced>>
        /\ handler'[d] \in {"out", "joining"} => handler[d] \in {"out", "joining"}
        /\ dropped \subseteq dropped'
    BY <1>8 DEF LockWrites, Goto, streamVars, loopVars, inbox, history, TypeOK
  <2>2. produced[r] <= produced'[r]
    BY <2>1 DEF TypeOK
  <2> QED
    BY <1>a, <2>1, <2>2, CacheFrame DEF inbox
<1>9. ASSUME NEW s \in Clients, NEW c \in Clients, WriteUnit(s, c)
      PROVE  CacheOf(d, r)'
  <2>1. PICK k \in 1 .. produced[s] : Receive(c, s, k, FALSE)
    BY <1>9, WriteUnitWritesNext
  <2>2. /\ UNCHANGED <<produced, handler, inits, dropped>> /\ k \in Nat
        /\ produced[r] <= produced'[r]
    BY <1>9 DEF WriteUnit, streamVars, history, TypeOK
  <2>3. CASE <<d, r>> # <<c, s>> \/ c \in broken
    <3>1. last'[d][r] = last[d][r] /\ (<<d, r>> \in fresh' <=> <<d, r>> \in fresh)
      BY <2>1, <2>2, <2>3, ReceiveFacts DEF inbox
    <3> QED
      BY <1>a, <2>2, <3>1, CacheFrame
  <2>4. CASE d = c /\ r = s /\ c \notin broken
    <3>1. last'[c][s] = k
      BY <2>1, <2>4, ReceiveGives
    <3>3. k <= produced[s]
      BY Counts
    <3>0. <<c, s>> \notin fresh'
      BY <2>1, <2>4 DEF Receive
    <3>2. handler[c] \notin {"out", "joining"}
      BY <1>9 DEF WriteUnit, AloneInv, AloneOf
    <3> QED
      BY <1>a, <2>2, <2>4, <3>0, <3>1, <3>2, <3>3 DEF CacheOf
  <2> QED
    BY <2>3, <2>4
<1>10. ASSUME NEW s \in Clients, NEW c \in Clients, DropClient(s, c)
      PROVE  CacheOf(d, r)'
  <2>1. /\ DeleteClient(c) /\ UNCHANGED <<handler, inits, inbox>>
        /\ dropped \subseteq dropped'
    BY <1>10 DEF DropClient
  <2>2. produced[r] <= produced'[r]
    BY <2>1, DeleteClientFacts
  <2> QED
    BY <1>a, <2>1, <2>2, CacheFrame DEF inbox
<1>11. ASSUME NEW s \in Clients, UnlockWrites(s) PROVE CacheOf(d, r)'
  <2>1. /\ inits'[d][r] \in {inits[d][r], 0} /\ UNCHANGED <<inbox, produced>>
        /\ handler'[d] \in {"out", "joining"} => handler[d] \in {"out", "joining"}
        /\ dropped \subseteq dropped'
    BY <1>11 DEF UnlockWrites, Goto, streamVars, loopVars, inbox, history, TypeOK
  <2>2. produced[r] <= produced'[r]
    BY <2>1 DEF TypeOK
  <2> QED
    BY <1>a, <2>1, <2>2, CacheFrame DEF inbox
<1>12. ASSUME NEW c \in Clients, NEW s \in Clients, RequestKeyframe(c, s)
      PROVE  CacheOf(d, r)'
  <2>1. /\ UNCHANGED <<inbox, produced, dropped>>
        /\ inits'[d][r] \in {inits[d][r], cached[r]}
        /\ handler'[d] \in {"out", "joining"} => handler[d] \in {"out", "joining"}
    BY <1>12 DEF RequestKeyframe, Goto, streamVars, history, TypeOK
  <2> QED
    BY <1>a, <2>1, CachedIsFirst DEF CacheOf, inbox
<1>13. ASSUME NEW c \in Clients, NEW s \in Clients, SendKeyframe(c, s)
      PROVE  CacheOf(d, r)'
  <2>0. inits[c][s] \in Nat
    BY Counts
  <2>1. /\ Receive(c, s, inits[c][s], TRUE) /\ inits[c][s] # 0
        /\ UNCHANGED <<produced, dropped>>
        /\ inits' = [inits EXCEPT ![c][s] = 0]
    BY <1>13 DEF SendKeyframe, streamVars, history
  <2>i. inits'[d][r] \in {inits[d][r], 0}
    BY <2>1 DEF TypeOK
  <2>h. handler'[d] \in {"out", "joining"} => handler[d] \in {"out", "joining"}
    BY <1>13 DEF SendKeyframe, Goto, TypeOK
  <2>2. CASE <<d, r>> # <<c, s>> \/ c \in broken
    <3>1. last'[d][r] = last[d][r] /\ (<<d, r>> \in fresh' <=> <<d, r>> \in fresh)
      BY <2>0, <2>1, <2>2, ReceiveFacts DEF inbox
    <3>2. produced[r] <= produced'[r]
      BY <2>1 DEF TypeOK
    <3> QED
      BY <1>a, <2>i, <2>h, <2>1, <3>1, <3>2, CacheFrame
  <2>3. CASE d = c /\ r = s /\ c \notin broken
    <3>1. last'[c][s] = inits[c][s]
      BY <2>1, <2>3, ReceiveGives
    <3>0. <<c, s>> \in fresh'
      BY <2>1, <2>3 DEF Receive
    <3>2. inits'[c][s] <= produced[s] /\ produced[s] \in Nat
      BY <1>a, <2>0, <2>i, <2>3, Counts DEF CacheOf
    <3> QED
      BY <1>a, <2>0, <2>1, <2>i, <2>3, <3>0, <3>1, <3>2 DEF CacheOf
  <2> QED
    BY <2>2, <2>3
<1>14. ASSUME NEW c \in Clients, LeaveRoom(c) PROVE CacheOf(d, r)'
  <2>1. /\ DeleteClient(c) /\ UNCHANGED <<inits, inbox, dropped>>
        /\ handler'[d] \in {"out", "joining"} => handler[d] \in {"out", "joining"}
    BY <1>14 DEF LeaveRoom, Goto, loopVars, history, TypeOK
  <2>2. produced[r] <= produced'[r]
    BY <2>1, DeleteClientFacts
  <2> QED
    BY <1>a, <2>1, <2>2, CacheFrame DEF inbox
<1>15. ASSUME NEW c \in Clients, PeerStalls(c) PROVE CacheOf(d, r)'
  <2>1. /\ inits'[d][r] \in {inits[d][r], 0} /\ UNCHANGED <<inbox, produced>>
        /\ handler'[d] \in {"out", "joining"} => handler[d] \in {"out", "joining"}
        /\ dropped \subseteq dropped'
    BY <1>15 DEF PeerStalls, streamVars, loopVars, inbox, history, TypeOK
  <2>2. produced[r] <= produced'[r]
    BY <2>1 DEF TypeOK
  <2> QED
    BY <1>a, <2>1, <2>2, CacheFrame DEF inbox
<1>16. ASSUME NEW p \in Publishers, AddScreenPublisher(p) PROVE CacheOf(d, r)'
  <2>1. /\ inits'[d][r] \in {inits[d][r], 0} /\ UNCHANGED <<inbox, produced>>
        /\ handler'[d] \in {"out", "joining"} => handler[d] \in {"out", "joining"}
        /\ dropped \subseteq dropped'
    BY <1>16 DEF AddScreenPublisher, streamVars, loopVars, inbox, history, TypeOK
  <2>2. produced[r] <= produced'[r]
    BY <2>1 DEF TypeOK
  <2> QED
    BY <1>a, <2>1, <2>2, CacheFrame DEF inbox
<1>17. ASSUME NEW p \in Publishers, ClearScreenPublisher(p)
      PROVE  CacheOf(d, r)'
  <2>1. /\ inits'[d][r] \in {inits[d][r], 0} /\ UNCHANGED <<inbox, produced>>
        /\ handler'[d] \in {"out", "joining"} => handler[d] \in {"out", "joining"}
        /\ dropped \subseteq dropped'
    BY <1>17 DEF ClearScreenPublisher, streamVars, loopVars, inbox, history, TypeOK
  <2>2. produced[r] <= produced'[r]
    BY <2>1 DEF TypeOK
  <2> QED
    BY <1>a, <2>1, <2>2, CacheFrame DEF inbox
<1>18. ASSUME NEW p \in Publishers, CollectTargets(p) PROVE CacheOf(d, r)'
  <2>1. /\ inits'[d][r] \in {inits[d][r], 0} /\ UNCHANGED <<inbox, produced>>
        /\ handler'[d] \in {"out", "joining"} => handler[d] \in {"out", "joining"}
        /\ dropped \subseteq dropped'
    BY <1>18 DEF CollectTargets, streamVars, loopVars, inbox, history, TypeOK
  <2>2. produced[r] <= produced'[r]
    BY <2>1 DEF TypeOK
  <2> QED
    BY <1>a, <2>1, <2>2, CacheFrame DEF inbox
<1>19. ASSUME NEW p \in Publishers, SendShareState(p) PROVE CacheOf(d, r)'
  <2>1. /\ inits'[d][r] \in {inits[d][r], 0} /\ UNCHANGED <<inbox, produced>>
        /\ handler'[d] \in {"out", "joining"} => handler[d] \in {"out", "joining"}
        /\ dropped \subseteq dropped'
    BY <1>19 DEF SendShareState, streamVars, loopVars, inbox, history, TypeOK
  <2>2. produced[r] <= produced'[r]
    BY <2>1 DEF TypeOK
  <2> QED
    BY <1>a, <2>1, <2>2, CacheFrame DEF inbox
<1>20. CASE UNCHANGED vars
  BY <1>20, <1>a DEF vars, streamVars, loopVars, shareVars, inbox, history,
     CacheOf
<1> QED
  BY <1>1, <1>2, <1>3, <1>4, <1>5, <1>6, <1>7, <1>8, <1>9, <1>10, <1>11, <1>12,
     <1>13, <1>14, <1>15, <1>16, <1>17, <1>18, <1>19, <1>20 DEF Next,
     HandleAudioStream, JoinRoom, HandleScreenPublisher

\* Broadcast goes on behind what the clients have.
LEMMA StreamStep ==
  TypeOK /\ TypeOK' /\ AloneInv /\ StreamInv /\ [Next]_vars =>
    (\A d, r \in Clients : StreamOf(d, r))'
<1> SUFFICES ASSUME TypeOK, TypeOK', AloneInv, StreamInv, [Next]_vars
             PROVE  (\A d, r \in Clients : StreamOf(d, r))'
  OBVIOUS
<1> SUFFICES ASSUME NEW d \in Clients, NEW r \in Clients PROVE StreamOf(d, r)'
  OBVIOUS
<1>a. StreamOf(d, r)
  BY DEF StreamInv
<1>1. ASSUME NEW c \in Clients, SnapshotInits(c) PROVE StreamOf(d, r)'
  <2>1. /\ UNCHANGED <<last, fresh, produced, todo, broken, dropped, missed>>
        /\ handler[c] = "out" /\ handler'[c] = "joining"
        /\ inits'[c][r] = cached[r]
        /\ d # c => handler'[d] = handler[d] /\ inits'[d][r] = inits[d][r]
        /\ handler'[r] = "gone" <=> handler[r] = "gone"
    BY <1>1 DEF SnapshotInits, Goto, streamVars, inbox, history, TypeOK
  <2>2. CASE d # c
    BY <1>a, <2>1, <2>2, StreamFrame
  <2>3. CASE d = c
    <3>1. ASSUME r \notin dropped, handler[r] # "gone", produced[r] > 0
          PROVE  cached[r] # 0
      BY <3>1, Counts DEF StreamInv, RelayOf
    <3> QED
      BY <1>a, <2>1, <2>3, <3>1 DEF StreamOf
  <2> QED
    BY <2>2, <2>3
<1>2. ASSUME NEW c \in Clients, NEW s \in Clients, SendInit(c, s)
      PROVE  StreamOf(d, r)'
  <2>0. inits[c][s] \in Nat
    BY Counts
  <2>1. /\ Receive(c, s, inits[c][s], TRUE) /\ inits[c][s] # 0
        /\ UNCHANGED <<produced, todo, broken, dropped, missed>>
        /\ inits' = [inits EXCEPT ![c][s] = 0]
    BY <1>2 DEF SendInit, streamVars, history
  <2>h. /\ handler'[d] = "joining" => handler[d] = "joining"
        /\ handler'[d] \notin {"out", "joining", "gone"} =>
             handler[d] \notin {"out", "joining", "gone"}
        /\ handler[r] = "gone" => handler'[r] = "gone"
    BY <1>2 DEF SendInit, TypeOK
  <2>i. <<d, r>> # <<c, s>> => inits'[d][r] = inits[d][r]
    BY <2>1 DEF TypeOK
  <2>2. CASE <<d, r>> # <<c, s>>
    <3>1. last'[d][r] = last[d][r] /\ (<<d, r>> \in fresh' <=> <<d, r>> \in fresh)
      BY <2>0, <2>1, <2>2, ReceiveFacts
    <3> QED
      BY <1>a, <2>1, <2>h, <2>i, <2>2, <3>1, StreamFrame
  <2>3. CASE d = c /\ r = s /\ c \notin broken
    <3>1. last'[c][s] = inits[c][s]
      BY <2>1, <2>3, ReceiveGives
    <3>2. <<c, s>> \in fresh'
      BY <2>1, <2>3 DEF Receive
    <3> QED
      BY <2>1, <2>3, <3>1, <3>2 DEF StreamOf
  <2>4. CASE d = c /\ c \in broken
    BY <2>1, <2>4 DEF StreamOf
  <2> QED
    BY <2>2, <2>3, <2>4
<1>3. ASSUME NEW c \in Clients, SendInitFails(c) PROVE StreamOf(d, r)'
  <2>1. /\ UNCHANGED <<last, fresh, produced, todo>>
        /\ broken \subseteq broken' /\ dropped \subseteq dropped'
        /\ missed \subseteq missed'
        /\ handler[r] = "gone" => handler'[r] = "gone"
        /\ handler'[d] = "joining" =>
             handler[d] = "joining" /\ inits'[d][r] = inits[d][r]
        /\ handler'[d] \notin {"out", "joining", "gone"} =>
             handler[d] \notin {"out", "joining", "gone"}
    BY <1>3 DEF SendInitFails, Goto, streamVars, loopVars, inbox, history, TypeOK
  <2> QED
    BY <1>a, <2>1, StreamFrame
<1>4. ASSUME NEW c \in Clients, RegisterClient(c) PROVE StreamOf(d, r)'
  <2>1. /\ UNCHANGED <<last, fresh, produced, todo, broken, dropped, missed, inits>>
        /\ handler[c] = "joining" /\ handler'[c] = "registered"
        /\ inits[c][r] = 0
        /\ d # c => handler'[d] = handler[d]
        /\ handler'[r] = "gone" <=> handler[r] = "gone"
    BY <1>4 DEF RegisterClient, Goto, streamVars, loopVars, inbox, history, TypeOK
  <2>2. CASE d # c
    BY <1>a, <2>1, <2>2, StreamFrame
  <2>3. CASE d = c
    BY <1>a, <2>1, <2>3 DEF StreamOf
  <2> QED
    BY <2>2, <2>3
<1>5. ASSUME NEW c \in Clients, CurrentShares(c) PROVE StreamOf(d, r)'
  <2>1. /\ UNCHANGED <<last, fresh, produced, todo>>
        /\ broken \subseteq broken' /\ dropped \subseteq dropped'
        /\ missed \subseteq missed'
        /\ handler[r] = "gone" => handler'[r] = "gone"
        /\ handler'[d] = "joining" =>
             handler[d] = "joining" /\ inits'[d][r] = inits[d][r]
        /\ handler'[d] \notin {"out", "joining", "gone"} =>
             handler[d] \notin {"out", "joining", "gone"}
    BY <1>5 DEF CurrentShares, Goto, streamVars, loopVars, inbox, history, TypeOK
  <2> QED
    BY <1>a, <2>1, StreamFrame
<1>6. ASSUME NEW c \in Clients, NEW p \in Publishers, NotifyShare(c, p)
      PROVE  StreamOf(d, r)'
  <2>1. /\ UNCHANGED <<last, fresh, produced, todo>>
        /\ broken \subseteq broken' /\ dropped \subseteq dropped'
        /\ missed \subseteq missed'
        /\ handler[r] = "gone" => handler'[r] = "gone"
        /\ handler'[d] = "joining" =>
             handler[d] = "joining" /\ inits'[d][r] = inits[d][r]
        /\ handler'[d] \notin {"out", "joining", "gone"} =>
             handler[d] \notin {"out", "joining", "gone"}
    BY <1>6 DEF NotifyShare, streamVars, loopVars, inbox, history, TypeOK
  <2> QED
    BY <1>a, <2>1, StreamFrame
<1>7. ASSUME NEW s \in Clients, NEW n \in 0 .. MaxUnits[s], Broadcast(s, n)
      PROVE  StreamOf(d, r)'
  <2>0. /\ UNCHANGED <<inits, inbox, broken, dropped>>
        /\ missed \subseteq missed' /\ handler[s] = "reading"
        /\ handler'[s] \in {"reading", "broadcasting"}
        /\ \A x \in Clients \ {s} : handler'[x] = handler[x]
    BY <1>7, BroadcastFacts
  <2>1. /\ UNCHANGED <<last, fresh, inits, broken, dropped>>
        /\ missed \subseteq missed' /\ handler[s] = "reading"
        /\ handler'[d] = "joining" => handler[d] = "joining"
        /\ handler'[d] \notin {"out", "joining", "gone"} =>
             handler[d] \notin {"out", "joining", "gone"}
        /\ handler'[r] = "gone" <=> handler[r] = "gone"
    BY <2>0 DEF inbox
  <2>2. CASE r # s
    <3>1. produced'[r] = produced[r] /\ todo'[r] = todo[r]
      BY <1>7, <2>2, BroadcastFacts
    <3> QED
      BY <1>a, <2>1, <3>1, StreamFrame
  <2>3. CASE r = s
    BY <1>7, <2>3, BroadcastGoesOn
  <2> QED
    BY <2>2, <2>3
<1>8. ASSUME NEW s \in Clients, LockWrites(s) PROVE StreamOf(d, r)'
  <2>1. /\ UNCHANGED <<last, fresh, produced, todo>>
        /\ broken \subseteq broken' /\ dropped \subseteq dropped'
        /\ missed \subseteq missed'
        /\ handler[r] = "gone" => handler'[r] = "gone"
        /\ handler'[d] = "joining" =>
             handler[d] = "joining" /\ inits'[d][r] = inits[d][r]
        /\ handler'[d] \notin {"out", "joining", "gone"} =>
             handler[d] \notin {"out", "joining", "gone"}
    BY <1>8 DEF LockWrites, Goto, streamVars, loopVars, inbox, history, TypeOK
  <2> QED
    BY <1>a, <2>1, StreamFrame
<1>9. ASSUME NEW s \in Clients, NEW c \in Clients, WriteUnit(s, c)
      PROVE  StreamOf(d, r)'
  <2>1. PICK k \in 1 .. produced[s] :
          /\ todo' = [todo EXCEPT ![s][c] = k + 1 .. produced[s]]
          /\ Receive(c, s, k, FALSE)
    BY <1>9, WriteUnitWritesNext
  <2>2. UNCHANGED <<produced, handler, inits, broken, dropped, missed>> /\ k \in Nat
    BY <1>9 DEF WriteUnit, streamVars, history, TypeOK
  <2>3. CASE <<d, r>> # <<c, s>>
    <3>1. last'[d][r] = last[d][r] /\ (<<d, r>> \in fresh' <=> <<d, r>> \in fresh)
      BY <2>1, <2>2, <2>3, ReceiveFacts
    <3>2. todo'[r][d] = todo[r][d]
      BY <2>1, <2>3 DEF TypeOK
    <3> QED
      BY <1>a, <2>2, <3>1, <3>2, StreamFrame
  <2>4. CASE d = c /\ r = s /\ c \notin broken
    <3>1. last'[c][s] = k
      BY <2>1, <2>4, ReceiveGives
    <3>3. k > 0
      BY Counts
    <3>2. todo'[s][c] = k + 1 .. produced[s]
      BY <2>1 DEF TypeOK
    <3> QED
      BY <2>2, <2>4, <3>1, <3>2, <3>3 DEF StreamOf
  <2>5. CASE d = c /\ c \in broken
    BY <2>2, <2>5 DEF StreamOf
  <2> QED
    BY <2>3, <2>4, <2>5
<1>10. ASSUME NEW s \in Clients, NEW c \in Clients, DropClient(s, c)
      PROVE  StreamOf(d, r)'
  <2>1. /\ DeleteClient(c) /\ UNCHANGED <<handler, inits, inbox, broken, missed>>
        /\ dropped' = dropped \cup {c} /\ c \in broken
        /\ d # c => todo'[r][d] = todo[r][d]
    BY <1>10 DEF DropClient, TypeOK
  <2>2. CASE d = c \/ r = c
    BY <2>1, <2>2 DEF StreamOf
  <2>3. CASE d # c /\ r # c
    <3>1. produced'[r] = produced[r]
      BY <2>1, <2>3, DeleteClientFacts
    <3> QED
      BY <1>a, <2>1, <2>3, <3>1, StreamFrame DEF inbox
  <2> QED
    BY <2>2, <2>3
<1>11. ASSUME NEW s \in Clients, UnlockWrites(s) PROVE StreamOf(d, r)'
  <2>1. /\ UNCHANGED <<last, fresh, produced, todo>>
        /\ broken \subseteq broken' /\ dropped \subseteq dropped'
        /\ missed \subseteq missed'
        /\ handler[r] = "gone" => handler'[r] = "gone"
        /\ handler'[d] = "joining" =>
             handler[d] = "joining" /\ inits'[d][r] = inits[d][r]
        /\ handler'[d] \notin {"out", "joining", "gone"} =>
             handler[d] \notin {"out", "joining", "gone"}
    BY <1>11 DEF UnlockWrites, Goto, streamVars, loopVars, inbox, history, TypeOK
  <2> QED
    BY <1>a, <2>1, StreamFrame
<1>12. ASSUME NEW c \in Clients, NEW s \in Clients, RequestKeyframe(c, s)
      PROVE  StreamOf(d, r)'
  <2>1. /\ UNCHANGED <<last, fresh, produced, todo>>
        /\ broken \subseteq broken' /\ dropped \subseteq dropped'
        /\ missed \subseteq missed'
        /\ handler[r] = "gone" => handler'[r] = "gone"
        /\ handler'[d] = "joining" =>
             handler[d] = "joining" /\ inits'[d][r] = inits[d][r]
        /\ handler'[d] \notin {"out", "joining", "gone"} =>
             handler[d] \notin {"out", "joining", "gone"}
    BY <1>12 DEF RequestKeyframe, Reading, Goto, streamVars, loopVars, inbox, history, TypeOK
  <2> QED
    BY <1>a, <2>1, StreamFrame
<1>13. ASSUME NEW c \in Clients, NEW s \in Clients, SendKeyframe(c, s)
      PROVE  StreamOf(d, r)'
  <2>0. inits[c][s] \in Nat
    BY Counts
  <2>1. /\ Receive(c, s, inits[c][s], TRUE) /\ inits[c][s] # 0
        /\ UNCHANGED <<produced, todo, broken, dropped, missed>>
        /\ inits' = [inits EXCEPT ![c][s] = 0]
    BY <1>13 DEF SendKeyframe, streamVars, history
  <2>h. /\ handler'[d] = "joining" => handler[d] = "joining"
        /\ handler'[d] \notin {"out", "joining", "gone"} =>
             handler[d] \notin {"out", "joining", "gone"}
        /\ handler[r] = "gone" => handler'[r] = "gone"
    BY <1>13 DEF SendKeyframe, Goto, TypeOK
  <2>i. <<d, r>> # <<c, s>> => inits'[d][r] = inits[d][r]
    BY <2>1 DEF TypeOK
  <2>2. CASE <<d, r>> # <<c, s>>
    <3>1. last'[d][r] = last[d][r] /\ (<<d, r>> \in fresh' <=> <<d, r>> \in fresh)
      BY <2>0, <2>1, <2>2, ReceiveFacts
    <3> QED
      BY <1>a, <2>1, <2>h, <2>i, <2>2, <3>1, StreamFrame
  <2>3. CASE d = c /\ r = s /\ c \notin broken
    <3>1. last'[c][s] = inits[c][s]
      BY <2>1, <2>3, ReceiveGives
    <3>2. <<c, s>> \in fresh'
      BY <2>1, <2>3 DEF Receive
    <3> QED
      BY <2>1, <2>3, <3>1, <3>2 DEF StreamOf
  <2>4. CASE d = c /\ c \in broken
    BY <2>1, <2>4 DEF StreamOf
  <2> QED
    BY <2>2, <2>3, <2>4
<1>14. ASSUME NEW c \in Clients, LeaveRoom(c) PROVE StreamOf(d, r)'
  <2>1. /\ DeleteClient(c) /\ UNCHANGED <<todo, inits, last, fresh, dropped, missed>>
        /\ broken' = broken \cup {c}
        /\ handler[c] = "reading" /\ handler'[c] = "gone"
        /\ d # c => handler'[d] = handler[d]
        /\ r # c => handler'[r] = handler[r]
    BY <1>14 DEF LeaveRoom, Reading, Goto, loopVars, inbox, history, TypeOK
  <2>2. CASE d = c
    BY <2>1, <2>2 DEF StreamOf
  <2>3. CASE d # c /\ r # c
    <3>1. produced'[r] = produced[r]
      BY <2>1, <2>3, DeleteClientFacts
    <3> QED
      BY <1>a, <2>1, <2>3, <3>1, StreamFrame
  <2>4. CASE d # c /\ r = c
    <3>1. ASSUME c \notin dropped, last[d][c] > 0 PROVE produced'[c] = produced[c]
      <4>0. last[d][c] <= produced[c]
        BY DEF StreamInv, CacheOf
      <4>1. produced[c] # 0
        <5>1. last[d][c] \in Nat /\ produced[c] \in Nat
          BY Counts
        <5> QED
          BY <3>1, <4>0, <5>1
      <4>2. relay[c] # "pending"
        BY <2>1, <3>1, <4>1 DEF StreamInv, RelayOf
      <4> QED
        BY <2>1, <4>2, DeleteClientFacts
    <3> QED
      BY <1>a, <2>1, <2>4, <3>1 DEF StreamOf
  <2> QED
    BY <2>2, <2>3, <2>4
<1>15. ASSUME NEW c \in Clients, PeerStalls(c) PROVE StreamOf(d, r)'
  <2>1. /\ UNCHANGED <<last, fresh, produced, todo>>
        /\ broken \subseteq broken' /\ dropped \subseteq dropped'
        /\ missed \subseteq missed'
        /\ handler[r] = "gone" => handler'[r] = "gone"
        /\ handler'[d] = "joining" =>
             handler[d] = "joining" /\ inits'[d][r] = inits[d][r]
        /\ handler'[d] \notin {"out", "joining", "gone"} =>
             handler[d] \notin {"out", "joining", "gone"}
    BY <1>15 DEF PeerStalls, streamVars, loopVars, inbox, history, TypeOK
  <2> QED
    BY <1>a, <2>1, StreamFrame
<1>16. ASSUME NEW p \in Publishers, AddScreenPublisher(p) PROVE StreamOf(d, r)'
  <2>1. /\ UNCHANGED <<last, fresh, produced, todo>>
        /\ broken \subseteq broken' /\ dropped \subseteq dropped'
        /\ missed \subseteq missed'
        /\ handler[r] = "gone" => handler'[r] = "gone"
        /\ handler'[d] = "joining" =>
             handler[d] = "joining" /\ inits'[d][r] = inits[d][r]
        /\ handler'[d] \notin {"out", "joining", "gone"} =>
             handler[d] \notin {"out", "joining", "gone"}
    BY <1>16 DEF AddScreenPublisher, streamVars, loopVars, inbox, history, TypeOK
  <2> QED
    BY <1>a, <2>1, StreamFrame
<1>17. ASSUME NEW p \in Publishers, ClearScreenPublisher(p)
      PROVE  StreamOf(d, r)'
  <2>1. /\ UNCHANGED <<last, fresh, produced, todo>>
        /\ broken \subseteq broken' /\ dropped \subseteq dropped'
        /\ missed \subseteq missed'
        /\ handler[r] = "gone" => handler'[r] = "gone"
        /\ handler'[d] = "joining" =>
             handler[d] = "joining" /\ inits'[d][r] = inits[d][r]
        /\ handler'[d] \notin {"out", "joining", "gone"} =>
             handler[d] \notin {"out", "joining", "gone"}
    BY <1>17 DEF ClearScreenPublisher, streamVars, loopVars, inbox, history, TypeOK
  <2> QED
    BY <1>a, <2>1, StreamFrame
<1>18. ASSUME NEW p \in Publishers, CollectTargets(p) PROVE StreamOf(d, r)'
  <2>1. /\ UNCHANGED <<last, fresh, produced, todo>>
        /\ broken \subseteq broken' /\ dropped \subseteq dropped'
        /\ missed \subseteq missed'
        /\ handler[r] = "gone" => handler'[r] = "gone"
        /\ handler'[d] = "joining" =>
             handler[d] = "joining" /\ inits'[d][r] = inits[d][r]
        /\ handler'[d] \notin {"out", "joining", "gone"} =>
             handler[d] \notin {"out", "joining", "gone"}
    BY <1>18 DEF CollectTargets, streamVars, loopVars, inbox, history, TypeOK
  <2> QED
    BY <1>a, <2>1, StreamFrame
<1>19. ASSUME NEW p \in Publishers, SendShareState(p) PROVE StreamOf(d, r)'
  <2>1. /\ UNCHANGED <<last, fresh, produced, todo>>
        /\ broken \subseteq broken' /\ dropped \subseteq dropped'
        /\ missed \subseteq missed'
        /\ handler[r] = "gone" => handler'[r] = "gone"
        /\ handler'[d] = "joining" =>
             handler[d] = "joining" /\ inits'[d][r] = inits[d][r]
        /\ handler'[d] \notin {"out", "joining", "gone"} =>
             handler[d] \notin {"out", "joining", "gone"}
    BY <1>19 DEF SendShareState, streamVars, loopVars, inbox, history, TypeOK
  <2> QED
    BY <1>a, <2>1, StreamFrame
<1>20. CASE UNCHANGED vars
  BY <1>20, <1>a DEF vars, streamVars, loopVars, shareVars, inbox, history,
     StreamOf
<1> QED
  BY <1>1, <1>2, <1>3, <1>4, <1>5, <1>6, <1>7, <1>8, <1>9, <1>10, <1>11, <1>12,
     <1>13, <1>14, <1>15, <1>16, <1>17, <1>18, <1>19, <1>20 DEF Next,
     HandleAudioStream, JoinRoom, HandleScreenPublisher

\* IInv is inductive.
THEOREM Invariance == Spec => []IInv
<1>1. IInv /\ [Next]_vars => IInv'
  <2> SUFFICES ASSUME IInv, [Next]_vars PROVE IInv'
    OBVIOUS
  <2>1. TypeOK /\ AloneInv /\ SharingInv /\ BadgeInv /\ StreamInv
    BY DEF IInv
  <2>2. TypeOK'
    BY <2>1, TypeStep
  <2>3. AloneInv' /\ SharingInv'
    BY <2>1, <2>2, AloneStep, SharingStep
  <2>4. BadgeInv'
    BY <2>1, <2>2, BadgeStep
  <2>5. (\A d \in Clients : MemberOf(d))' /\ (\A d \in Clients : RelayOf(d))'
    BY <2>1, <2>2, MemberStep, RelayStep
  <2>6. /\ (\A d, r \in Clients : TailOf(d, r))'
        /\ (\A d, r \in Clients : CacheOf(d, r))'
        /\ (\A d, r \in Clients : StreamOf(d, r))'
    BY <2>1, <2>2, TailStep, CacheStep, StreamStep
  <2>7. StreamInv'
    BY <2>5, <2>6 DEF StreamInv
  <2> QED
    BY <2>2, <2>3, <2>4, <2>7 DEF IInv
<1> QED
  BY <1>1, InitIInv, PTL DEF Spec

\* The variables have their types.
THEOREM TypeCorrect == Spec => []TypeOK
<1>1. IInv => TypeOK
  BY DEF IInv
<1> QED
  BY <1>1, Invariance, PTL

\* JoinRoom writes the init segments without a mutex, and nobody else writes to
\* the connection meanwhile.
THEOREM JoinUndisturbed == Spec => []InitUndisturbed
<1>1. IInv => InitUndisturbed
  BY DEF IInv, AloneInv, AloneOf, InitUndisturbed
<1> QED
  BY <1>1, Invariance, PTL

\* Nothing stays cached of a sender that has left the room.
THEOREM NothingCachedOfTheGone == Spec => []CacheOwned
<1>1. IInv => CacheOwned
  BY DEF IInv, AloneInv, AloneOf, CacheOwned
<1> QED
  BY <1>1, Invariance, PTL

\* A client shows the shares that were announced before, while and after it
\* joined.
THEOREM EveryShareShown == Spec => []NoBadgeMissed
<1>1. IInv => NoBadgeMissed
  <2> SUFFICES ASSUME BadgeInv, NEW p \in Publishers, NEW c \in clients \ broken,
                      clients \subseteq Clients, pub[p] = "sharing", Reading(c),
                      c # Owner[p]
               PROVE  p \in badge[c]
    BY DEF IInv, TypeOK, NoBadgeMissed
  <2> QED
    BY DEF BadgeInv, BadgeOf, Reading
<1> QED
  BY <1>1, Invariance, PTL

\* What comes out of the cache is the first unit.
LEMMA ServedIsFirst ==
  ASSUME IInv, NEW c \in Clients, NEW s \in Clients, inits[c][s] # 0,
         s \notin dropped
  PROVE  inits[c][s] = 1
BY DEF IInv, StreamInv, CacheOf

\* Broadcast writes the first unit, or the one behind what the client has.
LEMMA WrittenFollows ==
  ASSUME IInv, NEW s \in Clients, NEW c \in Clients, WriteUnit(s, c),
         c \notin broken, s \notin dropped, <<c, s>> \notin missed
  PROVE  Follows(c, s, last'[c][s])
<1>0. TypeOK /\ AloneInv /\ StreamInv
  BY DEF IInv
<1>1. PICK k \in 1 .. produced[s] :
        todo[s][c] = k .. produced[s] /\ Receive(c, s, k, FALSE)
  BY <1>0, WriteUnitWritesNext
<1>2. last'[c][s] = k
  BY <1>0, <1>1, ReceiveGives
<1>3. produced[s] \in Nat /\ last[c][s] \in Nat
  BY <1>0, Counts
<1>4. /\ handler[s] = "writing" /\ todo[s][c] # {}
      /\ handler[c] \notin {"out", "joining", "gone"} /\ c # s
  BY <1>0 DEF WriteUnit, AloneInv, AloneOf, StreamInv, TailOf, MemberOf
<1>5. StreamOf(c, s) /\ CacheOf(c, s)
  BY <1>0 DEF StreamInv
<1>6. CASE last[c][s] = 0
  <2>1. 1 \in k .. produced[s]
    BY <1>1, <1>3, <1>4, <1>5, <1>6 DEF StreamOf
  <2>2. k = 1
    BY <1>3, <2>1
  <2> QED
    BY <1>2, <2>2 DEF Follows
<1>7. CASE last[c][s] > 0 /\ <<c, s>> \in fresh
  <2>1. last[c][s] = 1
    BY <1>5, <1>7 DEF CacheOf
  <2>2. k = 1 \/ k > last[c][s]
    BY <1>3, <2>1
  <2> QED
    BY <1>2, <1>7, <2>2 DEF Follows
<1>8. CASE last[c][s] > 0 /\ <<c, s>> \notin fresh
  <2>1. k .. produced[s] = last[c][s] + 1 .. produced[s]
    BY <1>1, <1>4, <1>5, <1>8 DEF StreamOf
  <2>2. k \in last[c][s] + 1 .. produced[s]
    BY <1>3, <2>1
  <2>3. last[c][s] + 1 \in k .. produced[s]
    BY <1>3, <2>1, <2>2
  <2>4. k = last[c][s] + 1
    BY <1>3, <2>2, <2>3
  <2> QED
    BY <1>2, <1>8, <2>4 DEF Follows
<1> QED
  BY <1>3, <1>6, <1>7, <1>8

\* A step gives a client what follows, or nothing.
LEMMA StepFollows ==
  ASSUME IInv, [Next]_vars, NEW d \in Clients, NEW r \in Clients,
         last'[d][r] # last[d][r], <<d, r>> \notin missed, r \notin dropped
  PROVE  Follows(d, r, last'[d][r])
<1>0. TypeOK
  BY DEF IInv
<1>1. ASSUME NEW c \in Clients, SnapshotInits(c) PROVE FALSE
  BY <1>1 DEF SnapshotInits, inbox
<1>2. ASSUME NEW c \in Clients, NEW s \in Clients, SendInit(c, s)
      PROVE  Follows(d, r, last'[d][r])
  <2>1. Receive(c, s, inits[c][s], TRUE) /\ inits[c][s] # 0
    BY <1>2 DEF SendInit
  <2>2. c \notin broken
    BY <2>1 DEF Receive, inbox
  <2>0. d = c /\ r = s
    <3>1. \A x, y \in Clients : last'[x][y] # last[x][y] => x = c /\ y = s
      BY <1>0, <2>1, <2>2, ReceiveElsewhere
    <3> QED
      BY <3>1
  <2>3. last'[c][s] = inits[c][s]
    BY <1>0, <2>1, <2>2, ReceiveGives
  <2>4. inits[c][s] = 1
    BY <2>0, <2>1, ServedIsFirst
  <2> QED
    BY <2>0, <2>3, <2>4 DEF Follows
<1>3. ASSUME NEW c \in Clients, SendInitFails(c) PROVE FALSE
  BY <1>3 DEF SendInitFails, inbox
<1>4. ASSUME NEW c \in Clients, RegisterClient(c) PROVE FALSE
  BY <1>4 DEF RegisterClient, inbox
<1>5. ASSUME NEW c \in Clients, CurrentShares(c) PROVE FALSE
  BY <1>5 DEF CurrentShares, inbox
<1>6. ASSUME NEW c \in Clients, NEW p \in Publishers, NotifyShare(c, p)
      PROVE  FALSE
  BY <1>6 DEF NotifyShare, inbox
<1>7. ASSUME NEW s \in Clients, NEW n \in 0 .. MaxUnits[s], Broadcast(s, n)
      PROVE  FALSE
  BY <1>7 DEF Broadcast, inbox
<1>8. ASSUME NEW s \in Clients, LockWrites(s) PROVE FALSE
  BY <1>8 DEF LockWrites, inbox
<1>9. ASSUME NEW s \in Clients, NEW c \in Clients, WriteUnit(s, c)
      PROVE  Follows(d, r, last'[d][r])
  <2>1. PICK k \in 1 .. produced[s] : Receive(c, s, k, FALSE)
    BY <1>9, WriteUnitWritesNext DEF IInv
  <2>2. c \notin broken
    BY <2>1 DEF Receive, inbox
  <2>3. d = c /\ r = s
    <3>1. \A x, y \in Clients : last'[x][y] # last[x][y] => x = c /\ y = s
      BY <1>0, <2>1, <2>2, ReceiveElsewhere
    <3> QED
      BY <3>1
  <2> QED
    BY <1>9, <2>2, <2>3, WrittenFollows
<1>10. ASSUME NEW s \in Clients, NEW c \in Clients, DropClient(s, c)
      PROVE  FALSE
  BY <1>10 DEF DropClient, inbox
<1>11. ASSUME NEW s \in Clients, UnlockWrites(s) PROVE FALSE
  BY <1>11 DEF UnlockWrites, inbox
<1>12. ASSUME NEW c \in Clients, NEW s \in Clients, RequestKeyframe(c, s)
      PROVE  FALSE
  BY <1>12 DEF RequestKeyframe, inbox
<1>13. ASSUME NEW c \in Clients, NEW s \in Clients, SendKeyframe(c, s)
      PROVE  Follows(d, r, last'[d][r])
  <2>1. Receive(c, s, inits[c][s], TRUE) /\ inits[c][s] # 0
    BY <1>13 DEF SendKeyframe
  <2>2. c \notin broken
    BY <2>1 DEF Receive, inbox
  <2>0. d = c /\ r = s
    <3>1. \A x, y \in Clients : last'[x][y] # last[x][y] => x = c /\ y = s
      BY <1>0, <2>1, <2>2, ReceiveElsewhere
    <3> QED
      BY <3>1
  <2>3. last'[c][s] = inits[c][s]
    BY <1>0, <2>1, <2>2, ReceiveGives
  <2>4. inits[c][s] = 1
    BY <2>0, <2>1, ServedIsFirst
  <2> QED
    BY <2>0, <2>3, <2>4 DEF Follows
<1>14. ASSUME NEW c \in Clients, LeaveRoom(c) PROVE FALSE
  BY <1>14 DEF LeaveRoom, inbox
<1>15. ASSUME NEW c \in Clients, PeerStalls(c) PROVE FALSE
  BY <1>15 DEF PeerStalls, inbox
<1>16. ASSUME NEW p \in Publishers, AddScreenPublisher(p) PROVE FALSE
  BY <1>16 DEF AddScreenPublisher, inbox
<1>17. ASSUME NEW p \in Publishers, ClearScreenPublisher(p) PROVE FALSE
  BY <1>17 DEF ClearScreenPublisher, inbox
<1>18. ASSUME NEW p \in Publishers, CollectTargets(p) PROVE FALSE
  BY <1>18 DEF CollectTargets, inbox
<1>19. ASSUME NEW p \in Publishers, SendShareState(p) PROVE FALSE
  BY <1>19 DEF SendShareState, inbox
<1>20. CASE UNCHANGED vars
  BY <1>20 DEF vars, inbox
<1> QED
  BY <1>1, <1>2, <1>3, <1>4, <1>5, <1>6, <1>7, <1>8, <1>9, <1>10, <1>11, <1>12,
     <1>13, <1>14, <1>15, <1>16, <1>17, <1>18, <1>19, <1>20 DEF Next,
     HandleAudioStream, JoinRoom, HandleScreenPublisher

\* Each receiver gets the init of a sender first and then no gap, whoever
\* broadcasts, joins, asks and leaves meanwhile.
THEOREM StreamsStayDecodable == Spec => StreamsDecodable
<1>1. IInv /\ [Next]_vars =>
        [\A c, s \in Clients :
           last'[c][s] # last[c][s] /\ <<c, s>> \notin missed /\ s \notin dropped
             => Follows(c, s, last'[c][s])]_vars
  BY StepFollows
<1> QED
  BY <1>1, Invariance, PTL DEF Spec, StreamsDecodable

=============================================================================
