--------------------------- MODULE WebmRelayProofs ---------------------------
(***************************************************************************)
(* Proofs about WebmRelay, for streams, messages and budgets of any size.  *)
(* RelayInv is the inductive invariant: where f.pending begins, seen from  *)
(* the units that were cut so far and from the Clusters received so far.   *)
(***************************************************************************)
EXTENDS WebmRelay, FiniteSetTheorems, TLAPS

\* f.pending begins where the last unit has ended.
PendingInv ==
  /\ ready <=> cuts # {}
  /\ ready => IsLast(flushed, cuts)
  /\ ~ready => flushed = 0 /\ ~raw /\ initHeader = Nil /\ lastCluster = Nil

\* While the keyframe is being collected, at most one Cluster has been seen;
\* after it, and as long as no valve has fired, f.pending begins with the last
\* Cluster seen.
BoundaryInv ==
  /\ ~ready => \A c, d \in Complete : c = d
  /\ ready /\ ~raw => IsLast(flushed, Complete)

RelayInv ==
  /\ TypeOK
  /\ PendingInv
  /\ BoundaryInv
  /\ ChunkingIndependent
  /\ NothingWithheld
  /\ PendingBounded
  /\ LateJoinerSeamless
  /\ LateJoinerGetsWholeCluster

USE DEF IDLen, Nil, IsFirst, IsLast

-----------------------------------------------------------------------------
\* What findClusterOffset finds is part of the stream: a finite set.
LEMMA FoundFinite ==
  ASSUME TypeOK, NEW from \in Int, NEW to \in Int
  PROVE  IsFiniteSet(Found(from, to))
<1>1. Found(from, to) \subseteq 0 .. MaxLen
  BY DEF Found, TypeOK, Streams
<1>2. IsFiniteSet(0 .. MaxLen)
  BY FS_Interval, WebmRelayAssumption DEF WebmRelayAssumption
<1> QED
  BY <1>1, <1>2, FS_Subset

\* Fewer than two hits: any two hits are the same.
LEMMA AtMostOne ==
  ASSUME NEW S, IsFiniteSet(S), Cardinality(S) < 2, NEW c \in S, NEW d \in S
  PROVE  c = d
<1> SUFFICES ASSUME c # d PROVE FALSE
  OBVIOUS
<1>1. /\ IsFiniteSet({c}) /\ Cardinality({c}) = 1
      /\ IsFiniteSet({c, d}) /\ Cardinality({c, d}) = 2
  <2>1. IsFiniteSet({c}) /\ Cardinality({c}) = 1
    BY FS_Singleton
  <2>2. {c, d} = {c} \cup {d} /\ d \notin {c}
    OBVIOUS
  <2>3. /\ IsFiniteSet({c} \cup {d})
        /\ Cardinality({c} \cup {d}) =
             IF d \in {c} THEN Cardinality({c}) ELSE Cardinality({c}) + 1
    BY <2>1, FS_AddElement
  <2> QED
    BY <2>1, <2>2, <2>3
<1>2. /\ Cardinality({c, d}) <= Cardinality(S)
      /\ Cardinality(S) \in Nat
  BY FS_Subset, FS_CardinalityType
<1> QED
  BY <1>1, <1>2

-----------------------------------------------------------------------------
\* RelayInv holds before the first message.
LEMMA InitRelayInv == Init => RelayInv
<1> SUFFICES ASSUME Init PROVE RelayInv
  OBVIOUS
<1>1. MaxLen \in Nat /\ MaxPending \in Nat
  BY WebmRelayAssumption DEF WebmRelayAssumption
<1>2. ids \subseteq 0 .. MaxLen
  BY DEF Init, Streams
<1>3. TypeOK
  <2>1. fed \in 0 .. MaxLen /\ flushed \in 0 .. fed
    BY <1>1 DEF Init
  <2> QED
    BY <2>1 DEF Init, TypeOK
<1>4. Complete = {}
  <2> SUFFICES ASSUME NEW i \in ids, i + IDLen <= fed PROVE FALSE
    BY DEF Complete
  <2>1. i \in Int /\ 0 <= i
    BY <1>1, <1>2
  <2> QED
    BY <2>1 DEF Init
<1>5. PendingInv /\ BoundaryInv /\ ChunkingIndependent /\ PendingBounded
  BY <1>1, <1>4
     DEF Init, PendingInv, BoundaryInv, ChunkingIndependent, PendingBounded
<1>6. NothingWithheld /\ LateJoinerSeamless /\ LateJoinerGetsWholeCluster
  BY DEF Init, NothingWithheld, LateJoinerSeamless, LateJoinerGetsWholeCluster
<1> QED
  BY <1>3, <1>5, <1>6 DEF RelayInv

\* Emit, called with f.pending from start on, where start is the end of the
\* last unit: what it leaves in f.pending is bounded and holds no complete
\* Cluster, lastCluster ends where f.pending begins, and if it fires no valve
\* it has cut at every Cluster it could.
LEMMA EmitLeaves ==
  ASSUME WebmRelayAssumption, ids \in Streams,
         NEW start \in 0 .. MaxLen, NEW end \in 0 .. MaxLen, start <= end,
         Emit(start, end)
  PROVE  /\ flushed' \in start .. end
         /\ end - flushed' <= MaxPending
         /\ {start, flushed'} \subseteq cuts'
         /\ cuts' \subseteq cuts \cup (start .. flushed')
         /\ {i \in ids : flushed' + IDLen <= i /\ i + IDLen <= end} = {}
         /\ raw' \in {raw, TRUE}
         /\ \/ lastCluster' = lastCluster /\ flushed' = start
            \/ /\ lastCluster' \in Slice
               /\ lastCluster' # Nil
               /\ lastCluster'[2] = flushed'
         /\ ~raw' =>
              /\ ~raw
              /\ cuts' = cuts \cup {start} \cup Found(start + IDLen, end)
              /\ flushed' \in {start} \cup Found(start + IDLen, end)
              /\ lastCluster' # lastCluster =>
                   /\ lastCluster'[1] \in
                        {start} \cup Found(start + IDLen, end)
                   /\ lastCluster'[1] < flushed'
                   /\ \A i \in Found(start + IDLen, end) :
                        i > lastCluster'[1] => flushed' <= i
<1> DEFINE new == Found(start + IDLen, end)
           bounds == {start} \cup new
<1>1. start \in Int /\ end \in Int /\ MaxPending \in Nat /\ MaxLen \in Nat
  BY WebmRelayAssumption DEF WebmRelayAssumption
<1>a. ids \subseteq 0 .. MaxLen
  BY DEF Streams
<1>2. \A i \in new : i \in (start + IDLen) .. end /\ i \in 0 .. MaxLen
  BY <1>1, <1>a DEF Found
<1>3. PICK last \in bounds :
        /\ IsLast(last, bounds)
        /\ \/ /\ TooMuch(end - last)
              /\ flushed' = end
              /\ cuts' = cuts \cup bounds \cup {end}
              /\ lastCluster' = <<last, end>>
              /\ raw' = TRUE
           \/ /\ ~TooMuch(end - last)
              /\ flushed' = last
              /\ cuts' = cuts \cup bounds
              /\ UNCHANGED raw
              /\ \/ new = {} /\ UNCHANGED lastCluster
                 \/ \E prev \in bounds \ {last} :
                      /\ IsLast(prev, bounds \ {last})
                      /\ lastCluster' = <<prev, last>>
  BY DEF Emit
<1>4. /\ last \in start .. end /\ last \in 0 .. MaxLen
      /\ \A b \in bounds : b \in start .. last
  BY <1>1, <1>2, <1>3
<1>5. bounds \subseteq start .. last
  BY <1>4
<1>6. {i \in ids : end + IDLen <= i /\ i + IDLen <= end} = {}
  <2> SUFFICES ASSUME NEW i \in ids, end + IDLen <= i, i + IDLen <= end
               PROVE  FALSE
    OBVIOUS
  <2>1. i \in Int
    BY <1>1, <1>a
  <2> QED
    BY <1>1, <2>1
<1>7. {i \in ids : last + IDLen <= i /\ i + IDLen <= end} = {}
  <2> SUFFICES ASSUME NEW i \in ids, last + IDLen <= i, i + IDLen <= end
               PROVE  FALSE
    OBVIOUS
  <2>1. i \in Int
    BY <1>1, <1>a
  <2>2. i \in new
    BY <1>1, <1>4, <2>1 DEF Found
  <2> QED
    BY <1>4, <2>1, <2>2
<1>8. CASE /\ TooMuch(end - last)
           /\ flushed' = end
           /\ cuts' = cuts \cup bounds \cup {end}
           /\ lastCluster' = <<last, end>>
           /\ raw' = TRUE
  <2>1. /\ flushed' \in start .. end
        /\ end - flushed' <= MaxPending
    BY <1>1, <1>8
  <2>2. /\ {start, flushed'} \subseteq cuts'
        /\ cuts' \subseteq cuts \cup (start .. flushed')
    <3>1. start .. last \subseteq start .. end /\ end \in start .. end
      BY <1>1, <1>4
    <3> QED
      BY <1>5, <1>8, <3>1
  <2>3. /\ lastCluster' \in Slice
        /\ lastCluster' # Nil
        /\ lastCluster'[2] = flushed'
    BY <1>4, <1>8 DEF Slice
  <2> HIDE DEF new, bounds
  <2> QED
    BY <1>6, <1>8, <2>1, <2>2, <2>3
<1>9. CASE /\ ~TooMuch(end - last)
           /\ flushed' = last
           /\ cuts' = cuts \cup bounds
           /\ UNCHANGED raw
           /\ \/ new = {} /\ UNCHANGED lastCluster
              \/ \E prev \in bounds \ {last} :
                   /\ IsLast(prev, bounds \ {last})
                   /\ lastCluster' = <<prev, last>>
  <2>1. /\ flushed' \in start .. end
        /\ end - flushed' <= MaxPending
    BY <1>1, <1>4, <1>9 DEF TooMuch
  <2>2. /\ {start, flushed'} \subseteq cuts'
        /\ cuts' \subseteq cuts \cup (start .. flushed')
    BY <1>5, <1>9
  <2>3. CASE new = {} /\ UNCHANGED lastCluster
    BY <1>7, <1>9, <2>1, <2>2, <2>3
  <2>4. ASSUME NEW prev \in bounds \ {last}, IsLast(prev, bounds \ {last}),
               lastCluster' = <<prev, last>>
        PROVE  /\ lastCluster' \in Slice
               /\ lastCluster' # Nil
               /\ lastCluster'[2] = flushed'
               /\ lastCluster'[1] \in bounds
               /\ lastCluster'[1] < flushed'
               /\ \A i \in new : i > lastCluster'[1] => flushed' <= i
    <3>1. prev \in Int /\ last \in Int /\ prev < last /\ prev \in 0 .. MaxLen
      BY <1>1, <1>2, <1>4, <2>4
    <3>2. ASSUME NEW i \in new, i > prev PROVE last <= i
      <4>1. i \in Int /\ last \in Int /\ prev \in Int
        BY <1>2, <3>1
      <4>2. i = last \/ i <= prev
        BY <2>4
      <4> QED
        BY <3>2, <4>1, <4>2
    <3> QED
      BY <1>4, <1>9, <2>4, <3>1, <3>2 DEF Slice
  <2> HIDE DEF new
  <2>5. CASE \E prev \in bounds \ {last} :
               /\ IsLast(prev, bounds \ {last})
               /\ lastCluster' = <<prev, last>>
    <3>1. flushed' \in bounds /\ cuts' = cuts \cup bounds
      BY <1>9
    <3>2. cuts' = cuts \cup {start} \cup new
      BY <3>1
    <3>3. /\ lastCluster' \in Slice
          /\ lastCluster' # Nil
          /\ lastCluster'[2] = flushed'
          /\ lastCluster'[1] \in {start} \cup new
          /\ lastCluster'[1] < flushed'
          /\ \A i \in new : i > lastCluster'[1] => flushed' <= i
      BY <2>4, <2>5
    <3> QED
      BY <1>7, <1>9, <2>1, <2>2, <3>1, <3>2, <3>3 DEF new
  <2> QED
    BY <1>9, <2>3, <2>5
<1> QED
  BY <1>3, <1>8, <1>9

-----------------------------------------------------------------------------
\* An ID that ends within the pending bytes is before one that does not.
LEMMA OrderOfIDs ==
  ASSUME NEW b \in Int, NEW i \in Int, NEW end \in Int,
         b + IDLen <= end, ~(i + IDLen <= end)
  PROVE  b <= i
  OBVIOUS

\* Two ways to say that an ID begins less than IDLen bytes behind offset b.
LEMMA CloseBehind ==
  ASSUME NEW b \in Int, NEW i \in Int, ~(b + IDLen <= i) \/ i + IDLen <= b
  PROVE  i < b + IDLen
  OBVIOUS

\* The last Cluster seen and the Clusters before it, after n more bytes.
LEMMA CompleteGrows ==
  ASSUME TypeOK, NEW n \in 1 .. MaxChunk, Arrive(n)
  PROVE  /\ fed + n \in 0 .. MaxLen /\ fed' = fed + n /\ ids' = ids
         /\ fed \in 0 .. (fed + n)
         /\ ids \subseteq 0 .. MaxLen /\ \A i \in ids : i \in Int /\ 0 <= i
         /\ \A i, j \in ids : i < j => i + IDLen <= j
         /\ Complete' = Found(0, fed + n)
         /\ Complete \subseteq Complete'
<1>1. fed' = fed + n /\ ids' = ids /\ fed + n <= MaxLen
  BY DEF Arrive
<1>2. MaxLen \in Nat /\ MaxChunk \in Nat /\ fed \in Nat /\ n \in Nat
  BY WebmRelayAssumption DEF WebmRelayAssumption, TypeOK
<1>3. ids \subseteq 0 .. MaxLen /\ \A i, j \in ids : i < j => i + IDLen <= j
  BY DEF TypeOK, Streams
<1>4. \A i \in ids : i \in Int /\ 0 <= i
  BY <1>2, <1>3
<1>5. Complete' = {i \in ids : i + IDLen <= fed + n}
  BY <1>1 DEF Complete
<1>6. \A i \in ids : 0 <= i /\ i + IDLen <= fed + n <=> i + IDLen <= fed + n
  BY <1>4
<1>7. Complete' = Found(0, fed + n)
  BY <1>5, <1>6 DEF Found
<1>8. \A i \in ids : i + IDLen <= fed => i + IDLen <= fed + n
  BY <1>2, <1>4
<1>9. Complete \subseteq Complete'
  BY <1>5, <1>8 DEF Complete
<1>10. fed + n \in 0 .. MaxLen /\ fed \in 0 .. (fed + n)
  BY <1>1, <1>2
<1> QED
  BY <1>1, <1>3, <1>4, <1>7, <1>9, <1>10

\* Hold: there is still at most one Cluster.
LEMMA HoldStep ==
  ASSUME RelayInv, NEW n \in 1 .. MaxChunk, Hold(n)
  PROVE  RelayInv'
<1> USE DEF RelayInv
<1>1. /\ fed' = fed + n /\ fed' \in 0 .. MaxLen /\ ids' = ids
      /\ fed \in 0 .. fed' /\ Complete' = Found(0, fed + n)
  BY CompleteGrows DEF Hold
<1>2. /\ UNCHANGED <<flushed, ready, keyframe, initHeader, lastCluster, cuts,
                     raw>>
      /\ ~ready /\ flushed = 0 /\ cuts = {} /\ ~(fed' > MaxPending)
  BY <1>1 DEF Hold, PendingInv, TooMuch
<1>3. MaxLen \in Nat /\ MaxPending \in Nat
  BY WebmRelayAssumption DEF WebmRelayAssumption
<1>4. \A c, d \in Complete' : c = d
  <2>1. fed + n \in Int
    BY <1>1, <1>3
  <2>2. IsFiniteSet(Found(0, fed + n)) /\ Cardinality(Found(0, fed + n)) < 2
    BY <2>1, FoundFinite DEF Hold
  <2> QED
    BY <1>1, <2>2, AtMostOne
<1>5. TypeOK'
  <2>1. flushed' \in 0 .. fed' /\ cuts' \subseteq 1 .. fed'
    BY <1>1, <1>2, <1>3
  <2> QED
    BY <1>1, <1>2, <2>1 DEF TypeOK
<1>6. PendingInv' /\ BoundaryInv'
  BY <1>2, <1>4 DEF PendingInv, BoundaryInv
<1>7. ChunkingIndependent'
  <2>1. \A c, d \in Complete' : ~(d < c)
    <3>1. Complete' \subseteq Int
      <4>1. \A i \in ids : i \in Int
        BY CompleteGrows DEF Hold
      <4> QED
        BY <1>1, <4>1 DEF Found
    <3> QED
      BY <1>4, <3>1
  <2> QED
    BY <1>2, <2>1 DEF ChunkingIndependent
<1>8. PendingBounded'
  BY <1>1, <1>2, <1>3 DEF PendingBounded
<1>9. NothingWithheld' /\ LateJoinerSeamless' /\ LateJoinerGetsWholeCluster'
  BY <1>2
     DEF NothingWithheld, LateJoinerSeamless, LateJoinerGetsWholeCluster,
         PendingInv
<1> QED
  BY <1>5, <1>6, <1>7, <1>8, <1>9

\* An empty f.pending is within any budget.
LEMMA NothingPending ==
  ASSUME NEW total \in Nat, NEW budget \in Nat
  PROVE  total - total <= budget
  OBVIOUS

\* FlushRawKeyframe: nothing is left in f.pending.
LEMMA FlushRawKeyframeStep ==
  ASSUME RelayInv, NEW n \in 1 .. MaxChunk, FlushRawKeyframe(n)
  PROVE  RelayInv'
<1> USE DEF RelayInv
<1>1. /\ fed' = fed + n /\ fed' \in 0 .. MaxLen /\ ids' = ids
      /\ fed \in 0 .. fed' /\ ids \subseteq 0 .. MaxLen
  BY CompleteGrows DEF FlushRawKeyframe
<1>2. /\ ~ready /\ ready' /\ ready' = TRUE /\ raw' /\ raw' = TRUE
      /\ keyframe' = <<0, fed'>> /\ flushed' = fed' /\ cuts' = {fed'}
      /\ UNCHANGED <<initHeader, lastCluster>> /\ initHeader = Nil
  BY <1>1 DEF FlushRawKeyframe, PendingInv
<1>3. MaxLen \in Nat /\ MaxPending \in Nat /\ fed' \in Nat /\ fed' > 0
  BY <1>1, WebmRelayAssumption
     DEF WebmRelayAssumption, FlushRawKeyframe, TooMuch
<1>4. TypeOK'
  <2>1. /\ flushed' \in 0 .. fed' /\ cuts' \subseteq 1 .. fed'
        /\ keyframe' \in Slice
    BY <1>1, <1>2, <1>3 DEF Slice
  <2> QED
    BY <1>1, <1>2, <2>1 DEF TypeOK
<1>5. PendingInv' /\ BoundaryInv'
  BY <1>2, <1>3 DEF PendingInv, BoundaryInv
<1>6. ChunkingIndependent' /\ LateJoinerGetsWholeCluster'
  BY <1>2 DEF ChunkingIndependent, LateJoinerGetsWholeCluster
<1>9. PendingBounded'
  <2>1. fed' - fed' <= MaxPending
    BY <1>3, NothingPending
  <2> QED
    BY <1>2, <2>1 DEF PendingBounded
<1>7. NothingWithheld'
  <2>1. ASSUME NEW i \in ids, i + IDLen <= fed' PROVE i < fed' + IDLen
    <3>1. i \in Int
      BY <1>1, <1>3
    <3>2. fed' \in Int
      BY <1>3
    <3> QED
      BY <2>1, <3>1, <3>2, CloseBehind
  <2> QED
    BY <1>1, <1>2, <2>1 DEF NothingWithheld, Complete
<1>8. LateJoinerSeamless'
  BY <1>2 DEF LateJoinerSeamless, Served
<1> QED
  BY <1>4, <1>5, <1>6, <1>7, <1>8, <1>9

\* FinalizeKeyframe: the first two Clusters seen end the init and the keyframe,
\* and Emit goes on behind them.
LEMMA FinalizeKeyframeStep ==
  ASSUME RelayInv, NEW n \in 1 .. MaxChunk, FinalizeKeyframe(n)
  PROVE  RelayInv'
<1> USE DEF RelayInv
<1> DEFINE end == fed + n
<1>1. /\ end \in 0 .. MaxLen /\ fed' = end /\ ids' = ids /\ fed \in 0 .. end
      /\ ids \subseteq 0 .. MaxLen /\ \A i \in ids : i \in Int /\ 0 <= i
      /\ \A i, j \in ids : i < j => i + IDLen <= j
      /\ Complete' = Found(0, end)
  BY CompleteGrows DEF FinalizeKeyframe
<1>2. MaxLen \in Nat /\ MaxPending \in Nat /\ end \in Nat
  BY <1>1, WebmRelayAssumption DEF WebmRelayAssumption
<1>3. PICK c1 \in Found(0, end), c2 \in Found(0, end) :
        /\ IsFirst(c1, Found(0, end))
        /\ IsFirst(c2, Found(c1 + IDLen, end))
        /\ initHeader' = Copied(0, c1)
        /\ keyframe' = <<0, c2>>
        /\ Emit(c2, end)
  BY DEF FinalizeKeyframe
<1>4. /\ ~ready /\ ready' /\ ready' = TRUE
      /\ cuts = {} /\ lastCluster = Nil /\ ~raw /\ raw = FALSE
  BY DEF FinalizeKeyframe, PendingInv, TypeOK
<1>5. /\ c1 \in ids /\ c2 \in ids /\ c1 \in Int /\ c2 \in Int /\ 0 <= c1
      /\ c1 + IDLen <= c2 /\ c2 + IDLen <= end
      /\ \A i \in ids : i < c2 => i <= c1
      /\ \A i \in ids : c1 <= i
  <2>1. /\ c1 \in ids /\ c2 \in ids
        /\ c1 + IDLen <= c2 /\ c2 + IDLen <= end
    BY <1>3 DEF Found
  <2>2. ASSUME NEW i \in ids, i < c1 PROVE FALSE
    <3>1. i + IDLen <= end /\ 0 <= i
      BY <1>1, <1>2, <2>1, <2>2
    <3>2. i \in Found(0, end)
      BY <3>1 DEF Found
    <3> QED
      BY <1>1, <1>3, <2>1, <2>2, <3>2
  <2>3. ASSUME NEW i \in ids, i < c2, c1 < i PROVE FALSE
    <3>1. c1 + IDLen <= i /\ i + IDLen <= end
      BY <1>1, <1>2, <2>1, <2>3
    <3>2. i \in Found(c1 + IDLen, end)
      BY <3>1 DEF Found
    <3> QED
      BY <1>1, <1>3, <2>1, <2>3, <3>2
  <2> QED
    BY <1>1, <2>1, <2>2, <2>3
<1>6. c2 \in 0 .. MaxLen /\ c1 \in 0 .. MaxLen /\ c2 <= end /\ c2 > 0
  BY <1>1, <1>2, <1>5
<1> DEFINE after == Found(c2 + IDLen, end)
<1>7. /\ flushed' \in c2 .. end
      /\ end - flushed' <= MaxPending
      /\ {c2, flushed'} \subseteq cuts'
      /\ cuts' \subseteq c2 .. flushed'
      /\ {i \in ids : flushed' + IDLen <= i /\ i + IDLen <= end} = {}
      /\ raw' \in BOOLEAN
      /\ \/ lastCluster' = Nil /\ flushed' = c2
         \/ /\ lastCluster' \in Slice
            /\ lastCluster' # Nil
            /\ lastCluster'[2] = flushed'
      /\ ~raw' =>
           /\ cuts' = {c2} \cup after
           /\ flushed' \in {c2} \cup after
           /\ lastCluster' # Nil =>
                /\ lastCluster'[1] \in {c2} \cup after
                /\ lastCluster'[1] < flushed'
                /\ \A i \in after : i > lastCluster'[1] => flushed' <= i
  <2>1. ids \in Streams
    BY DEF TypeOK
  <2> QED
    BY <1>3, <1>4, <1>6, <1>1, <2>1, EmitLeaves, WebmRelayAssumption
<1>8. /\ \A i \in ids : i > c2 /\ i + IDLen <= end <=> i \in after
      /\ \A i \in after : i \in ids /\ i > c2
  BY <1>1, <1>2, <1>5 DEF Found
<1> HIDE DEF after
<1>9. TypeOK'
  <2>1. keyframe' \in Slice /\ initHeader' \in Slice \cup {Nil}
    BY <1>2, <1>3, <1>6 DEF Slice, Copied
  <2>2. flushed' \in 0 .. end /\ cuts' \subseteq 1 .. end
    BY <1>2, <1>5, <1>6, <1>7
  <2> QED
    BY <1>1, <1>4, <1>7, <2>1, <2>2 DEF TypeOK
<1>10. PendingInv'
  <2>1. \A c \in cuts' : c <= flushed'
    BY <1>2, <1>5, <1>7
  <2> QED
    BY <1>4, <1>7, <2>1 DEF PendingInv
<1>11. NothingWithheld' /\ PendingBounded'
  <2>1. ASSUME NEW i \in Complete' PROVE i < flushed' + IDLen
    <3>1. i \in ids /\ i \in Int /\ i + IDLen <= end /\ flushed' \in Int
      BY <1>1, <1>2, <1>5, <1>7 DEF Found
    <3>2. ~(flushed' + IDLen <= i)
      BY <1>7, <3>1
    <3> QED
      BY <3>1, <3>2, CloseBehind
  <2> QED
    BY <1>1, <1>7, <2>1 DEF NothingWithheld, PendingBounded
<1>12. LateJoinerSeamless'
  BY <1>3, <1>7 DEF LateJoinerSeamless, Served
<1>13. ASSUME ~raw' PROVE IsLast(flushed', Complete')
  <2>1. /\ flushed' \in ids /\ flushed' \in Int /\ flushed' + IDLen <= end
        /\ 0 <= flushed'
    BY <1>1, <1>2, <1>5, <1>7, <1>8, <1>13
  <2>2. ASSUME NEW i \in ids, i + IDLen <= end, flushed' < i PROVE FALSE
    <3>1. flushed' + IDLen <= i
      BY <1>1, <2>1, <2>2
    <3> QED
      BY <1>7, <2>2, <3>1
  <2>3. flushed' \in Complete'
    BY <1>1, <2>1 DEF Found
  <2>4. \A i \in Complete' : i <= flushed'
    BY <1>1, <1>2, <2>1, <2>2 DEF Found
  <2> QED
    BY <2>3, <2>4
<1>14. BoundaryInv'
  BY <1>4, <1>13 DEF BoundaryInv
<1>15. ChunkingIndependent'
  <2> SUFFICES ASSUME ~raw'
               PROVE  cuts' = {c \in Complete' : \E d \in Complete' : d < c}
    BY <1>4, <1>7 DEF ChunkingIndependent
  <2>1. ASSUME NEW c \in cuts'
        PROVE  c \in Complete' /\ c1 \in Complete' /\ c1 < c
    <3>1. c \in {c2} \cup after
      BY <1>7, <2>1
    <3>2. /\ c \in ids /\ c \in Int /\ c + IDLen <= end /\ c2 <= c
      BY <1>1, <1>2, <1>5, <1>8, <3>1
    <3>3. c1 < c2 /\ c1 + IDLen <= end
      BY <1>2, <1>5
    <3>4. c1 < c
      BY <1>5, <3>2, <3>3
    <3>5. c \in Found(0, end) /\ c1 \in Found(0, end)
      BY <1>1, <1>5, <3>2, <3>3 DEF Found
    <3> QED
      BY <1>1, <3>4, <3>5
  <2>2. ASSUME NEW c \in Complete', NEW d \in Complete', d < c
        PROVE  c \in cuts'
    <3>1. c \in ids /\ d \in ids /\ c + IDLen <= end
      BY <1>1 DEF Found
    <3>2. c1 < c /\ ~(c < c2)
      BY <1>1, <1>5, <2>2, <3>1
    <3>3. c = c2 \/ c \in after
      BY <1>1, <1>5, <1>8, <3>1, <3>2
    <3> QED
      BY <1>7, <3>3
  <2> QED
    BY <2>1, <2>2
<1>16. LateJoinerGetsWholeCluster'
  <2>0. InitEnd' = c1 /\ keyframe'[2] = c2
    BY <1>3 DEF InitEnd, Copied
  <2> SUFFICES ASSUME ~raw'
               PROVE  /\ IsFirst(c1, ids)
                      /\ c1 \in ids /\ IsFirst(c2, {i \in ids : i > c1})
                      /\ lastCluster' # Nil =>
                           /\ lastCluster'[1] \in ids
                           /\ IsFirst(lastCluster'[2],
                                      {i \in ids : i > lastCluster'[1]})
    BY <1>1, <2>0 DEF LateJoinerGetsWholeCluster
  <2>1. IsFirst(c1, ids) /\ IsFirst(c2, {i \in ids : i > c1})
    BY <1>1, <1>5
  <2>2. ASSUME lastCluster' # Nil
        PROVE  /\ lastCluster'[1] \in ids
               /\ IsFirst(lastCluster'[2], {i \in ids : i > lastCluster'[1]})
    <3>0. /\ lastCluster'[2] = flushed' /\ lastCluster'[1] < flushed'
          /\ lastCluster'[1] \in {c2} \cup after /\ flushed' \in {c2} \cup after
      BY <1>7, <2>2
    <3>1. /\ lastCluster'[1] \in ids /\ lastCluster'[1] >= c2
          /\ lastCluster'[2] = flushed' /\ flushed' \in ids
          /\ lastCluster'[1] < flushed'
      <4>1. \A i \in {c2} \cup after : i \in ids /\ i >= c2
        BY <1>1, <1>5, <1>8
      <4> QED
        BY <3>0, <4>1
    <3>2. ASSUME NEW i \in ids, i > lastCluster'[1] PROVE flushed' <= i
      <4>0. i \in Int /\ flushed' \in Int /\ lastCluster'[1] \in Int
        BY <1>1, <3>1
      <4>1. i > c2 /\ flushed' + IDLen <= end
        BY <1>1, <1>2, <1>5, <1>8, <3>0, <3>1, <3>2, <4>0
      <4>2. CASE i + IDLen <= end
        BY <1>7, <1>8, <2>2, <3>2, <4>0, <4>1, <4>2
      <4>3. CASE ~(i + IDLen <= end)
        BY <1>2, <4>0, <4>1, <4>3
      <4> QED
        BY <4>2, <4>3
    <3> QED
      BY <3>1, <3>2
  <2> QED
    BY <2>1, <2>2
<1> QED
  BY <1>9, <1>10, <1>11, <1>12, <1>14, <1>15, <1>16

\* RelayClusters: Emit goes on where the last unit has ended.
LEMMA RelayClustersStep ==
  ASSUME RelayInv, NEW n \in 1 .. MaxChunk, RelayClusters(n)
  PROVE  RelayInv'
<1> USE DEF RelayInv
<1> DEFINE end == fed + n
           after == Found(flushed + IDLen, end)
<1>1. /\ end \in 0 .. MaxLen /\ fed' = end /\ ids' = ids /\ fed \in 0 .. end
      /\ ids \subseteq 0 .. MaxLen /\ \A i \in ids : i \in Int /\ 0 <= i
      /\ \A i, j \in ids : i < j => i + IDLen <= j
      /\ Complete' = Found(0, end) /\ Complete \subseteq Complete'
  BY CompleteGrows DEF RelayClusters
<1>2. /\ MaxLen \in Nat /\ MaxPending \in Nat /\ end \in Nat
      /\ fed \in Nat /\ fed <= end /\ end <= MaxLen
  BY <1>1, WebmRelayAssumption DEF WebmRelayAssumption, TypeOK
<1>3. /\ ready /\ ready' = ready /\ keyframe' = keyframe
      /\ initHeader' = initHeader /\ Emit(flushed, end)
  BY DEF RelayClusters
<1>4. /\ flushed \in cuts /\ cuts # {} /\ \A c \in cuts : c <= flushed
      /\ cuts \subseteq 1 .. fed /\ raw \in BOOLEAN
      /\ flushed \in 0 .. fed
  BY <1>3 DEF PendingInv, TypeOK
<1>5. /\ flushed \in Int /\ 1 <= flushed /\ flushed <= end
      /\ flushed \in 0 .. MaxLen
      /\ \A c \in cuts : c \in Int /\ 1 <= c
  BY <1>2, <1>4
<1>6. /\ flushed' \in flushed .. end
      /\ end - flushed' <= MaxPending
      /\ {flushed, flushed'} \subseteq cuts'
      /\ cuts' \subseteq cuts \cup (flushed .. flushed')
      /\ {i \in ids : flushed' + IDLen <= i /\ i + IDLen <= end} = {}
      /\ raw' \in {raw, TRUE}
      /\ \/ lastCluster' = lastCluster /\ flushed' = flushed
         \/ /\ lastCluster' \in Slice
            /\ lastCluster' # Nil
            /\ lastCluster'[2] = flushed'
      /\ ~raw' =>
           /\ ~raw
           /\ cuts' = cuts \cup {flushed} \cup after
           /\ flushed' \in {flushed} \cup after
           /\ lastCluster' # lastCluster =>
                /\ lastCluster'[1] \in {flushed} \cup after
                /\ lastCluster'[1] < flushed'
                /\ \A i \in after : i > lastCluster'[1] => flushed' <= i
  <2>1. ids \in Streams
    BY DEF TypeOK
  <2> QED
    BY <1>1, <1>3, <1>5, <2>1, EmitLeaves, WebmRelayAssumption
<1>7. /\ flushed' \in Int /\ flushed <= flushed' /\ flushed' <= end
      /\ \A c \in cuts' : c \in Int /\ 1 <= c /\ c <= flushed'
  BY <1>2, <1>4, <1>5, <1>6
<1>8. /\ \A i \in ids : flushed + IDLen <= i /\ i + IDLen <= end <=> i \in after
      /\ \A i \in after : i \in ids /\ i \in Int /\ flushed + IDLen <= i
  BY <1>1 DEF Found
<1> HIDE DEF after
<1>9. TypeOK'
  <2>1. flushed' \in 0 .. end /\ cuts' \subseteq 1 .. end
    BY <1>2, <1>5, <1>7
  <2>2. lastCluster' \in Slice \cup {Nil} /\ raw' \in BOOLEAN
    BY <1>4, <1>6 DEF TypeOK
  <2> QED
    BY <1>1, <1>3, <2>1, <2>2 DEF TypeOK
<1>10. PendingInv'
  BY <1>3, <1>6, <1>7 DEF PendingInv
<1>11. NothingWithheld' /\ PendingBounded'
  <2>1. ASSUME NEW i \in Complete' PROVE i < flushed' + IDLen
    <3>1. i \in ids /\ i \in Int /\ i + IDLen <= end
      BY <1>1 DEF Found
    <3>2. ~(flushed' + IDLen <= i)
      BY <1>6, <3>1
    <3> QED
      BY <1>7, <3>1, <3>2, CloseBehind
  <2> QED
    BY <1>1, <1>6, <2>1 DEF NothingWithheld, PendingBounded
<1>12. LateJoinerSeamless'
  <2>1. CASE lastCluster' = lastCluster /\ flushed' = flushed
    BY <1>3, <2>1 DEF LateJoinerSeamless, Served
  <2>2. CASE lastCluster' # Nil /\ lastCluster'[2] = flushed'
    BY <2>2 DEF LateJoinerSeamless, Served
  <2> QED
    BY <1>6, <2>1, <2>2
<1>13. ASSUME ~raw' PROVE ~raw /\ IsLast(flushed, Complete)
  BY <1>3, <1>6, <1>13 DEF BoundaryInv
<1>14. ASSUME ~raw' PROVE IsLast(flushed', Complete')
  <2>1. flushed \in ids
    BY <1>13, <1>14 DEF Complete
  <2>2. flushed' \in Complete'
    <3>1. CASE flushed' = flushed
      BY <1>1, <1>13, <1>14, <3>1
    <3>2. CASE flushed' \in after
      BY <1>1, <1>8, <3>2 DEF Found, after
    <3> QED
      BY <1>6, <1>14, <3>1, <3>2
  <2>3. ASSUME NEW i \in Complete', flushed' < i PROVE FALSE
    <3>1. /\ i \in ids /\ i \in Int /\ i + IDLen <= end
          /\ flushed' \in ids
      BY <1>1, <2>2 DEF Found
    <3>2. flushed' + IDLen <= i
      BY <1>1, <2>3, <3>1
    <3> QED
      BY <1>6, <3>1, <3>2
  <2>4. \A i \in Complete' : i \in Int
    BY <1>1 DEF Found
  <2> QED
    BY <1>7, <2>2, <2>3, <2>4
<1>15. BoundaryInv'
  BY <1>3, <1>14 DEF BoundaryInv
<1>16. ASSUME ~raw', NEW i \in Complete', i \notin Complete PROVE i \in after
  <2>1. /\ i \in ids /\ i \in Int /\ i + IDLen <= end /\ ~(i + IDLen <= fed)
    BY <1>1, <1>16 DEF Found, Complete
  <2>2. flushed \in ids /\ flushed + IDLen <= fed
    BY <1>13, <1>16 DEF Complete
  <2>3. flushed < i
    BY <1>2, <1>5, <2>1, <2>2
  <2> QED
    BY <1>1, <1>8, <2>1, <2>2, <2>3
<1>17. ChunkingIndependent'
  <2> SUFFICES ASSUME ~raw'
               PROVE  cuts' = {c \in Complete' : \E d \in Complete' : d < c}
    <3>1. cuts' # {} /\ ready'
      BY <1>3, <1>6
    <3> QED
      BY <3>1 DEF ChunkingIndependent
  <2>1. /\ cuts' = cuts \cup after
        /\ cuts = {c \in Complete : \E d \in Complete : d < c}
    BY <1>4, <1>6, <1>13 DEF ChunkingIndependent
  <2>2. ASSUME NEW c \in cuts'
        PROVE  c \in Complete' /\ \E d \in Complete' : d < c
    <3>1. CASE c \in cuts
      BY <1>1, <2>1, <3>1
    <3>2. CASE c \in after
      <4>1. c \in Complete' /\ flushed \in Complete'
        BY <1>1, <1>8, <1>13, <3>2 DEF Found, after
      <4>2. flushed < c
        BY <1>5, <1>8, <3>2
      <4> QED
        BY <4>1, <4>2
    <3> QED
      BY <2>1, <2>2, <3>1, <3>2
  <2>3. ASSUME NEW c \in Complete', NEW d \in Complete', d < c
        PROVE  c \in cuts'
    <3>1. CASE c \in after
      BY <2>1, <3>1
    <3>2. CASE c \notin after
      <4>1. c \in Complete /\ c \in ids /\ c + IDLen <= fed
        BY <1>16, <3>2 DEF Complete
      <4>2. d \in ids /\ d \in Int /\ c \in Int
        BY <1>1, <4>1 DEF Found
      <4>3. d + IDLen <= fed
        BY <1>2, <2>3, <4>1, <4>2
      <4>4. d \in Complete
        BY <4>2, <4>3 DEF Complete
      <4> QED
        BY <2>1, <2>3, <4>1, <4>4
    <3> QED
      BY <3>1, <3>2
  <2> QED
    BY <2>2, <2>3
<1>18. LateJoinerGetsWholeCluster'
  <2> SUFFICES ASSUME ~raw' PROVE LateJoinerGetsWholeCluster'
    BY DEF LateJoinerGetsWholeCluster
  <2>1. CASE lastCluster' = lastCluster
    BY <1>1, <1>3, <1>13, <2>1 DEF LateJoinerGetsWholeCluster, InitEnd
  <2>2. CASE lastCluster' # lastCluster
    <3>1. /\ lastCluster' # Nil /\ lastCluster'[2] = flushed'
          /\ lastCluster'[1] \in {flushed} \cup after
          /\ flushed' \in {flushed} \cup after
          /\ lastCluster'[1] < flushed'
          /\ \A i \in after : i > lastCluster'[1] => flushed' <= i
      BY <1>6, <2>2
    <3>2. \A i \in {flushed} \cup after : i \in ids /\ i >= flushed /\ i \in Int
      BY <1>5, <1>8, <1>13 DEF Complete
    <3>3. ASSUME NEW i \in ids, i > lastCluster'[1] PROVE flushed' <= i
      <4>1. /\ i \in Int /\ lastCluster'[1] \in Int /\ lastCluster'[1] >= flushed
            /\ flushed \in ids
        BY <1>1, <3>1, <3>2
      <4>2. flushed < i
        BY <1>5, <3>3, <4>1
      <4>3. flushed + IDLen <= i
        BY <1>1, <4>1, <4>2
      <4>4. CASE i + IDLen <= end
        BY <1>8, <3>1, <3>3, <4>3, <4>4
      <4>5. CASE ~(i + IDLen <= end)
        <5>1. flushed' + IDLen <= end
          BY <1>1, <1>14 DEF Found
        <5>2. end \in Int /\ flushed' \in Int /\ i \in Int
          BY <1>2, <1>7, <4>1
        <5> QED
          BY <4>5, <5>1, <5>2, OrderOfIDs
      <4> QED
        BY <4>4, <4>5
    <3>4. IsFirst(lastCluster'[2], {i \in ids : i > lastCluster'[1]})
      BY <3>1, <3>2, <3>3
    <3>5. IsFirst(InitEnd, ids)
      BY <1>3, <1>13 DEF LateJoinerGetsWholeCluster
    <3>6. InitEnd' = InitEnd
      BY <1>3 DEF InitEnd
    <3>7. CASE initHeader = Nil
      <4>1. /\ <<InitEnd, keyframe[2]>>[1] \in ids
            /\ IsFirst(<<InitEnd, keyframe[2]>>[2],
                       {i \in ids : i > <<InitEnd, keyframe[2]>>[1]})
        BY <1>3, <1>13, <3>7 DEF LateJoinerGetsWholeCluster
      <4> QED
        BY <1>1, <1>3, <3>5, <3>6, <3>7, <4>1 DEF LateJoinerGetsWholeCluster
    <3>8. CASE initHeader # Nil
      BY <1>1, <1>3, <3>1, <3>2, <3>4, <3>5, <3>6, <3>8
         DEF LateJoinerGetsWholeCluster
    <3> QED
      BY <3>7, <3>8
  <2> QED
    BY <2>1, <2>2
<1> QED
  BY <1>9, <1>10, <1>11, <1>12, <1>15, <1>17, <1>18

-----------------------------------------------------------------------------
(* The theorems                                                            *)

\* Every call of feed preserves RelayInv.
LEMMA StepRelayInv == RelayInv /\ [Next]_vars => RelayInv'
<1> SUFFICES ASSUME RelayInv, [Next]_vars PROVE RelayInv'
  OBVIOUS
<1>1. ASSUME NEW n \in 1 .. MaxChunk, Feed(n) PROVE RelayInv'
  BY <1>1, HoldStep, FlushRawKeyframeStep, FinalizeKeyframeStep,
     RelayClustersStep DEF Feed
<1>2. CASE UNCHANGED vars
  BY <1>2
     DEF vars, RelayInv, TypeOK, PendingInv, BoundaryInv, Complete, Found,
         ChunkingIndependent, NothingWithheld, PendingBounded,
         LateJoinerSeamless, Served, LateJoinerGetsWholeCluster, InitEnd
<1> QED
  BY <1>1, <1>2 DEF Next

\* RelayInv holds after any number of messages.
THEOREM RelayInvariance == Spec => []RelayInv
  BY InitRelayInv, StepRelayInv, PTL DEF Spec

\* The relay's offsets are always offsets of bytes it has received.
THEOREM RelayTypeCorrect == Spec => []TypeOK
<1>1. RelayInv => TypeOK
  BY DEF RelayInv
<1> QED
  BY <1>1, RelayInvariance, PTL

\* However the browser's stream is cut into messages, the units are the same:
\* the keyframe and then one unit per Cluster.
THEOREM UnitsIndependentOfChunking == Spec => []ChunkingIndependent
<1>1. RelayInv => ChunkingIndependent
  BY DEF RelayInv
<1> QED
  BY <1>1, RelayInvariance, PTL

\* No complete Cluster waits in f.pending once the keyframe is out.
THEOREM NoClusterWithheld == Spec => []NothingWithheld
<1>1. RelayInv => NothingWithheld
  BY DEF RelayInv
<1> QED
  BY <1>1, RelayInvariance, PTL

\* The relay of one publisher never holds more than maxPending bytes.
THEOREM MemoryBounded == Spec => []PendingBounded
<1>1. RelayInv => PendingBounded
  BY DEF RelayInv
<1> QED
  BY <1>1, RelayInvariance, PTL

\* What a late joiner of a stream with an init gets is followed by the next
\* unit without gap or overlap.
THEOREM LateJoinSeamless == Spec => []LateJoinerSeamless
<1>1. RelayInv => LateJoinerSeamless
  BY DEF RelayInv
<1> QED
  BY <1>1, RelayInvariance, PTL

\* Unless a safety valve has fired a late joiner gets the init and one whole
\* Cluster: of a stream with an init the last one, of one without the first.
THEOREM LateJoinWholeCluster == Spec => []LateJoinerGetsWholeCluster
<1>1. RelayInv => LateJoinerGetsWholeCluster
  BY DEF RelayInv
<1> QED
  BY <1>1, RelayInvariance, PTL
=============================================================================
