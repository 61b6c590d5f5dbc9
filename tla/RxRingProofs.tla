---------------------------- MODULE RxRingProofs ----------------------------
(***************************************************************************)
(* Theorems about RxRing, for every ring size, every set of packets and    *)
(* every number of frames kept.                                            *)
(***************************************************************************)
EXTENDS RxRing, RingIndexTheorems, SequenceTheorems

\* The slots that a receive call makes frames of.
LEMMA SlotsFromType ==
  ASSUME NEW i \in Slots, NEW n \in 0 .. NumSlots
  PROVE  /\ SlotsFrom(i, n) \in Seq(Slots)
         /\ Len(SlotsFrom(i, n)) = n
         /\ \A k \in 1 .. n : SlotsFrom(i, n)[k] = Wrap(i + k - 1)
<1>1. n \in Nat /\ \A k \in 1 .. n : k - 1 \in 0 .. NumSlots /\ i + k - 1 = i + (k - 1)
  BY NumSlotsAssumption DEF Slots
<1>2. \A k \in 1 .. n : Wrap(i + k - 1) \in Slots
  BY <1>1, IndexInSlots
<1>3. SlotsFrom(i, n) \in [1 .. n -> Slots]
  BY <1>2 DEF SlotsFrom
<1>4. SlotsFrom(i, n) \in Seq(Slots)
  BY <1>1, <1>3, SeqDef
<1> QED
  BY <1>1, <1>3, <1>4, LenProperties DEF SlotsFrom

LEMMA CountType ==
  ASSUME RxTypeOK, NEW len \in 0 .. NumSlots
  PROVE  /\ Space(head, tail) \in 0 .. NumSlots - 1
         /\ (IF Space(head, tail) <= len THEN Space(head, tail) ELSE len)
              \in 0 .. Space(head, tail)
<1>1. Space(head, tail) \in 0 .. NumSlots - 1
  BY SpaceType DEF RxTypeOK
<1> QED
  BY <1>1

(***************************************************************************)
(* Every variable keeps its type.                                          *)
(***************************************************************************)
THEOREM TypeCorrect == Spec => []RxTypeOK
<1>1. Init => RxTypeOK
  BY NumSlotsAssumption DEF Init, RxTypeOK, Slots
<1>2. RxTypeOK /\ [Next]_vars => RxTypeOK'
  <2> SUFFICES ASSUME RxTypeOK, [Next]_vars PROVE RxTypeOK'
    OBVIOUS
  <2> USE DEF RxTypeOK
  <2>1. ASSUME NEW p \in Packets, Arrive(p) PROVE RxTypeOK'
    BY <2>1, IndexInSlots DEF Arrive, ring
  <2>2. CASE Recv
    <3>1. <<head>> \in Seq(Slots) /\ <<>> \in Seq(Slots)
      OBVIOUS
    <3>2. NextIndex(head) \in Slots
      BY IndexInSlots
    <3>3. 0 \in 0 .. NumSlots /\ 1 \in 0 .. NumSlots
      BY NumSlotsAssumption
    <3>4. CASE single' = <<>> /\ result' = 0 /\ UNCHANGED <<head, cur>>
      BY <2>2, <3>1, <3>3, <3>4 DEF Recv, kernel
    <3>5. CASE single' = <<head>> /\ result' = 1 /\ Release(NextIndex(head))
      BY <2>2, <3>1, <3>2, <3>3, <3>5 DEF Recv, Release, kernel
    <3> QED
      BY <2>2, <3>4, <3>5 DEF Recv
  <2>3. ASSUME NEW len \in 0 .. NumSlots, RecvBatch(len) PROVE RxTypeOK'
    <3> DEFINE avail == Space(head, tail)
               count == IF avail <= len THEN avail ELSE len
    <3>1. count \in 0 .. NumSlots
      BY CountType, NumSlotsAssumption
    <3>2. SlotsFrom(head, count) \in Seq(Slots) /\ <<>> \in Seq(Slots)
      BY <3>1, SlotsFromType
    <3>3. batch \o SlotsFrom(head, count) \in Seq(Slots)
      BY <3>2, ConcatProperties
    <3>4. Wrap(head + count) \in Slots
      BY <3>1, IndexInSlots
    <3> QED
      BY <2>3, <3>1, <3>2, <3>3, <3>4 DEF RecvBatch, Release, kernel
  <2>4. CASE Sync
    BY <2>4, NumSlotsAssumption DEF Sync, RxSync
  <2>5. CASE Drop
    <3>1. <<>> \in Seq(Slots)
      OBVIOUS
    <3> QED
      BY <2>5, <3>1 DEF Drop, ring, kernel
  <2>6. CASE UNCHANGED vars
    BY <2>6 DEF vars, ring, kernel
  <2> QED
    BY <2>1, <2>2, <2>3, <2>4, <2>5, <2>6 DEF Next
<1> QED
  BY <1>1, <1>2, PTL DEF Spec

(***************************************************************************)
(* The indices keep their order, whatever the caller does.                 *)
(***************************************************************************)

\* The way from the first slot not taken back to the first not filled, in one
\* piece.
LEMMA OneTurn ==
  ASSUME RxTypeOK, CircularOrder
  PROVE  /\ Space(hwcur, tail) = Space(hwcur, head) + Space(head, tail)
         /\ Space(head, hwtail) = Space(head, tail) + Space(tail, hwtail)
         /\ Space(hwcur, hwtail) = Space(hwcur, head) + Space(head, hwtail)
         /\ \A i, j \in {hwcur, head, tail, hwtail} : Space(i, j) \in 0 .. NumSlots - 1
<1>1. \A i, j \in {hwcur, head, tail, hwtail} : Space(i, j) \in 0 .. NumSlots - 1
  BY SpaceType DEF RxTypeOK
<1>2. /\ Space(hwcur, head) \in Nat /\ Space(head, tail) \in Nat
      /\ Space(tail, hwtail) \in Nat
      /\ Space(hwcur, head) + Space(head, tail) + Space(tail, hwtail) < NumSlots
  BY <1>1 DEF CircularOrder
<1>3. /\ Space(hwcur, head) + Space(head, tail) < NumSlots
      /\ Space(head, tail) + Space(tail, hwtail) < NumSlots
  BY <1>2, NumSlotsAssumption
<1>4. Space(hwcur, tail) = Space(hwcur, head) + Space(head, tail)
  BY <1>3, SpaceAdds DEF RxTypeOK
<1>5. Space(head, hwtail) = Space(head, tail) + Space(tail, hwtail)
  BY <1>3, SpaceAdds DEF RxTypeOK
<1>6. Space(hwcur, head) + Space(head, hwtail) < NumSlots
  BY <1>2, <1>5, NumSlotsAssumption
<1>7. Space(hwcur, hwtail) = Space(hwcur, head) + Space(head, hwtail)
  BY <1>6, SpaceAdds DEF RxTypeOK
<1> QED
  BY <1>1, <1>4, <1>5, <1>7

\* Moving head n slots on, up to tail, keeps the order of the indices.
LEMMA HeadAdvances ==
  ASSUME RxTypeOK, CircularOrder, NEW n \in 0 .. Space(head, tail),
         head' = Wrap(head + n), UNCHANGED <<tail, hwcur, hwtail>>
  PROVE  CircularOrder' /\ Space(hwcur, head') = Space(hwcur, head) + n
<1>1. head \in Slots /\ tail \in Slots /\ hwcur \in Slots
      /\ Space(head, tail) \in 0 .. NumSlots - 1
  BY SpaceType DEF RxTypeOK
<1>2. n \in 0 .. NumSlots - 1
  BY <1>1, NumSlotsAssumption
<1>3. head' \in Slots /\ Space(head, head') = n
  BY <1>1, <1>2, SpaceOfWrap, IndexInSlots, NumSlotsAssumption
<1>4. Space(head', tail) = Space(head, tail) - n
  BY <1>1, SpaceAfterWrap
<1>5. Space(hwcur, head) \in Nat /\ Space(hwcur, head) + n < NumSlots
  <2>1. /\ Space(hwcur, head) \in 0 .. NumSlots - 1
        /\ Space(hwcur, tail) \in 0 .. NumSlots - 1
    BY <1>1, SpaceType
  <2>2. Space(hwcur, tail) = Space(hwcur, head) + Space(head, tail)
    BY OneTurn
  <2> QED
    BY <1>1, <2>1, <2>2, NumSlotsAssumption
<1>6. Space(hwcur, head') = Space(hwcur, head) + n
  BY <1>1, <1>3, <1>5, SpaceAdds
<1> QED
  BY <1>1, <1>4, <1>5, <1>6, OneTurn, NumSlotsAssumption DEF CircularOrder

LEMMA OwnershipStep ==
  ASSUME RxTypeOK, RxTypeOK', RxOwnership, [Next]_vars
  PROVE  RxOwnership'
<1> USE DEF RxOwnership, CursorsAgree
<1>1. ASSUME NEW p \in Packets, Arrive(p) PROVE RxOwnership'
  <2>1. hwcur \in Slots /\ hwtail \in Slots /\ NextIndex(hwtail) # hwcur
    BY <1>1 DEF Arrive, RxTypeOK
  <2>2. Space(hwcur, hwtail) < NumSlots - 1
    BY <2>1, SpaceForOne
  <2>3. Space(tail, hwtail) < NumSlots - 1 /\ Space(tail, hwtail) \in Nat
    BY <2>2, OneTurn, NumSlotsAssumption
  <2>4. Space(tail, NextIndex(hwtail)) = Space(tail, hwtail) + 1
    BY <2>3, NumSlotsAssumption DEF Space, RxTypeOK, Slots, NextIndex
  <2> QED
    BY <1>1, <2>2, <2>4, OneTurn, NumSlotsAssumption DEF Arrive, ring, CircularOrder
<1>2. CASE Recv
  <2>1. CASE UNCHANGED <<head, cur>>
    BY <1>2, <2>1 DEF Recv, kernel, CircularOrder
  <2>2. CASE head # tail /\ Release(NextIndex(head))
    <3>1. 1 \in 0 .. Space(head, tail)
      BY <2>2, NumSlotsAssumption DEF Space, RxTypeOK, Slots
    <3>2. head' = Wrap(head + 1) /\ cur' = head'
      BY <2>2, NextIsWrap DEF Release, RxTypeOK
    <3> QED
      BY <1>2, <3>1, <3>2, HeadAdvances DEF Recv, kernel
  <2> QED
    BY <1>2, <2>1, <2>2 DEF Recv
<1>3. ASSUME NEW len \in 0 .. NumSlots, RecvBatch(len) PROVE RxOwnership'
  <2> DEFINE count == IF Space(head, tail) <= len THEN Space(head, tail) ELSE len
  <2>1. count \in 0 .. Space(head, tail)
    BY CountType
  <2>2. CASE UNCHANGED <<head, cur>>
    BY <1>3, <2>2 DEF RecvBatch, kernel, CircularOrder
  <2>3. CASE Release(Wrap(head + count))
    BY <1>3, <2>1, <2>3, HeadAdvances DEF RecvBatch, Release, kernel
  <2> QED
    BY <1>3, <2>2, <2>3 DEF RecvBatch
<1>4. CASE Sync
  <2>1. CASE UNCHANGED <<hwcur, tail>>
    BY <1>4, <2>1 DEF Sync, CircularOrder
  <2>2. CASE RxSync
    <3>1. hwcur' = head /\ tail' = hwtail
      BY <2>2, OneTurn DEF RxSync
    <3>2. Space(head, head) = 0 /\ Space(hwtail, hwtail) = 0
      BY DEF Space, RxTypeOK, Slots
    <3> QED
      BY <1>4, <3>1, <3>2, OneTurn, NumSlotsAssumption DEF Sync, CircularOrder
  <2> QED
    BY <1>4, <2>1, <2>2 DEF Sync
<1>5. CASE Drop
  BY <1>5 DEF Drop, ring, kernel, CircularOrder
<1>6. CASE UNCHANGED vars
  BY <1>6 DEF vars, ring, kernel, CircularOrder
<1> QED
  BY <1>1, <1>2, <1>3, <1>4, <1>5, <1>6 DEF Next

THEOREM OwnershipInvariant == Spec => []RxOwnership
<1>1. Init => RxOwnership
  BY NumSlotsAssumption DEF Init, RxOwnership, CircularOrder, CursorsAgree, Space
<1>2. RxTypeOK /\ RxTypeOK' /\ RxOwnership /\ [Next]_vars => RxOwnership'
  BY OwnershipStep
<1> QED
  BY <1>1, <1>2, TypeCorrect, PTL DEF Spec

(***************************************************************************)
(* A caller who drops its frames before a sync sees them unchanged.        *)
(***************************************************************************)

\* What holds of every slot of two lists of frames holds of the joined list.
LEMMA WithinJoined ==
  ASSUME NEW s \in Seq(Slots), NEW t \in Seq(Slots), NEW i, NEW j
  PROVE  ShowsWithin(s \o t, i, j) <=> ShowsWithin(s, i, j) /\ ShowsWithin(t, i, j)
<1>1. /\ Len(s) \in Nat /\ Len(t) \in Nat /\ Len(s \o t) = Len(s) + Len(t)
      /\ \A k \in 1 .. Len(s) + Len(t) :
           (s \o t)[k] = IF k <= Len(s) THEN s[k] ELSE t[k - Len(s)]
  BY ConcatProperties, LenProperties
<1>2. ASSUME ShowsWithin(s \o t, i, j)
      PROVE  ShowsWithin(s, i, j) /\ ShowsWithin(t, i, j)
  <2>1. ASSUME NEW k \in 1 .. Len(s) PROVE Space(i, s[k]) < Space(i, j)
    <3>1. k \in 1 .. Len(s \o t) /\ (s \o t)[k] = s[k]
      BY <1>1
    <3> QED
      BY <1>2, <3>1 DEF ShowsWithin
  <2>2. ASSUME NEW k \in 1 .. Len(t) PROVE Space(i, t[k]) < Space(i, j)
    <3>1. k + Len(s) \in 1 .. Len(s \o t) /\ (s \o t)[k + Len(s)] = t[k]
      BY <1>1
    <3> QED
      BY <1>2, <3>1 DEF ShowsWithin
  <2> QED
    BY <2>1, <2>2 DEF ShowsWithin
<1>3. ASSUME ShowsWithin(s, i, j), ShowsWithin(t, i, j), NEW k \in 1 .. Len(s \o t)
      PROVE  Space(i, (s \o t)[k]) < Space(i, j)
  <2>1. CASE k <= Len(s)
    BY <1>1, <1>3, <2>1 DEF ShowsWithin
  <2>2. CASE ~ (k <= Len(s))
    <3>1. k - Len(s) \in 1 .. Len(t) /\ (s \o t)[k] = t[k - Len(s)]
      BY <1>1, <2>2
    <3> QED
      BY <1>3, <3>1 DEF ShowsWithin
  <2> QED
    BY <2>1, <2>2
<1> QED
  BY <1>2, <1>3 DEF ShowsWithin

\* Moving head n slots on releases these n slots and takes back none.
LEMMA ReleaseMore ==
  ASSUME RxTypeOK, CircularOrder, NEW n \in 0 .. Space(head, tail),
         head' = Wrap(head + n), UNCHANGED <<tail, hwcur, hwtail>>
  PROVE  /\ \A s \in Seq(Slots) :
              ShowsWithin(s, hwcur, head) => ShowsWithin(s, hwcur, head')
         /\ ShowsWithin(SlotsFrom(head, n), hwcur, head')
<1>1. /\ Space(hwcur, head') = Space(hwcur, head) + n
      /\ Space(hwcur, head) \in 0 .. NumSlots - 1
      /\ Space(head, tail) \in 0 .. NumSlots - 1
  BY HeadAdvances, SpaceType DEF RxTypeOK
<1>2. ASSUME NEW s \in Seq(Slots), ShowsWithin(s, hwcur, head)
      PROVE  ShowsWithin(s, hwcur, head')
  <2>1. \A k \in 1 .. Len(s) : Space(hwcur, s[k]) \in 0 .. NumSlots - 1
    BY SpaceType, ElementOfSeq DEF RxTypeOK
  <2> QED
    BY <1>1, <1>2, <2>1 DEF ShowsWithin
<1>3. ASSUME NEW k \in 1 .. n
      PROVE  Space(hwcur, Wrap(head + k - 1)) < Space(hwcur, head')
  <2>1. k - 1 \in 0 .. NumSlots - 1 /\ head + k - 1 = head + (k - 1)
    BY <1>1, NumSlotsAssumption DEF RxTypeOK, Slots
  <2>2. Wrap(head + k - 1) \in Slots /\ Space(head, Wrap(head + k - 1)) = k - 1
    BY <2>1, IndexInSlots, SpaceOfWrap, NumSlotsAssumption DEF RxTypeOK
  <2>3. /\ Space(hwcur, tail) = Space(hwcur, head) + Space(head, tail)
        /\ Space(hwcur, tail) \in 0 .. NumSlots - 1
    BY OneTurn, SpaceType DEF RxTypeOK
  <2>4. Space(hwcur, Wrap(head + k - 1)) = Space(hwcur, head) + (k - 1)
    BY <1>1, <2>1, <2>2, <2>3, SpaceAdds, NumSlotsAssumption DEF RxTypeOK
  <2> QED
    BY <1>1, <2>1, <2>4
<1>4. n \in 0 .. NumSlots
  BY <1>1, NumSlotsAssumption
<1>5. /\ Len(SlotsFrom(head, n)) = n
      /\ \A k \in 1 .. n : SlotsFrom(head, n)[k] = Wrap(head + k - 1)
  BY <1>4, SlotsFromType DEF RxTypeOK
<1> QED
  BY <1>2, <1>3, <1>5 DEF ShowsWithin

LEMMA FramesStep ==
  ASSUME DropsFrames, RxTypeOK, RxTypeOK', RxOwnership, FramesReleased, [Next]_vars
  PROVE  FramesReleased'
<1> USE DEF FramesReleased, RxOwnership
<1>1. /\ batch \in Seq(Slots) /\ single \in Seq(Slots)
      /\ batch' \in Seq(Slots) /\ single' \in Seq(Slots)
  BY DEF RxTypeOK
<1>2. ShowsWithin(batch, hwcur, head) /\ ShowsWithin(single, hwcur, head)
  BY <1>1, WithinJoined DEF frames
<1>3. SUFFICES ShowsWithin(batch', hwcur', head') /\ ShowsWithin(single', hwcur', head')
  BY <1>1, WithinJoined DEF frames
<1>4. \A i, j : ShowsWithin(<<>>, i, j)
  BY DEF ShowsWithin
<1>5. CASE Recv
  <2>1. CASE single' = <<>> /\ UNCHANGED <<head, cur>>
    BY <1>2, <1>4, <1>5, <2>1 DEF Recv, kernel
  <2>2. CASE head # tail /\ single' = <<head>> /\ Release(NextIndex(head))
    <3>1. 1 \in 0 .. Space(head, tail)
      BY <2>2, NumSlotsAssumption DEF Space, RxTypeOK, Slots
    <3>2. head' = Wrap(head + 1)
      BY <2>2, NextIsWrap DEF Release, RxTypeOK
    <3>3. ShowsWithin(batch, hwcur, head') /\ ShowsWithin(SlotsFrom(head, 1), hwcur, head')
      BY <1>1, <1>2, <1>5, <3>1, <3>2, ReleaseMore DEF Recv, kernel
    <3>4. head \in Slots /\ Wrap(head + 1 - 1) = head /\ 1 \in 0 .. NumSlots
      BY NumSlotsAssumption, WrapOneTurn DEF RxTypeOK, Slots
    <3>5. Len(SlotsFrom(head, 1)) = 1 /\ SlotsFrom(head, 1)[1] = head
      <4>1. 1 \in 1 .. 1
        OBVIOUS
      <4>2. SlotsFrom(head, 1)[1] = Wrap(head + 1 - 1)
        BY <3>4, <4>1, SlotsFromType
      <4> QED
        BY <3>4, <4>2, SlotsFromType
    <3>6. Space(hwcur, head) < Space(hwcur, head')
      BY <3>3, <3>5 DEF ShowsWithin
    <3>7. ShowsWithin(<<head>>, hwcur, head')
      BY <3>6 DEF ShowsWithin
    <3> QED
      BY <1>5, <2>2, <3>3, <3>7 DEF Recv, kernel
  <2> QED
    BY <1>5, <2>1, <2>2 DEF Recv
<1>6. ASSUME NEW len \in 0 .. NumSlots, RecvBatch(len)
      PROVE  ShowsWithin(batch', hwcur', head') /\ ShowsWithin(single', hwcur', head')
  <2> DEFINE count == IF Space(head, tail) <= len THEN Space(head, tail) ELSE len
  <2>1. count \in 0 .. Space(head, tail) /\ count \in 0 .. NumSlots
    BY CountType, NumSlotsAssumption
  <2>2. head' = Wrap(head + count) /\ UNCHANGED <<tail, hwcur, hwtail>>
    <3>1. CASE count = 0 /\ UNCHANGED <<head, cur>>
      <4>1. Wrap(head + 0) = head
        BY WrapOneTurn, NumSlotsAssumption DEF RxTypeOK, Slots
      <4> QED
        BY <1>6, <3>1, <4>1 DEF RecvBatch, kernel
    <3>2. CASE count # 0 /\ Release(Wrap(head + count))
      BY <1>6, <3>2 DEF RecvBatch, kernel, Release
    <3> QED
      BY <1>6, <3>1, <3>2 DEF RecvBatch
  <2>3. /\ ShowsWithin(batch, hwcur, head')
        /\ ShowsWithin(SlotsFrom(head, count), hwcur, head')
    BY <1>1, <1>2, <2>1, <2>2, ReleaseMore
  <2>4. SlotsFrom(head, count) \in Seq(Slots)
    BY <2>1, SlotsFromType DEF RxTypeOK
  <2>5. ShowsWithin(batch \o SlotsFrom(head, count), hwcur, head')
    BY <1>1, <2>3, <2>4, WithinJoined
  <2> QED
    BY <1>4, <1>6, <2>2, <2>5 DEF RecvBatch
<1>7. CASE frames = <<>> /\ Sync
  <2>1. batch' = <<>> /\ single' = <<>>
    BY <1>1, <1>7, ConcatEqualIffEmpty DEF Sync, frames
  <2> QED
    BY <1>4, <2>1
<1>8. CASE Drop
  BY <1>4, <1>8 DEF Drop
<1>9. ASSUME UNCHANGED <<batch, single, hwcur, head>>
      PROVE  ShowsWithin(batch', hwcur', head') /\ ShowsWithin(single', hwcur', head')
  BY <1>2, <1>9
<1> QED
  BY <1>5, <1>6, <1>7, <1>8, <1>9 DEF Next, Arrive, ring, kernel, vars

THEOREM FramesStayReleased ==
  ASSUME DropsFrames
  PROVE  Spec => []FramesReleased
<1>1. Init => FramesReleased
  BY DEF Init, FramesReleased, ShowsWithin, frames
<1>2. RxTypeOK /\ RxTypeOK' /\ RxOwnership /\ FramesReleased /\ [Next]_vars
        => FramesReleased'
  BY FramesStep
<1> QED
  BY <1>1, <1>2, TypeCorrect, OwnershipInvariant, PTL DEF Spec

\* No frame shows the slot that the device fills next.
LEMMA FramesNotFilled ==
  ASSUME RxTypeOK, RxOwnership, FramesReleased
  PROVE  \A k \in 1 .. Len(frames) : frames[k] \in Slots \ {hwtail}
<1> SUFFICES ASSUME NEW k \in 1 .. Len(frames)
             PROVE  frames[k] \in Slots \ {hwtail}
  OBVIOUS
<1>1. frames \in Seq(Slots)
  BY ConcatProperties DEF RxTypeOK, frames
<1>2. frames[k] \in Slots
  BY <1>1, ElementOfSeq
<1>3. Space(hwcur, frames[k]) < Space(hwcur, head)
  BY DEF FramesReleased, ShowsWithin
<1>4. /\ Space(hwcur, hwtail) = Space(hwcur, head) + Space(head, hwtail)
      /\ Space(hwcur, head) \in Nat /\ Space(head, hwtail) \in Nat
  BY OneTurn DEF RxOwnership
<1> QED
  BY <1>2, <1>3, <1>4

\* What a frame shows does not change as long as the caller keeps the frame,
\* provided that it keeps none across a sync: the device stores only in slots
\* from hwtail on, and the frames' slots lie before head.
THEOREM HeldFramesDoNotChange ==
  ASSUME DropsFrames
  PROVE  Spec => HeldFramesStable
<1> DEFINE Stable == \A k \in 1 .. Len(frames) : slot'[frames[k]] = slot[frames[k]]
<1>1. RxTypeOK /\ RxOwnership /\ FramesReleased /\ [Next]_vars => Stable
  <2> SUFFICES ASSUME RxTypeOK, RxOwnership, FramesReleased, [Next]_vars PROVE Stable
    OBVIOUS
  <2>1. ASSUME NEW p \in Packets, Arrive(p) PROVE Stable
    BY <2>1, FramesNotFilled DEF Arrive, RxTypeOK
  <2>2. CASE UNCHANGED slot
    BY <2>2
  <2> QED
    BY <2>1, <2>2 DEF Next, Recv, RecvBatch, Sync, Drop, vars
<1> QED
  BY <1>1, TypeCorrect, OwnershipInvariant, FramesStayReleased, PTL
  DEF Spec, HeldFramesStable

(***************************************************************************)
(* The ring of a caller who drops its frames before a sync implements the  *)
(* bounded queue of RxQueue: the slots from head to hwtail are the queue,  *)
(* what the frames show the views.                                         *)
(***************************************************************************)

\* What s holds in the slots of q.
Shown(s, q) == [k \in 1 .. Len(q) |-> s[q[k]]]

LEMMA ShownType ==
  ASSUME NEW S, NEW s \in [Slots -> S], NEW q \in Seq(Slots)
  PROVE  /\ Shown(s, q) \in Seq(S) /\ Len(Shown(s, q)) = Len(q)
         /\ \A k \in 1 .. Len(q) : Shown(s, q)[k] = s[q[k]]
<1>1. Len(q) \in Nat /\ \A k \in 1 .. Len(q) : q[k] \in Slots
  BY LenProperties, ElementOfSeq
<1>2. Shown(s, q) \in [1 .. Len(q) -> S]
  BY <1>1 DEF Shown
<1>3. Shown(s, q) \in Seq(S)
  BY <1>1, <1>2, SeqDef
<1> QED
  BY <1>1, <1>2, <1>3, LenProperties DEF Shown

LEMMA ShownConcat ==
  ASSUME NEW S, NEW s \in [Slots -> S], NEW q \in Seq(Slots), NEW r \in Seq(Slots)
  PROVE  Shown(s, q \o r) = Shown(s, q) \o Shown(s, r)
<1> DEFINE t == Shown(s, q \o r)
           u == Shown(s, q)
           v == Shown(s, r)
<1>1. /\ Len(q) \in Nat /\ Len(r) \in Nat
      /\ q \o r \in Seq(Slots) /\ Len(q \o r) = Len(q) + Len(r)
      /\ \A k \in 1 .. Len(q) + Len(r) :
           (q \o r)[k] = IF k <= Len(q) THEN q[k] ELSE r[k - Len(q)]
  BY LenProperties, ConcatProperties
<1>2. /\ t \in Seq(S) /\ Len(t) = Len(q) + Len(r)
      /\ \A k \in 1 .. Len(q) + Len(r) : t[k] = s[(q \o r)[k]]
  <2>1. PICK p \in Seq(Slots) : p = q \o r
    BY <1>1
  <2>2. /\ Shown(s, p) \in Seq(S) /\ Len(Shown(s, p)) = Len(p)
        /\ \A k \in 1 .. Len(p) : Shown(s, p)[k] = s[p[k]]
    BY ShownType
  <2> QED
    BY <1>1, <2>1, <2>2
<1>3. u \in Seq(S) /\ Len(u) = Len(q) /\ \A k \in 1 .. Len(q) : u[k] = s[q[k]]
  BY ShownType
<1>4. v \in Seq(S) /\ Len(v) = Len(r) /\ \A k \in 1 .. Len(r) : v[k] = s[r[k]]
  BY ShownType
<1> HIDE DEF t, u, v
<1>5. /\ u \o v \in Seq(S) /\ Len(u \o v) = Len(q) + Len(r)
      /\ \A k \in 1 .. Len(q) + Len(r) :
           (u \o v)[k] = IF k <= Len(q) THEN u[k] ELSE v[k - Len(q)]
  BY <1>1, <1>3, <1>4, ConcatProperties
<1>6. ASSUME NEW k \in 1 .. Len(q) + Len(r) PROVE t[k] = (u \o v)[k]
  <2>1. CASE k <= Len(q)
    BY <1>1, <1>2, <1>3, <1>5, <2>1
  <2>2. CASE ~ (k <= Len(q))
    <3>1. k - Len(q) \in 1 .. Len(r)
      BY <1>1, <2>2
    <3>2. t[k] = s[r[k - Len(q)]]
      BY <1>1, <1>2, <2>2
    <3>3. (u \o v)[k] = v[k - Len(q)]
      BY <1>5, <2>2
    <3>4. v[k - Len(q)] = s[r[k - Len(q)]]
      BY <1>4, <3>1
    <3> QED
      BY <3>2, <3>3, <3>4
  <2> QED
    BY <2>1, <2>2
<1> QED
  BY <1>2, <1>5, <1>6, SeqEqual DEF t, u, v

\* The first part of a joined sequence.
LEMMA ConcatPrefix ==
  ASSUME NEW S, NEW s \in Seq(S), NEW t \in Seq(S)
  PROVE  SubSeq(s \o t, 1, Len(s)) = s
<1> DEFINE u == SubSeq(s \o t, 1, Len(s))
<1>1. /\ Len(s) \in Nat /\ Len(t) \in Nat
      /\ \A k \in 1 .. Len(s) : (s \o t)[k] = s[k] /\ s[k] \in S
  BY LenProperties, ConcatProperties, ElementOfSeq
<1>2. /\ u \in Seq(S) /\ Len(u) = Len(s)
      /\ \A k \in 1 .. Len(s) : u[k] = (s \o t)[k]
  BY <1>1, SubSeqProperties
<1> HIDE DEF u
<1> QED
  BY <1>1, <1>2, SeqEqual DEF u

\* The slots that a receive call makes frames of show a run.
LEMMA ShownSlots ==
  ASSUME NEW S, NEW s \in [Slots -> S], NEW i \in Slots, NEW n \in 0 .. NumSlots
  PROVE  Shown(s, SlotsFrom(i, n)) = Run(s, i, n)
<1>1. /\ SlotsFrom(i, n) \in Seq(Slots) /\ Len(SlotsFrom(i, n)) = n
      /\ \A k \in 1 .. n : SlotsFrom(i, n)[k] = Wrap(i + k - 1)
  BY SlotsFromType
<1> QED
  BY <1>1 DEF Shown, Run

\* The queue and the views.
Waiting == Contents(SlotsFrom(head, Space(head, hwtail)))
Views   == Contents(frames)

Pictures ==
  /\ Waiting = Run(slot, head, Space(head, hwtail))
  /\ Len(Waiting) = Space(head, hwtail)
  /\ Views = Shown(slot, frames) /\ Len(Views) = Len(frames)

LEMMA RingPictures == RxTypeOK => Pictures
<1> SUFFICES ASSUME RxTypeOK PROVE Pictures
  OBVIOUS
<1>1. PICK n \in 0 .. NumSlots - 1 : n = Space(head, hwtail)
  BY SpaceType DEF RxTypeOK
<1>2. n \in 0 .. NumSlots /\ n \in Nat /\ head \in Slots
  BY <1>1, NumSlotsAssumption DEF RxTypeOK
<1>3. slot \in [Slots -> Packets \union {NoPacket}]
  BY DEF RxTypeOK
<1>4. \A q : Contents(q) = Shown(slot, q)
  BY DEF Contents, Shown
<1>5. Shown(slot, SlotsFrom(head, n)) = Run(slot, head, n)
  BY <1>2, <1>3, ShownSlots
<1>6. Waiting = Run(slot, head, n) /\ Len(Run(slot, head, n)) = n
  BY <1>1, <1>2, <1>4, <1>5, RunElements DEF Waiting
<1>7. frames \in Seq(Slots)
  BY ConcatProperties DEF RxTypeOK, frames
<1>8. Len(Shown(slot, frames)) = Len(frames)
  BY <1>3, <1>7, ShownType
<1> QED
  BY <1>1, <1>4, <1>6, <1>8 DEF Pictures, Views

LEMMA RingPicturesNext == (RxTypeOK => Pictures)'
  BY RingPictures, PTL

\* A call that gives up the frame of recv and makes frames of the n slots from
\* head on delivers the next n packets.
LEMMA DeliverStep ==
  ASSUME RxTypeOK, RxTypeOK', RxOwnership, NEW n \in 0 .. Space(head, tail),
         head' = Wrap(head + n), frames' = batch \o SlotsFrom(head, n),
         UNCHANGED <<slot, tail, hwcur, hwtail>>
  PROVE  [Queue!Next]_(Queue!vars)
<1>1. PICK m \in 0 .. NumSlots - 1 : m = Space(head, hwtail)
  BY SpaceType DEF RxTypeOK
<1>2. /\ m \in 0 .. NumSlots /\ m \in Nat /\ n \in 0 .. m
      /\ n \in 0 .. NumSlots /\ n \in 0 .. NumSlots - 1
  <2>1. /\ Space(head, hwtail) = Space(head, tail) + Space(tail, hwtail)
        /\ Space(head, tail) \in 0 .. NumSlots - 1
        /\ Space(tail, hwtail) \in 0 .. NumSlots - 1
    BY OneTurn DEF RxOwnership
  <2> QED
    BY <1>1, <2>1, NumSlotsAssumption
<1>3. /\ head \in Slots /\ hwtail \in Slots
      /\ batch \in Seq(Slots) /\ single \in Seq(Slots)
  BY DEF RxTypeOK
<1>4. PICK S : slot \in [Slots -> S]
  BY DEF RxTypeOK
<1>5. Pictures /\ Pictures'
  BY RingPictures, RingPicturesNext
<1>6. PICK x \in Slots : x = Wrap(head + n) /\ Space(head, x) = n
  BY <1>2, <1>3, SpaceOfWrap, IndexInSlots
<1>7. Space(head, hwtail)' = m - n
  BY <1>1, <1>2, <1>3, SpaceAfterWrap
<1>8. Run(slot, x, m - n) = SubSeq(Run(slot, head, m), n + 1, m)
  <2>1. Space(head, x) <= m
    BY <1>2, <1>6
  <2>2. Run(slot, x, m - Space(head, x))
          = SubSeq(Run(slot, head, m), Space(head, x) + 1, m)
    BY <1>2, <1>3, <1>4, <2>1, RunSuffix
  <2> QED
    BY <1>6, <2>2
<1>9. Waiting' = SubSeq(Waiting, n + 1, Len(Waiting))
  BY <1>1, <1>5, <1>6, <1>7, <1>8 DEF Pictures
<1>10. PICK p \in Seq(Slots) : p = SlotsFrom(head, n)
  BY <1>2, <1>3, SlotsFromType
<1>11. Shown(slot, p) = SubSeq(Waiting, 1, n)
  <2>1. Shown(slot, SlotsFrom(head, n)) = Run(slot, head, n)
    BY <1>2, <1>3, <1>4, ShownSlots
  <2>2. Run(slot, head, n) = SubSeq(Run(slot, head, m), 1, n)
    BY <1>2, <1>3, <1>4, RunPrefix
  <2> QED
    BY <1>1, <1>5, <1>10, <2>1, <2>2 DEF Pictures
<1>12. Shown(slot, batch) = SubSeq(Views, 1, Len(batch))
  <2>1. PICK t \in Seq(S), u \in Seq(S) :
          t = Shown(slot, batch) /\ u = Shown(slot, single) /\ Len(t) = Len(batch)
    BY <1>3, <1>4, ShownType
  <2>2. Shown(slot, batch \o single) = Shown(slot, batch) \o Shown(slot, single)
    BY <1>3, <1>4, ShownConcat
  <2>3. SubSeq(t \o u, 1, Len(t)) = t
    BY ConcatPrefix
  <2> QED
    BY <1>5, <2>1, <2>2, <2>3 DEF Pictures, frames
<1>13. Views' = SubSeq(Views, 1, Len(batch)) \o SubSeq(Waiting, 1, n)
  <2>1. Shown(slot, batch \o p) = Shown(slot, batch) \o Shown(slot, p)
    BY <1>3, <1>4, ShownConcat
  <2> QED
    BY <1>5, <1>10, <1>11, <1>12, <2>1 DEF Pictures
<1>14. Len(batch) \in 0 .. Len(Views) /\ n \in 0 .. Len(Waiting)
  <2>1. Len(frames) = Len(batch) + Len(single) /\ Len(batch) \in Nat /\ Len(single) \in Nat
    BY <1>3, ConcatProperties, LenProperties DEF frames
  <2> QED
    BY <1>1, <1>2, <1>5, <2>1 DEF Pictures
<1>15. Queue!Deliver(Len(batch), n)
  BY <1>9, <1>13 DEF Queue!Deliver, Waiting, Views
<1> QED
  BY <1>14, <1>15 DEF Queue!Next, Waiting, Views

\* A packet that the device accepts goes behind those that wait.
LEMMA ArriveStep ==
  ASSUME RxTypeOK, RxTypeOK', RxOwnership, FramesReleased, NEW p \in Packets, Arrive(p)
  PROVE  Queue!Arrive(p)
<1>1. PICK n \in 0 .. NumSlots - 1 : n = Space(head, hwtail)
  BY SpaceType DEF RxTypeOK
<1>2. /\ head \in Slots /\ hwtail \in Slots /\ n \in Nat /\ n \in 0 .. NumSlots
      /\ slot' = [slot EXCEPT ![hwtail] = p] /\ head' = head
      /\ hwtail' = NextIndex(hwtail) /\ frames' = frames
  BY <1>1, NumSlotsAssumption DEF Arrive, ring, frames, RxTypeOK
<1>3. PICK S : slot \in [Slots -> S] /\ slot' \in [Slots -> S]
  BY DEF RxTypeOK
<1>4. Pictures /\ Pictures'
  BY RingPictures, RingPicturesNext
<1>5. n < NumSlots - 1 /\ Space(head, hwtail)' = n + 1
  <2>1. Space(hwcur, hwtail) < NumSlots - 1
    BY SpaceForOne DEF Arrive, RxTypeOK
  <2>2. n < NumSlots - 1
    BY <1>1, <2>1, OneTurn, NumSlotsAssumption DEF RxOwnership
  <2>3. Space(head, NextIndex(hwtail)) = n + 1
    BY <1>1, <1>2, <2>2, NumSlotsAssumption DEF Space, Slots, NextIndex
  <2> QED
    BY <1>2, <2>2, <2>3
<1>6. Wrap(head + n) = hwtail
  BY <1>1, <1>2, WrapOfSpace
<1>7. slot'[hwtail] = p /\ Stores(hwtail, slot, slot')
  BY <1>2, <1>3 DEF Stores
<1>8. Run(slot', head, n) = Run(slot, head, n)
  <2>1. n \in 0 .. Space(head, hwtail)
    BY <1>1
  <2> QED
    BY <1>2, <1>7, <2>1, RunBeforeStore
<1>9. Waiting' = Append(Waiting, p)
  <2>1. n \in 0 .. NumSlots - 1
    BY <1>1
  <2>2. Run(slot', head, n + 1) = Append(Run(slot', head, n), slot'[Wrap(head + n)])
    BY <1>2, <1>3, <2>1, RunAppend
  <2> QED
    BY <1>1, <1>2, <1>4, <1>5, <1>6, <1>7, <1>8, <2>2 DEF Pictures
<1>10. Views' = Views
  <2>1. \A k \in 1 .. Len(frames) : slot'[frames[k]] = slot[frames[k]]
    BY <1>7, FramesNotFilled DEF Stores
  <2>2. Shown(slot', frames) = Shown(slot, frames)
    BY <2>1 DEF Shown
  <2> QED
    BY <1>2, <1>4, <2>2 DEF Pictures
<1>11. Len(Waiting) < NumSlots - 1
  BY <1>1, <1>4, <1>5 DEF Pictures
<1> QED
  BY <1>9, <1>10, <1>11 DEF Queue!Arrive, Waiting, Views

LEMMA QueueStep ==
  ASSUME DropsFrames, RxTypeOK, RxTypeOK', RxOwnership, FramesReleased, [Next]_vars
  PROVE  [Queue!Next]_(Queue!vars)
<1>1. batch \in Seq(Slots) /\ head \in Slots
  BY DEF RxTypeOK
<1>2. Pictures /\ Pictures'
  BY RingPictures, RingPicturesNext
<1>3. ASSUME UNCHANGED <<Waiting, Views>> PROVE [Queue!Next]_(Queue!vars)
  BY <1>3 DEF Queue!vars, Waiting, Views
<1>4. ASSUME NEW p \in Packets, Arrive(p) PROVE [Queue!Next]_(Queue!vars)
  BY <1>4, ArriveStep DEF Queue!Next
<1>5. Wrap(head + 0) = head /\ SlotsFrom(head, 0) = <<>> /\ batch \o <<>> = batch
  BY <1>1, WrapOneTurn, ConcatEmptySeq, NumSlotsAssumption DEF Slots, SlotsFrom
<1>6. CASE Recv
  <2>1. CASE head = tail /\ single' = <<>> /\ UNCHANGED <<head, cur>>
    <3>1. 0 \in 0 .. Space(head, tail)
      BY <1>1, <2>1, SpaceType, NumSlotsAssumption DEF RxTypeOK
    <3>2. /\ head' = Wrap(head + 0) /\ frames' = batch \o SlotsFrom(head, 0)
          /\ UNCHANGED <<slot, tail, hwcur, hwtail>>
      BY <1>5, <1>6, <2>1 DEF Recv, kernel, frames
    <3> QED
      BY <3>1, <3>2, DeliverStep
  <2>2. CASE head # tail /\ single' = <<head>> /\ Release(NextIndex(head))
    <3>1. 1 \in 0 .. Space(head, tail)
      BY <2>2, NumSlotsAssumption DEF Space, RxTypeOK, Slots
    <3>2. SlotsFrom(head, 1) = <<head>>
      <4>1. Wrap(head + 1 - 1) = head
        BY <1>1, WrapOneTurn, NumSlotsAssumption DEF Slots
      <4> QED
        BY <4>1 DEF SlotsFrom
    <3>3. /\ head' = Wrap(head + 1) /\ frames' = batch \o SlotsFrom(head, 1)
          /\ UNCHANGED <<slot, tail, hwcur, hwtail>>
      BY <1>1, <1>6, <2>2, <3>2, NextIsWrap DEF Recv, Release, kernel, frames
    <3> QED
      BY <3>1, <3>3, DeliverStep
  <2> QED
    BY <1>6, <2>1, <2>2 DEF Recv
<1>7. ASSUME NEW len \in 0 .. NumSlots, RecvBatch(len)
      PROVE  [Queue!Next]_(Queue!vars)
  <2>1. PICK n \in 0 .. Space(head, tail) :
          n = IF Space(head, tail) <= len THEN Space(head, tail) ELSE len
    BY CountType
  <2>2. n \in 0 .. NumSlots
    BY <2>1, CountType, NumSlotsAssumption
  <2>3. batch \o SlotsFrom(head, n) \in Seq(Slots)
    BY <1>1, <2>2, SlotsFromType, ConcatProperties
  <2>4. /\ head' = Wrap(head + n) /\ UNCHANGED <<slot, tail, hwcur, hwtail>>
        /\ batch' = batch \o SlotsFrom(head, n) /\ single' = <<>>
    BY <1>5, <1>7, <2>1 DEF RecvBatch, Release, kernel
  <2>5. frames' = batch \o SlotsFrom(head, n)
    BY <2>3, <2>4, ConcatEmptySeq DEF frames
  <2> QED
    BY <2>4, <2>5, DeliverStep
<1>8. CASE Sync
  BY <1>2, <1>3, <1>8 DEF Sync, Pictures, frames
<1>9. CASE Drop
  <2>1. Waiting' = Waiting /\ frames' = <<>>
    BY <1>2, <1>9 DEF Drop, ring, kernel, Pictures, frames
  <2>2. Views' = <<>>
    BY <2>1, <1>2 DEF Pictures, Shown
  <2>3. PICK S : Waiting \in Seq(S)
    <3>1. Space(head, hwtail) \in 0 .. NumSlots
      <4>1. Space(head, hwtail) \in 0 .. NumSlots - 1
        BY SpaceType DEF RxTypeOK
      <4> QED
        BY <4>1, NumSlotsAssumption
    <3>2. Run(slot, head, Space(head, hwtail)) \in Seq(Packets \union {NoPacket})
      BY <1>1, <3>1, RunType DEF RxTypeOK
    <3> QED
      BY <1>2, <3>2 DEF Pictures
  <2>4. SubSeq(Waiting, 0 + 1, Len(Waiting)) = Waiting
    BY <2>3, SubSeqFull
  <2>5. SubSeq(Views, 1, 0) \o SubSeq(Waiting, 1, 0) = <<>>
    OBVIOUS
  <2>6. Queue!Deliver(0, 0)
    BY <2>1, <2>2, <2>4, <2>5 DEF Queue!Deliver, Waiting, Views
  <2>7. 0 \in 0 .. Len(Views) /\ 0 \in 0 .. Len(Waiting)
    <3>1. Len(Waiting) \in Nat /\ Len(frames) \in Nat
      BY <1>1, <2>3, LenProperties, ConcatProperties DEF RxTypeOK, frames
    <3> QED
      BY <1>2, <3>1 DEF Pictures
  <2> QED
    BY <2>6, <2>7 DEF Queue!Next, Waiting, Views
<1>10. CASE UNCHANGED vars
  BY <1>2, <1>3, <1>10 DEF vars, ring, kernel, Pictures, frames
<1> QED
  BY <1>4, <1>6, <1>7, <1>8, <1>9, <1>10 DEF Next

\* recv and recv_batch together deliver every packet that the device accepted
\* once, in the order of arrival, and a frame shows its packet until the caller
\* gives it up, provided that the caller keeps none across a sync.
THEOREM RingImplementsQueue ==
  ASSUME DropsFrames
  PROVE  Spec => ImplementsRxQueue
<1>1. Init => Queue!Init
  <2> SUFFICES ASSUME Init PROVE Queue!Init
    OBVIOUS
  <2>1. Space(head, hwtail) = 0 /\ frames = <<>>
    BY NumSlotsAssumption DEF Init, Space, frames
  <2> QED
    BY <2>1 DEF Queue!Init, Contents, SlotsFrom
<1>2. RxTypeOK /\ RxTypeOK' /\ RxOwnership /\ FramesReleased /\ [Next]_vars
        => [Queue!Next]_(Queue!vars)
  BY QueueStep
<1> QED
  BY <1>1, <1>2, TypeCorrect, OwnershipInvariant, FramesStayReleased, PTL
  DEF Spec, ImplementsRxQueue, Queue!Spec
=============================================================================
