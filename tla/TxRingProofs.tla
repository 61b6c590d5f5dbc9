---------------------------- MODULE TxRingProofs ----------------------------
(***************************************************************************)
(* Theorems about TxRing, for every ring size, every set of packets and    *)
(* every number of reservations.                                           *)
(***************************************************************************)
EXTENDS TxRing, RingIndexTheorems

LEMMA FrameType == \A p \in Packets : Frame(p) \in Frames
  BY TxConstants DEF Frame, Frames, Packets

\* The u16 of a slot holds the length of every packet that fits its buffer.
LEMMA FrameAnnounces ==
  ASSUME BufSize < LenModulus, NEW p \in Packets, Length[p] <= BufSize
  PROVE  Frame(p).len = Length[p] /\ Frame(p).pkt = p
<1>1. Length[p] \in 0 .. LenModulus - 1 /\ LenModulus \in Nat \ {0}
  BY TxConstants
<1>2. Length[p] % LenModulus = Length[p]
  BY <1>1
<1> QED
  BY <1>2 DEF Frame

\* Every variable starts with its type and keeps it at every step.
LEMMA TypeInit == ASSUME Init PROVE TypeOK
<1>1. [pkt |-> NoPacket, len |-> 0] \in Frames
  BY TxConstants DEF Frames
<1> QED
  BY <1>1, NumSlotsAssumption DEF Init, TypeOK, Slots, Results

LEMMA TypeStep == ASSUME TypeOK, [Next]_vars PROVE TypeOK'
<1> USE DEF TypeOK, Results
<1>1. ASSUME NEW p \in Packets, Send(p) PROVE TypeOK'
  BY <1>1, FrameType, IndexInSlots
  DEF Send, Fail, Return, Advance, ring, kernel
<1>2. ASSUME NEW id \in Reservations, NEW n \in 0 .. NumSlots, NEW i \in Slots,
             Open(id, i, n)
      PROVE  TypeOK'
  BY <1>2 DEF Open, Return, BatchReservation, ring, kernel
<1>3. ASSUME NEW r \in Results, Fail(r) PROVE TypeOK'
  BY <1>3 DEF Fail, Return, ring, kernel
<1>4. ASSUME NEW id \in Reservations, NEW n \in 0 .. NumSlots, ReserveBatch(id, n)
      PROVE  TypeOK'
  BY <1>4, <1>2, <1>3 DEF ReserveBatch
<1>5. ASSUME NEW id \in Reservations, ReserveAll(id) PROVE TypeOK'
  <2>1. Space(cur, tail) \in 0 .. NumSlots
    BY SpaceType, NumSlotsAssumption
  <2> QED
    BY <2>1, <1>5, <1>2, <1>3 DEF ReserveAll
<1>6. ASSUME NEW r \in batches, NEW i \in 0 .. NumSlots, NEW p \in Packets,
             Packet(r, i, p)
      PROVE  TypeOK'
  BY <1>6, FrameType DEF Packet, Fail, Return, ring, kernel
<1>7. ASSUME NEW r \in batches, NEW written \in 0 .. NumSlots, Commit(r, written)
      PROVE  TypeOK'
  <2>1. \A n \in 0 .. NumSlots : Wrap(r.start + n) \in Slots
    BY IndexInSlots DEF BatchReservation
  <2>2. r.count \in 0 .. NumSlots
    BY DEF BatchReservation
  <2> QED
    BY <2>1, <2>2, <1>7 DEF Commit, Return, Advance, kernel
<1>8. CASE Sync
  <2>1. Wrap(done + NumSlots - 1) \in Slots
    BY WrapBack, NumSlotsAssumption DEF Slots
  <2> QED
    BY <2>1, <1>8 DEF Sync, TxSync, Return
<1>9. CASE Transmit
  BY <1>9, IndexInSlots DEF Transmit, ring
<1>10. CASE UNCHANGED vars
  BY <1>10 DEF vars, ring, kernel
<1> QED
  BY <1>1, <1>4, <1>5, <1>6, <1>7, <1>8, <1>9, <1>10 DEF Next

(***************************************************************************)
(* Every variable keeps its type, whatever the caller does.                *)
(***************************************************************************)
THEOREM TypeCorrect == Spec => []TypeOK
<1>1. Init => TypeOK
  BY TypeInit
<1>2. TypeOK /\ [Next]_vars => TypeOK'
  BY TypeStep
<1> QED
  BY <1>1, <1>2, PTL DEF Spec

(***************************************************************************)
(* The indices keep their order and reservations keep their slots, for a   *)
(* caller who holds one reservation at a time and does not call            *)
(* reserve_batch on a full ring: send, reserve_all, packet and commit need *)
(* no more than that, however syncs and the device interleave with them.   *)
(***************************************************************************)
LEMMA OwnershipInit == Init => Ownership
  BY NumSlotsAssumption
  DEF Init, Ownership, CircularOrder, CursorsAgree, ReservationsOwned,
      OneReservation, Space

\* The way from the device's oldest slot to tail, in one piece.
LEMMA OneTurn ==
  ASSUME TypeOK, CircularOrder
  PROVE  /\ Space(done, head) = Space(done, hwcur) + Space(hwcur, head)
         /\ Space(done, head) + Space(head, tail) < NumSlots
         /\ Space(hwcur, tail) = Space(hwcur, head) + Space(head, tail)
         /\ \A i, j \in {done, hwcur, head, tail} : Space(i, j) \in 0 .. NumSlots - 1
<1>1. \A i, j \in {done, hwcur, head, tail} : Space(i, j) \in 0 .. NumSlots - 1
  BY SpaceType DEF TypeOK
<1>2. /\ Space(done, hwcur) \in Nat /\ Space(hwcur, head) \in Nat
      /\ Space(head, tail) \in Nat
      /\ Space(done, hwcur) + Space(hwcur, head) + Space(head, tail) < NumSlots
  BY <1>1 DEF CircularOrder
<1>3. Space(done, hwcur) + Space(hwcur, head) < NumSlots
      /\ Space(hwcur, head) + Space(head, tail) < NumSlots
  BY <1>2, NumSlotsAssumption
<1>4. Space(done, head) = Space(done, hwcur) + Space(hwcur, head)
  BY <1>3, SpaceAdds DEF TypeOK
<1>5. Space(hwcur, tail) = Space(hwcur, head) + Space(head, tail)
  BY <1>3, SpaceAdds DEF TypeOK
<1> QED
  BY <1>1, <1>2, <1>4, <1>5

\* Where the slot lies that is n slots on from head, up to tail.
LEMMA AheadOfHead ==
  ASSUME TypeOK, CircularOrder, NEW n \in 0 .. Space(head, tail)
  PROVE  /\ Wrap(head + n) \in Slots
         /\ Space(head, Wrap(head + n)) = n
         /\ Space(Wrap(head + n), tail) = Space(head, tail) - n
         /\ Space(hwcur, Wrap(head + n)) = Space(hwcur, head) + n
         /\ Space(done, Wrap(head + n)) = Space(done, head) + n
<1>1. head \in Slots /\ tail \in Slots /\ Space(head, tail) \in 0 .. NumSlots - 1
  BY SpaceType DEF TypeOK
<1>2. n \in 0 .. NumSlots - 1
  BY <1>1, NumSlotsAssumption
<1>3. Wrap(head + n) \in Slots /\ Space(head, Wrap(head + n)) = n
  BY <1>1, <1>2, IndexInSlots, SpaceOfWrap, NumSlotsAssumption
<1>4. Space(Wrap(head + n), tail) = Space(head, tail) - n
  BY <1>1, SpaceAfterWrap
<1>5. Space(hwcur, Wrap(head + n)) = Space(hwcur, head) + n
  BY <1>3, OneTurn, SpaceAdds, NumSlotsAssumption DEF TypeOK, CircularOrder
<1>6. Space(done, Wrap(head + n)) = Space(done, head) + n
  BY <1>3, OneTurn, SpaceAdds, NumSlotsAssumption DEF TypeOK
<1> QED
  BY <1>3, <1>4, <1>5, <1>6

\* Moving head n slots on, up to tail, keeps the order of the indices.
LEMMA HeadAdvances ==
  ASSUME TypeOK, TypeOK', CircularOrder, NEW n \in 0 .. Space(head, tail),
         head' = Wrap(head + n), UNCHANGED <<tail, hwcur, done>>
  PROVE  /\ CircularOrder'
         /\ Space(head, head') = n
         /\ Space(done, head)' = Space(done, head) + n
  BY AheadOfHead, OneTurn, NumSlotsAssumption DEF CircularOrder

\* A sync, whether it reaches the kernel or not, keeps the order, and takes
\* nothing back from the program.
LEMMA SyncKeepsOrder ==
  ASSUME TypeOK, CircularOrder, TxSync \/ UNCHANGED <<hwcur, tail>>,
         UNCHANGED <<head, done>>
  PROVE  CircularOrder' /\ Space(head, tail) <= Space(head, tail')
<1>1. CASE UNCHANGED <<hwcur, tail>>
  BY <1>1, OneTurn, NumSlotsAssumption DEF CircularOrder
<1>2. CASE TxSync
  <2>1. hwcur' = head /\ tail' = Wrap(done + NumSlots - 1)
    BY <1>2, OneTurn DEF TxSync
  <2>2. Space(head, tail') = NumSlots - 1 - Space(done, head)
    BY <2>1, SpaceRound DEF TypeOK
  <2>3. Space(head, head) = 0
    BY DEF Space, TypeOK, Slots
  <2>4. CircularOrder'
    BY <2>1, <2>2, <2>3, OneTurn, NumSlotsAssumption DEF CircularOrder
  <2>5. Space(head, tail) <= Space(head, tail')
    BY <2>2, OneTurn, NumSlotsAssumption
  <2> QED
    BY <2>4, <2>5
<1> QED
  BY <1>1, <1>2

\* So does the device when it transmits a slot.
LEMMA TransmitKeepsOrder ==
  ASSUME TypeOK, CircularOrder, done # hwcur, done' = NextIndex(done),
         UNCHANGED <<head, tail, hwcur>>
  PROVE  CircularOrder' /\ Space(done', head) = Space(done, head) - 1
<1>1. Space(done', hwcur) = Space(done, hwcur) - 1
  BY SpaceAfterNext DEF TypeOK
<1>2. CircularOrder'
  BY <1>1, OneTurn, NumSlotsAssumption DEF CircularOrder
<1>3. Space(done', hwcur) \in Nat /\ Space(done', hwcur) + Space(hwcur, head) < NumSlots
  <2>1. Space(done', hwcur) \in 0 .. NumSlots - 1
    BY SpaceType, IndexInSlots DEF TypeOK
  <2> QED
    BY <1>1, <2>1, OneTurn, NumSlotsAssumption
<1>4. Space(done', head) = Space(done', hwcur) + Space(hwcur, head)
  BY <1>3, SpaceAdds, IndexInSlots DEF TypeOK
<1> QED
  BY <1>1, <1>2, <1>4, OneTurn

LEMMA OwnershipStep ==
  ASSUME "one_batch" \in Discipline, "checks_space" \in Discipline,
         TypeOK, TypeOK', Ownership, [Next]_vars
  PROVE  Ownership'
<1> USE DEF Ownership, CursorsAgree, ReservationsOwned, OneReservation
<1>1. ASSUME NEW p \in Packets, MayClaim, Send(p) PROVE Ownership'
  <2>1. batches = {}
    BY <1>1 DEF MayClaim, Keeps
  <2>2. CASE UNCHANGED ring
    BY <2>1, <2>2, <1>1
    DEF Send, Fail, Advance, ring, kernel, CircularOrder
  <2>3. CASE cur # tail /\ Advance(NextIndex(cur)) /\ UNCHANGED <<tail, kernel, batches>>
    <3>1. 1 \in 0 .. Space(head, tail)
      BY <2>3, NumSlotsAssumption DEF Space, TypeOK, Slots
    <3>2. head' = Wrap(head + 1) /\ cur' = head'
      BY <2>3, NextIsWrap DEF Advance, TypeOK
    <3> QED
      BY <3>1, <3>2, <2>1, <2>3, HeadAdvances DEF kernel
  <2> QED
    BY <1>1, <2>2, <2>3 DEF Send, Fail
<1>2. ASSUME NEW id \in Reservations, NEW n \in 0 .. NumSlots, MayClaim,
             Keeps("checks_space", head # tail), ReserveBatch(id, n)
      PROVE  Ownership'
  <2>1. batches = {} /\ head # tail
    BY <1>2 DEF MayClaim, Keeps
  <2>2. BatchSpace(head, tail) = Space(head, tail) - 1
    BY <2>1, BatchSpaceOffByOne DEF TypeOK
  <2>3. n <= BatchSpace(head, tail) => n <= Space(head, tail)
    BY <2>2, SpaceType DEF TypeOK
  <2> QED
    BY <1>2, <2>1, <2>2, <2>3, SpaceType
    DEF ReserveBatch, Open, Fail, ring, kernel, CircularOrder, TypeOK
<1>3. ASSUME NEW id \in Reservations, MayClaim, ReserveAll(id) PROVE Ownership'
  <2>1. batches = {}
    BY <1>3 DEF MayClaim, Keeps
  <2> QED
    BY <1>3, <2>1, SpaceType
    DEF ReserveAll, Open, Fail, ring, kernel, CircularOrder, TypeOK
<1>4. ASSUME NEW r \in batches, NEW i \in 0 .. NumSlots, NEW p \in Packets,
             Packet(r, i, p)
      PROVE  Ownership'
  BY <1>4 DEF Packet, Fail, ring, kernel, CircularOrder
<1>5. ASSUME NEW r \in batches, NEW written \in 0 .. NumSlots, Commit(r, written)
      PROVE  Ownership'
  <2> DEFINE actual == IF written <= r.count THEN written ELSE r.count
  <2>1. batches' = {} /\ UNCHANGED <<tail, hwcur, done>>
    BY <1>5 DEF Commit, kernel
  <2>2. actual \in 0 .. Space(head, tail) /\ r.start = head
    BY SpaceType DEF TypeOK, BatchReservation
  <2>3. CASE actual = 0 /\ UNCHANGED <<head, cur>>
    BY <2>1, <2>3 DEF CircularOrder
  <2>4. CASE actual # 0 /\ Advance(Wrap(r.start + actual))
    BY <2>1, <2>2, <2>4, HeadAdvances DEF Advance
  <2> QED
    BY <1>5, <2>3, <2>4 DEF Commit
<1>6. CASE Sync
  <2>1. CircularOrder' /\ Space(head, tail) <= Space(head, tail')
    BY <1>6, SyncKeepsOrder DEF Sync
  <2>2. /\ Space(head, tail) \in Nat /\ Space(head, tail') \in Nat
        /\ \A r \in batches : r.count \in Nat
    BY SpaceType DEF TypeOK, BatchReservation
  <2> QED
    BY <1>6, <2>1, <2>2 DEF Sync
<1>7. CASE Transmit
  BY <1>7, TransmitKeepsOrder DEF Transmit, ring
<1>8. CASE UNCHANGED vars
  BY <1>8 DEF vars, ring, kernel, CircularOrder
<1> QED
  BY <1>1, <1>2, <1>3, <1>4, <1>5, <1>6, <1>7, <1>8 DEF Next

THEOREM OwnershipInvariant ==
  ASSUME "one_batch" \in Discipline, "checks_space" \in Discipline
  PROVE  Spec => []Ownership
<1>1. Init => Ownership
  BY OwnershipInit
<1>2. TypeOK /\ TypeOK' /\ Ownership /\ [Next]_vars => Ownership'
  BY OwnershipStep
<1> QED
  BY <1>1, <1>2, TypeCorrect, PTL DEF Spec

(***************************************************************************)
(* A packet in flight fits its buffer (PayloadFits).  The invariant says   *)
(* it of every slot: what commit releases was written earlier.             *)
(***************************************************************************)
SlotsFit ==
  \A i \in Slots :
    slot[i].pkt # NoPacket =>
      Length[slot[i].pkt] <= BufSize /\ slot[i].len = Length[slot[i].pkt]

\* Writing a packet that fits keeps SlotsFit.
LEMMA FillFits ==
  ASSUME BufSize < LenModulus, TypeOK, SlotsFit, NEW i \in Slots, NEW p \in Packets,
         Length[p] <= BufSize, slot' = [slot EXCEPT ![i] = Frame(p)]
  PROVE  SlotsFit'
  BY FrameAnnounces DEF SlotsFit, TypeOK

\* A caller who asks packet for no more than nr_buf_size bytes never gives the
\* device a packet that overran its buffer or whose length the slot truncated,
\* on a ring whose buffers are shorter than 2^16: send compares a length with
\* nr_buf_size, a u32, and stores it as a u16, and nothing compares the two.
THEOREM PayloadsFit ==
  ASSUME "fits_buffer" \in Discipline, BufSize < LenModulus
  PROVE  Spec => []PayloadFits
<1>1. Init => SlotsFit
  BY DEF Init, SlotsFit
<1>2. TypeOK /\ SlotsFit /\ [Next]_vars => SlotsFit'
  <2> SUFFICES ASSUME TypeOK, SlotsFit, [Next]_vars PROVE SlotsFit'
    OBVIOUS
  <2>1. ASSUME NEW p \in Packets, Send(p) PROVE SlotsFit'
    <3>1. CASE UNCHANGED slot
      BY <3>1 DEF SlotsFit
    <3>2. CASE Length[p] <= BufSize /\ slot' = [slot EXCEPT ![cur] = Frame(p)]
      BY <3>2, FillFits DEF TypeOK
    <3> QED
      BY <2>1, <3>1, <3>2 DEF Send, Fail, ring
  <2>2. ASSUME NEW r \in batches, NEW i \in 0 .. NumSlots, NEW p \in Packets,
               Keeps("fits_buffer", Length[p] <= BufSize), Packet(r, i, p)
        PROVE  SlotsFit'
    <3>1. CASE UNCHANGED slot
      BY <3>1 DEF SlotsFit
    <3>2. CASE slot' = [slot EXCEPT ![Wrap(r.start + i)] = Frame(p)]
      <4>1. Wrap(r.start + i) \in Slots
        BY IndexInSlots DEF TypeOK, BatchReservation
      <4> QED
        BY <2>2, <3>2, <4>1, FillFits DEF Keeps
    <3> QED
      BY <2>2, <3>1, <3>2 DEF Packet, Fail, ring
  <2>3. CASE UNCHANGED slot
    BY <2>3 DEF SlotsFit
  <2> QED
    BY <2>1, <2>2, <2>3
    DEF Next, ReserveBatch, ReserveAll, Open, Fail, Commit, Sync, Transmit, ring, vars
<1>3. SlotsFit => PayloadFits
  BY DEF SlotsFit, PayloadFits, InFlight
<1> QED
  BY <1>1, <1>2, <1>3, TypeCorrect, PTL DEF Spec

(***************************************************************************)
(* Action properties that follow from Ownership.                           *)
(***************************************************************************)

\* A slot that the program owns is not in flight.
LEMMA OwnedNotInFlight ==
  ASSUME TypeOK, CircularOrder, NEW k \in 0 .. NumSlots, k <= Space(head, tail)
  PROVE  Wrap(head + k) \notin InFlight
<1>1. Space(head, tail) \in Nat /\ Space(done, head) \in Nat
  BY OneTurn
<1>2. Space(done, Wrap(head + k)) = Space(done, head) + k
  BY <1>1, AheadOfHead
<1> QED
  BY <1>1, <1>2 DEF InFlight

\* Whatever the caller and the device do in between, no call writes a slot
\* from the moment head passes it until the device has transmitted it.
THEOREM InFlightNeverWritten ==
  ASSUME "one_batch" \in Discipline, "checks_space" \in Discipline
  PROVE  Spec => InFlightUntouched
<1> DEFINE Untouched == \A i \in InFlight : slot'[i] = slot[i]
<1>1. TypeOK /\ Ownership /\ [Next]_vars => Untouched
  <2> SUFFICES ASSUME TypeOK, Ownership, [Next]_vars PROVE Untouched
    OBVIOUS
  <2> USE DEF Ownership
  <2>1. ASSUME NEW i \in Slots, NEW f \in Frames, i \notin InFlight,
               slot' = [slot EXCEPT ![i] = f]
        PROVE  Untouched
    BY <2>1 DEF TypeOK, InFlight
  <2>2. ASSUME NEW p \in Packets, Send(p) PROVE Untouched
    <3>1. cur \notin InFlight
      <4>1. cur = head /\ Space(done, head) \in Int
        BY SpaceType DEF CursorsAgree, TypeOK
      <4> QED
        BY <4>1 DEF InFlight
    <3> QED
      BY <2>1, <2>2, <3>1, FrameType DEF Send, Fail, ring, TypeOK
  <2>3. ASSUME NEW r \in batches, NEW i \in 0 .. NumSlots, NEW p \in Packets,
               Packet(r, i, p)
        PROVE  Untouched
    <3>1. CASE i < r.count
      <4>1. r.start = head /\ r.count \in 0 .. NumSlots /\ r.count <= Space(head, tail)
        BY DEF ReservationsOwned, TypeOK, BatchReservation
      <4>2. i <= Space(head, tail)
        BY <3>1, <4>1, SpaceType DEF TypeOK
      <4>3. Wrap(r.start + i) \in Slots /\ Wrap(r.start + i) \notin InFlight
        BY <4>1, <4>2, OwnedNotInFlight, IndexInSlots DEF TypeOK
      <4> QED
        BY <2>1, <2>3, <4>3, FrameType DEF Packet, Fail, ring
    <3>2. CASE UNCHANGED slot
      BY <3>2
    <3> QED
      BY <2>3, <3>1, <3>2 DEF Packet, Fail, ring
  <2>4. CASE UNCHANGED slot
    BY <2>4
  <2> QED
    BY <2>2, <2>3, <2>4
    DEF Next, ReserveBatch, ReserveAll, Open, Fail, Commit, Sync, Transmit, ring, vars
<1> QED
  BY <1>1, TypeCorrect, OwnershipInvariant, PTL DEF Spec, InFlightUntouched

\* commit advances head by what it is told, up to the size of the reservation,
\* because head has not moved since the reservation was made.
THEOREM CommitMovesHead ==
  ASSUME "one_batch" \in Discipline, "checks_space" \in Discipline
  PROVE  Spec => CommitMovesHeadByWritten
<1> DEFINE Moves ==
      \A r \in batches, written \in 0 .. NumSlots :
        Commit(r, written) =>
          Space(head, head') = IF written <= r.count THEN written ELSE r.count
<1>1. TypeOK /\ Ownership /\ [Next]_vars => Moves
  <2> SUFFICES ASSUME TypeOK, Ownership,
                      NEW r \in batches, NEW written \in 0 .. NumSlots,
                      Commit(r, written)
               PROVE  Space(head, head') = IF written <= r.count THEN written ELSE r.count
    OBVIOUS
  <2> DEFINE actual == IF written <= r.count THEN written ELSE r.count
  <2>1. /\ r.start = head /\ head \in Slots /\ actual \in Nat
        /\ actual <= Space(head, tail) /\ Space(head, tail) \in 0 .. NumSlots - 1
    BY SpaceType DEF Ownership, ReservationsOwned, TypeOK, BatchReservation
  <2>2. CASE actual = 0 /\ head' = head
    BY <2>1, <2>2 DEF Space, Slots
  <2>3. CASE actual # 0 /\ head' = Wrap(r.start + actual)
    <3>1. actual \in 0 .. NumSlots - 1
      BY <2>1, NumSlotsAssumption
    <3> QED
      BY <2>1, <2>3, <3>1, SpaceOfWrap
  <2> QED
    BY <2>2, <2>3 DEF Commit, Advance
<1> QED
  BY <1>1, TypeCorrect, OwnershipInvariant, PTL DEF Spec, CommitMovesHeadByWritten

(***************************************************************************)
(* A disciplined ring implements the bounded queue of TxQueue: the slots   *)
(* from done to head are the queue, those of the reservation the batch in  *)
(* preparation.                                                            *)
(***************************************************************************)
Given == FramesFrom(done, Space(done, head))

Prepared ==
  IF batches = {} THEN <<>>
  ELSE LET r == CHOOSE r \in batches : TRUE
       IN  FramesFrom(r.start, r.count)

\* Queue and batch as runs of slots.
Runs ==
  /\ Given = Run(slot, done, Space(done, head))
  /\ batches = {} => Prepared = <<>>
  /\ \A r \in batches : batches = {r} /\ Prepared = Run(slot, head, r.count)

LEMMA RingRuns == Ownership => Runs
<1> SUFFICES ASSUME Ownership PROVE Runs
  OBVIOUS
<1>1. \A i, n : FramesFrom(i, n) = Run(slot, i, n)
  BY DEF FramesFrom, Run
<1>2. Given = Run(slot, done, Space(done, head))
  BY <1>1 DEF Given
<1>3. ASSUME NEW r \in batches
      PROVE  batches = {r} /\ Prepared = Run(slot, head, r.count)
  <2>1. batches = {r} /\ r.start = head
    BY DEF Ownership, OneReservation, ReservationsOwned
  <2>2. (CHOOSE x \in batches : TRUE) = r
    BY <2>1
  <2>3. Prepared = FramesFrom(r.start, r.count)
    BY <2>1, <2>2 DEF Prepared
  <2> QED
    BY <1>1, <2>1, <2>3
<1> QED
  BY <1>2, <1>3 DEF Runs, Prepared

LEMMA RingRunsNext == (Ownership => Runs)'
  BY RingRuns, PTL

\* How many frames they hold.
Lengths ==
  /\ Space(done, head) \in 0 .. NumSlots - 1
  /\ Given \in Queue!BoundedSeqs /\ Len(Given) = Space(done, head)
  /\ \A r \in batches :
       /\ Prepared \in Queue!BoundedSeqs /\ Len(Prepared) = r.count
       /\ DOMAIN Prepared = 1 .. r.count
       /\ r.count \in 0 .. NumSlots - 1 /\ r.count <= Space(head, tail)
       /\ Space(done, head) + r.count <= NumSlots - 1

LEMMA RunLengths == TypeOK /\ Ownership => Lengths
<1> SUFFICES ASSUME TypeOK, Ownership PROVE Lengths
  OBVIOUS
<1>1. /\ Space(done, head) \in 0 .. NumSlots - 1 /\ Space(head, tail) \in Nat
      /\ Space(done, head) + Space(head, tail) < NumSlots
  BY OneTurn DEF Ownership
<1>2. ASSUME NEW i \in Slots, NEW n \in 0 .. NumSlots - 1
      PROVE  /\ Run(slot, i, n) \in Queue!BoundedSeqs /\ Len(Run(slot, i, n)) = n
             /\ DOMAIN Run(slot, i, n) = 1 .. n
  <2>1. n \in Nat /\ n \in 0 .. NumSlots
    BY NumSlotsAssumption
  <2>2. Run(slot, i, n) \in [1 .. n -> Frames] /\ Len(Run(slot, i, n)) = n
    BY <2>1, RunElements, RunType DEF TypeOK
  <2> QED
    BY <2>2 DEF Queue!BoundedSeqs
<1>3. Given \in Queue!BoundedSeqs /\ Len(Given) = Space(done, head)
  BY <1>1, <1>2, RingRuns DEF Runs, TypeOK
<1>4. ASSUME NEW r \in batches
      PROVE  /\ Prepared \in Queue!BoundedSeqs /\ Len(Prepared) = r.count
             /\ DOMAIN Prepared = 1 .. r.count
             /\ r.count \in 0 .. NumSlots - 1 /\ r.count <= Space(head, tail)
             /\ Space(done, head) + r.count <= NumSlots - 1
  <2>1. r.count \in 0 .. NumSlots /\ r.count <= Space(head, tail)
    BY DEF TypeOK, BatchReservation, Ownership, ReservationsOwned
  <2>2. r.count \in 0 .. NumSlots - 1 /\ Space(done, head) + r.count <= NumSlots - 1
    BY <1>1, <2>1, NumSlotsAssumption
  <2> QED
    BY <1>2, <2>1, <2>2, RingRuns DEF Runs, TypeOK
<1> QED
  BY <1>1, <1>3, <1>4 DEF Lengths

LEMMA RunLengthsNext == (TypeOK /\ Ownership => Lengths)'
  BY RunLengths, PTL

LEMMA QueueStep ==
  ASSUME "one_batch" \in Discipline, "checks_space" \in Discipline,
         TypeOK, TypeOK', Ownership, Ownership', [Next]_vars
  PROVE  [Queue!Next]_(Queue!vars)
<1>0. PICK n \in 0 .. NumSlots - 1 : n = Space(done, head)
  BY OneTurn DEF Ownership
<1>1. /\ n = Space(done, head) /\ n \in Nat /\ n \in 0 .. NumSlots
      /\ Space(head, tail) \in Nat /\ n + Space(head, tail) < NumSlots
      /\ slot \in [Slots -> Frames] /\ done \in Slots /\ head \in Slots
  BY <1>0, OneTurn, NumSlotsAssumption DEF Ownership, TypeOK
<1>2. Runs /\ Runs' /\ Lengths /\ Lengths'
  BY RingRuns, RingRunsNext, RunLengths, RunLengthsNext
<1>3. Wrap(done + n) = head
  BY <1>1, WrapOfSpace
<1>4. ASSUME UNCHANGED <<slot, done, head, batches>>
      PROVE  UNCHANGED <<Given, Prepared>>
  BY <1>2, <1>4 DEF Runs
<1>5. ASSUME UNCHANGED <<Given, Prepared>> PROVE [Queue!Next]_(Queue!vars)
  BY <1>5 DEF Queue!vars, Given, Prepared
<1>6. ASSUME NEW p \in Packets, MayClaim, Send(p) PROVE [Queue!Next]_(Queue!vars)
  <2>1. batches = {}
    BY <1>6 DEF MayClaim, Keeps
  <2>2. CASE UNCHANGED <<ring, kernel, batches>>
    BY <2>2, <1>4, <1>5 DEF ring, kernel
  <2>3. CASE /\ cur # tail /\ slot' = [slot EXCEPT ![cur] = Frame(p)]
             /\ Advance(NextIndex(cur)) /\ UNCHANGED <<tail, kernel, batches>>
    <3>1. cur = head /\ head' = NextIndex(head) /\ done' = done /\ batches' = {}
      BY <2>1, <2>3 DEF Ownership, CursorsAgree, Advance, kernel
    <3>2. Space(head, tail) >= 1
      BY <2>3, <3>1, <1>1, NumSlotsAssumption DEF Space, TypeOK, Slots
    <3>3. Space(done, head)' = n + 1
      <4>1. 1 \in 0 .. Space(head, tail) /\ head' = Wrap(head + 1)
        BY <1>1, <3>1, <3>2, NextIsWrap
      <4> QED
        BY <1>1, <2>3, <4>1, HeadAdvances DEF Ownership, kernel
    <3>4. slot' = [slot EXCEPT ![Wrap(done + n)] = Frame(p)] /\ Frame(p) \in Frames
      BY <2>3, <3>1, <1>3, FrameType
    <3>5. /\ slot' \in [Slots -> Frames] /\ slot'[head] = Frame(p)
          /\ Stores(head, slot, slot')
      BY <1>1, <1>3, <3>4 DEF Stores
    <3>6. Run(slot', done, n) = Run(slot, done, n)
      <4>1. n \in 0 .. Space(done, head)
        BY <1>1
      <4> QED
        BY <1>1, <3>5, <4>1, RunBeforeStore
    <3>7. Given' = Append(Given, Frame(p))
      <4>1. Run(slot', done, n + 1) = Append(Run(slot', done, n), slot'[Wrap(done + n)])
        BY <1>1, <3>5, RunAppend
      <4> QED
        BY <1>1, <1>2, <1>3, <3>1, <3>3, <3>5, <3>6, <4>1 DEF Runs
    <3>8. Prepared = <<>> /\ Prepared' = <<>>
      BY <1>2, <2>1, <3>1 DEF Runs
    <3>9. Len(Given) < NumSlots - 1
      BY <1>1, <1>2, <3>2, NumSlotsAssumption DEF Lengths
    <3>10. Queue!Enqueue(Frame(p))
      BY <3>7, <3>8, <3>9 DEF Queue!Enqueue, Given, Prepared
    <3> QED
      BY <3>4, <3>10 DEF Queue!Next
  <2> QED
    BY <1>6, <2>2, <2>3 DEF Send, Fail
<1>7. ASSUME NEW id \in Reservations, NEW i, NEW c, batches = {},
             Open(id, i, c) \/ UNCHANGED <<ring, kernel, batches>>
      PROVE  [Queue!Next]_(Queue!vars)
  <2>1. CASE UNCHANGED <<ring, kernel, batches>>
    BY <2>1, <1>4, <1>5 DEF ring, kernel
  <2>2. CASE Open(id, i, c)
    <3>1. PICK r : batches' = {r} /\ UNCHANGED <<slot, done, head, tail>>
      BY <1>7, <2>2 DEF Open, ring, kernel
    <3>2. Prepared = <<>> /\ Given' = Given
      BY <1>2, <1>7, <3>1 DEF Runs
    <3>3. /\ Prepared' \in Queue!BoundedSeqs
          /\ Len(Given) + Len(Prepared') <= NumSlots - 1
      <4>1. r \in batches' /\ Space(done, head)' = n /\ Len(Given) = n
        BY <1>1, <1>2, <3>1 DEF Lengths
      <4>2. /\ Prepared' \in Queue!BoundedSeqs /\ Len(Prepared') = r.count
            /\ Space(done, head)' + r.count <= NumSlots - 1
        BY <1>2, <4>1 DEF Lengths
      <4> QED
        BY <4>1, <4>2
    <3>4. Queue!Reserve
      BY <3>2, <3>3 DEF Queue!Reserve, Given, Prepared
    <3> QED
      BY <3>4 DEF Queue!Next
  <2> QED
    BY <1>7, <2>1, <2>2
<1>8. ASSUME NEW r \in batches, NEW i \in 0 .. NumSlots, NEW p \in Packets,
             Packet(r, i, p)
      PROVE  [Queue!Next]_(Queue!vars)
  <2>1. /\ r.start = head /\ batches = {r} /\ Prepared = Run(slot, head, r.count)
        /\ r.count \in 0 .. NumSlots - 1 /\ n + r.count <= NumSlots - 1
        /\ DOMAIN Prepared = 1 .. r.count
    BY <1>1, <1>2 DEF Ownership, ReservationsOwned, Runs, Lengths
  <2>2. CASE UNCHANGED <<ring, kernel, batches>>
    BY <2>2, <1>4, <1>5 DEF ring, kernel
  <2>3. CASE /\ i < r.count
             /\ slot' = [slot EXCEPT ![Wrap(r.start + i)] = Frame(p)]
             /\ UNCHANGED <<head, cur, tail, kernel, batches>>
    <3>1. /\ i \in 0 .. NumSlots - 1 /\ n + i \in 0 .. NumSlots - 1
          /\ r.count \in 0 .. NumSlots /\ n \in 0 .. NumSlots
          /\ Frame(p) \in Frames
      BY <1>1, <2>1, <2>3, FrameType, NumSlotsAssumption
    <3>2. PICK x \in Slots :
            x = Wrap(head + i) /\ Space(head, x) = i /\ Space(done, x) = n + i
      <4>1. i \in 0 .. Space(head, tail)
        BY <1>1, <2>1, <2>3, <3>1 DEF Ownership, ReservationsOwned
      <4> QED
        BY <1>1, <4>1, AheadOfHead DEF Ownership
    <3>3. /\ slot' \in [Slots -> Frames] /\ slot'[x] = Frame(p)
          /\ Stores(x, slot, slot')
      BY <1>1, <2>1, <2>3, <3>1, <3>2 DEF Stores
    <3>4. Run(slot', done, n) = Run(slot, done, n)
      <4>1. n \in 0 .. Space(done, x)
        BY <1>1, <3>1, <3>2
      <4> QED
        BY <1>1, <3>3, <4>1, RunBeforeStore
    <3>5. Run(slot', head, r.count) = [Run(slot, head, r.count) EXCEPT ![i + 1] = Frame(p)]
      <4>1. /\ Run(slot', head, r.count) \in [1 .. r.count -> Frames]
            /\ Run(slot, head, r.count) \in [1 .. r.count -> Frames]
        BY <1>1, <3>1, <3>3, RunType
      <4>2. ASSUME NEW k \in 1 .. r.count
            PROVE  Run(slot', head, r.count)[k]
                     = IF k = i + 1 THEN Frame(p) ELSE Run(slot, head, r.count)[k]
        <5>1. k \in 1 .. NumSlots
          BY <3>1, NumSlotsAssumption
        <5>2. Wrap(head + k - 1) \in Slots /\ (Wrap(head + k - 1) = x <=> k = i + 1)
          BY <1>1, <3>2, <5>1, RunPlace
        <5>3. slot'[Wrap(head + k - 1)]
                = IF k = i + 1 THEN Frame(p) ELSE slot[Wrap(head + k - 1)]
          BY <3>3, <5>2 DEF Stores
        <5> QED
          BY <5>3 DEF Run
      <4> QED
        BY <4>1, <4>2
    <3>6. Given' = Given /\ Prepared' = [Prepared EXCEPT ![i + 1] = Frame(p)]
      BY <1>1, <1>2, <2>1, <2>3, <3>4, <3>5 DEF Runs, kernel
    <3>7. i + 1 \in DOMAIN Prepared
      BY <2>1, <2>3, <3>1
    <3>8. Queue!Fill(i + 1, Frame(p))
      BY <3>6 DEF Queue!Fill, Given, Prepared
    <3> QED
      BY <3>1, <3>7, <3>8 DEF Queue!Next, Prepared
  <2> QED
    BY <1>8, <2>2, <2>3 DEF Packet, Fail
<1>9. ASSUME NEW r \in batches, NEW written \in 0 .. NumSlots, Commit(r, written)
      PROVE  [Queue!Next]_(Queue!vars)
  <2> DEFINE actual == IF written <= r.count THEN written ELSE r.count
  <2>1. /\ r.start = head /\ batches = {r} /\ Prepared = Run(slot, head, r.count)
        /\ r.count \in 0 .. NumSlots /\ n + r.count <= NumSlots - 1
        /\ r.count <= Space(head, tail) /\ Len(Prepared) = r.count
    <3>1. /\ r.count \in 0 .. NumSlots - 1 /\ n + r.count <= NumSlots - 1
          /\ r.count <= Space(head, tail) /\ Len(Prepared) = r.count
      BY <1>1, <1>2 DEF Lengths
    <3> QED
      BY <1>2, <3>1, NumSlotsAssumption DEF Ownership, ReservationsOwned, Runs
  <2>2. /\ actual \in 0 .. r.count /\ actual \in 0 .. Space(head, tail)
        /\ actual \in 0 .. NumSlots /\ n \in 0 .. NumSlots /\ n + actual <= NumSlots
    BY <1>1, <2>1, NumSlotsAssumption
  <2>3. /\ batches' = {} /\ UNCHANGED <<tail, slot, hwcur, done>>
        /\ head' = Wrap(head + actual)
    <3>1. Wrap(head + 0) = head
      BY <1>1, WrapOneTurn, NumSlotsAssumption DEF Slots
    <3> QED
      BY <1>9, <2>1, <3>1 DEF Commit, Advance, kernel
  <2> HIDE DEF actual
  <2>4. Space(done, head)' = n + actual
    BY <1>1, <2>2, <2>3, HeadAdvances DEF Ownership
  <2>5. Run(slot, done, n + actual) = Run(slot, done, n) \o Run(slot, head, actual)
    BY <1>1, <2>2, RunConcat
  <2>6. Run(slot, head, actual) = SubSeq(Prepared, 1, actual)
    BY <1>1, <2>1, <2>2, RunPrefix
  <2>7. Given' = Given \o SubSeq(Prepared, 1, actual) /\ Prepared' = <<>>
    BY <1>1, <1>2, <2>3, <2>4, <2>5, <2>6 DEF Runs
  <2>8. Queue!Release(actual) /\ actual \in 0 .. Len(Prepared)
    BY <2>1, <2>2, <2>7 DEF Queue!Release, Given, Prepared
  <2> QED
    BY <2>8 DEF Queue!Next, Prepared
<1>10. CASE Sync
  BY <1>10, <1>4, <1>5 DEF Sync
<1>11. CASE Transmit
  <2>1. /\ done # hwcur /\ done' = NextIndex(done)
        /\ UNCHANGED <<head, cur, tail, slot, hwcur, batches>>
    BY <1>11 DEF Transmit, ring
  <2>2. Space(done, head)' = n - 1
    BY <1>1, <2>1, TransmitKeepsOrder DEF Ownership
  <2>3. n \in 1 .. NumSlots
    <3>1. Space(done', head) \in Nat
      BY <2>1, <1>1, SpaceType, IndexInSlots
    <3> QED
      BY <1>1, <2>1, <2>2, <3>1, NumSlotsAssumption
  <2>4. /\ Run(slot, done, n) # <<>>
        /\ Run(slot, NextIndex(done), n - 1) = Tail(Run(slot, done, n))
    BY <1>1, <2>3, RunTail
  <2>5. Given # <<>> /\ Given' = Tail(Given) /\ Prepared' = Prepared
    BY <1>1, <1>2, <2>1, <2>2, <2>4 DEF Runs
  <2>6. Queue!Transmit
    BY <2>5 DEF Queue!Transmit, Given, Prepared
  <2> QED
    BY <2>6 DEF Queue!Next
<1>12. CASE UNCHANGED vars
  BY <1>12, <1>4, <1>5 DEF vars, ring, kernel
<1>13. ASSUME NEW id \in Reservations, NEW c \in 0 .. NumSlots, MayClaim,
              ReserveBatch(id, c) \/ ReserveAll(id)
       PROVE  [Queue!Next]_(Queue!vars)
  <2>1. batches = {}
    BY <1>13 DEF MayClaim, Keeps
  <2> QED
    BY <1>7, <1>13, <2>1 DEF ReserveBatch, ReserveAll, Fail
<1> QED
  BY <1>6, <1>8, <1>9, <1>10, <1>11, <1>12, <1>13, NumSlotsAssumption DEF Next

\* What send and commit put in the ring leaves it once, in order and unchanged,
\* and of a batch only what commit releases, whatever syncs fail and however
\* far behind the device is.
THEOREM RingImplementsQueue ==
  ASSUME "one_batch" \in Discipline, "checks_space" \in Discipline
  PROVE  Spec => ImplementsQueue
<1>1. Init => Queue!Init
  <2> SUFFICES ASSUME Init PROVE Queue!Init
    OBVIOUS
  <2>1. Space(done, head) = 0 /\ batches = {}
    BY NumSlotsAssumption DEF Init, Space
  <2>2. Given = <<>> /\ Prepared = <<>>
    BY <2>1 DEF Given, FramesFrom, Prepared
  <2> QED
    BY <2>2 DEF Queue!Init, Given, Prepared
<1>2. TypeOK /\ TypeOK' /\ Ownership /\ Ownership' /\ [Next]_vars
        => [Queue!Next]_(Queue!vars)
  BY QueueStep
<1> QED
  BY <1>1, <1>2, TypeCorrect, OwnershipInvariant, PTL
  DEF Spec, ImplementsQueue, Queue!Spec
=============================================================================
