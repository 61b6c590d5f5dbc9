----------------------- MODULE TrafficGeneratorProofs -----------------------
(***************************************************************************)
(* Theorems about TrafficGenerator: it is one of the callers that TxRing   *)
(* allows, so that what is proved of them holds of it, it never begins a   *)
(* batch while an earlier one waits for the kernel, and the headers that   *)
(* TrafficGenerator counts are the packets that PacketTemplate computes.   *)
(***************************************************************************)
EXTENDS TrafficGenerator, PacketTemplate, TxRingProofs

\* While a batch is filled it is all that the program owns, and the kernel has
\* taken everything before it.
Filling ==
  pc = "fill" =>
    i < Batches /\ \E r \in batches :
      /\ batches = {r}
      /\ r.start = head /\ r.count = Space(head, tail)
      /\ z <= r.count /\ written = z
      /\ hwcur = head

\* Between batches, either nothing waits for a sync or nothing is free.
Between ==
  pc # "fill" => batches = {} /\ (hwcur = head \/ head = tail)

LoopInv == GenTypeOK /\ CursorsAgree /\ Filling /\ Between

LEMMA LoopInit == GenInit => LoopInv
  BY GenConstants, NumSlotsAssumption
  DEF GenInit, Init, LoopInv, GenTypeOK, Steps, CursorsAgree, Filling, Between

\* A step of the program or the device is a step of TxRing that keeps to every
\* discipline, or none.
LEMMA LoopStepIsRingStep ==
  ASSUME TypeOK, LoopInv, [GenNext]_genVars
  PROVE  [Next]_vars
<1> USE DEF LoopInv, GenTypeOK
<1>1. CASE Reserve
  <2>1. batches = {} /\ batchId \in Reservations
    BY <1>1, GenConstants DEF Reserve, Between
  <2> QED
    BY <1>1, <2>1 DEF Reserve, Next, MayClaim, Keeps
<1>2. CASE FillOne
  <2>1. PICK r \in batches : Packet(r, z, current)
    BY <1>2 DEF FillOne
  <2>2. Keeps("fits_buffer", Length[current] <= BufSize)
    BY GenConstants DEF Keeps
  <2> QED
    BY <2>1, <2>2 DEF Next
<1>3. CASE CommitBatch
  BY <1>3 DEF CommitBatch, Next
<1>4. CASE HandOver \/ Retry \/ Poll
  BY <1>4 DEF HandOver, Retry, Poll, SyncThen, Next
<1>5. CASE Exit
  BY <1>5 DEF Exit
<1>6. CASE Device
  BY <1>6 DEF Device, Next
<1>7. CASE UNCHANGED genVars
  BY <1>7 DEF genVars
<1> QED
  BY <1>1, <1>2, <1>3, <1>4, <1>5, <1>6, <1>7 DEF GenNext, Program

LEMMA LoopStep ==
  ASSUME TypeOK, TypeOK', LoopInv, [GenNext]_genVars
  PROVE  LoopInv'
<1> USE DEF GenTypeOK, Steps, CursorsAgree
<1>1. CASE Reserve
  <2>1. pc = "reserve" /\ batches = {} /\ cur = head /\ (hwcur = head \/ head = tail)
    BY <1>1 DEF Reserve, LoopInv, Between
  <2>2. CASE Space(cur, tail) = 0 /\ Fail("InsufficientSpace")
    BY <1>1, <2>1, <2>2
    DEF Reserve, LoopInv, Filling, Between, Goto, Fail, Return, ring, kernel
  <2>3. CASE Space(cur, tail) > 0 /\ Open(batchId, cur, Space(cur, tail))
    <3> DEFINE r == [id |-> batchId, start |-> cur, count |-> Space(cur, tail)]
    <3>1. hwcur = head
      BY <2>1, <2>3 DEF Space, TypeOK, Slots
    <3>2. batches' = {r} /\ UNCHANGED <<ring, kernel>> /\ result' = "Ok"
      BY <2>1, <2>3 DEF Open, Return
    <3>3. /\ pc' = "fill" /\ z' = 0 /\ written' = 0 /\ UNCHANGED <<i, current>>
          /\ i < Batches
      BY <1>1, <3>2 DEF Reserve, Goto
    <3>4. Space(head, tail) \in 0 .. NumSlots - 1
      BY SpaceType DEF TypeOK
    <3>5. Filling'
      BY <2>1, <3>1, <3>2, <3>3, <3>4 DEF Filling, ring, kernel
    <3> QED
      BY <2>1, <3>2, <3>3, <3>5, NumSlotsAssumption
      DEF LoopInv, Between, ring, kernel
  <2> QED
    BY <1>1, <2>2, <2>3 DEF Reserve, ReserveAll
<1>2. CASE FillOne
  <2>1. PICK r \in batches :
          /\ pc = "fill" /\ z < r.count
          /\ Packet(r, z, current)
          /\ IF result' = "Ok"
               THEN written' = written + 1 /\ current' = NextHeader(current)
               ELSE UNCHANGED <<written, current>>
          /\ z' = z + 1
          /\ UNCHANGED <<pc, i>>
    BY <1>2 DEF FillOne
  <2>2. /\ batches = {r} /\ r.start = head /\ r.count = Space(head, tail)
        /\ written = z /\ hwcur = head /\ i < Batches
    BY <2>1 DEF LoopInv, Filling
  <2>3. r.count \in 0 .. NumSlots - 1
    BY <2>2, SpaceType DEF TypeOK
  <2>4. result' = "Ok" /\ UNCHANGED <<head, cur, tail, kernel, batches>>
    BY <2>1, <2>3 DEF Packet, Return, LoopInv
  <2>5. NextHeader(current) \in Packets
    BY GenConstants DEF NextHeader, LoopInv
  <2>6. z' \in 0 .. NumSlots /\ written' = z' /\ z' <= r.count
    <3>1. written' = written + 1 /\ z' = z + 1 /\ z < r.count
      BY <2>1, <2>4
    <3>2. z \in Nat /\ written = z /\ r.count \in 0 .. NumSlots
      BY <2>2, <2>3, NumSlotsAssumption DEF LoopInv
    <3> QED
      BY <3>1, <3>2, NumSlotsAssumption
  <2>7. Filling'
    <3>1. UNCHANGED <<pc, i, head, tail, hwcur, batches>>
      BY <2>1, <2>4 DEF kernel
    <3> QED
      BY <2>2, <2>6, <3>1 DEF Filling
  <2>8. current' \in Packets /\ pc' = "fill" /\ i' = i /\ cur' = head'
    <3>1. current' = NextHeader(current)
      BY <2>1, <2>4
    <3>2. UNCHANGED <<pc, i, head, cur>>
      BY <2>1, <2>4
    <3> QED
      BY <2>1, <2>5, <3>1, <3>2 DEF LoopInv
  <2>9. GenTypeOK'
    BY <2>6, <2>8, <2>2, <2>1 DEF LoopInv
  <2> QED
    BY <2>7, <2>8, <2>9 DEF LoopInv, Between
<1>3. CASE CommitBatch
  <2>1. PICK r \in batches :
          /\ pc = "fill" /\ z = r.count
          /\ Commit(r, written)
          /\ i' = i + 1
          /\ Goto("hand_over")
          /\ UNCHANGED <<z, written, current>>
    BY <1>3 DEF CommitBatch
  <2>2. /\ batches = {r} /\ r.start = head /\ r.count = Space(head, tail)
        /\ written = r.count /\ cur = head
    BY <2>1 DEF LoopInv, Filling
  <2>3. head \in Slots /\ tail \in Slots /\ r.count \in 0 .. NumSlots - 1
    BY <2>2, SpaceType DEF TypeOK
  <2>4. Wrap(head + Space(head, tail)) = tail
    BY <2>3, WrapOneTurn, NumSlotsAssumption DEF Space, Slots
  <2>5. head' = tail /\ cur' = tail /\ tail' = tail /\ batches' = {}
    <3>1. tail' = tail /\ batches' = {}
      BY <2>1, <2>2 DEF Commit
    <3>2. CASE r.count = 0 /\ UNCHANGED <<head, cur>>
      <4>1. head = tail
        BY <2>2, <2>3, <3>2, NumSlotsAssumption DEF Space, Slots
      <4> QED
        BY <2>2, <3>1, <3>2, <4>1
    <3>3. CASE r.count # 0 /\ Advance(Wrap(r.start + r.count))
      BY <2>2, <2>4, <3>1, <3>3 DEF Advance
    <3>4. (IF written <= r.count THEN written ELSE r.count) = r.count
      BY <2>2, <2>3
    <3> QED
      BY <2>1, <3>2, <3>3, <3>4 DEF Commit
  <2>6. i' \in 0 .. Batches
    BY <2>1, GenConstants DEF LoopInv, Filling
  <2> QED
    BY <2>1, <2>5, <2>6 DEF LoopInv, Filling, Between, Goto
<1>4. CASE HandOver \/ Retry \/ Poll
  <2>1. /\ Sync /\ pc # "fill" /\ pc' \in {"reserve", "poll"}
        /\ UNCHANGED loop
    BY <1>4 DEF HandOver, Retry, Poll, SyncThen, Goto
  <2>2. hwcur' = head \/ UNCHANGED <<hwcur, tail>>
    BY <2>1 DEF Sync, TxSync
  <2> QED
    BY <2>1, <2>2 DEF LoopInv, Filling, Between, Sync, loop
<1>5. CASE Exit
  BY <1>5 DEF Exit, LoopInv, Filling, Between, Goto, vars, ring, kernel, loop
<1>6. CASE Device
  BY <1>6 DEF Device, Transmit, LoopInv, Filling, Between, ring, loop
<1>7. CASE UNCHANGED genVars
  BY <1>7 DEF genVars, vars, LoopInv, Filling, Between, ring, kernel, loop
<1> QED
  BY <1>1, <1>2, <1>3, <1>4, <1>5, <1>6, <1>7 DEF GenNext, Program

LEMMA LoopInvariant == GenSpec => [](TypeOK /\ LoopInv)
<1>1. GenInit => TypeOK /\ LoopInv
  BY LoopInit, TypeInit DEF GenInit
<1>2. TypeOK /\ LoopInv /\ [GenNext]_genVars => (TypeOK /\ LoopInv)'
  BY LoopStepIsRingStep, LoopStep, TypeStep
<1> QED
  BY <1>1, <1>2, PTL DEF GenSpec

\* Every behaviour of the generator is one of the ring with a caller that keeps
\* to its discipline.
THEOREM GeneratorKeepsDiscipline == GenSpec => KeepsDiscipline
<1>1. GenInit => Init
  BY DEF GenInit
<1>2. TypeOK /\ LoopInv /\ [GenNext]_genVars => [Next]_vars
  BY LoopStepIsRingStep
<1> QED
  BY <1>1, <1>2, LoopInvariant, PTL DEF GenSpec, KeepsDiscipline, Spec

\* The loop's own variables keep their types, so that no index of a packet
\* and no header leaves its range.
THEOREM GeneratorTypeCorrect == GenSpec => []GenTypeOK
<1>1. LoopInv => GenTypeOK
  BY DEF LoopInv
<1> QED
  BY <1>1, LoopInvariant, PTL

\* A failed hand over is made good before another batch is begun.
THEOREM OneBatchWaitsInvariant == GenSpec => []OneBatchWaits
<1>1. LoopInv => OneBatchWaits
  BY DEF LoopInv, Filling, Between, OneBatchWaits
<1> QED
  BY <1>1, LoopInvariant, PTL

(***************************************************************************)
(* The generator never writes outside the slots that the program owns, and *)
(* the headers it sends follow one another.  Nothing is assumed of the     *)
(* discipline here: the loop keeps to it by itself.                        *)
(***************************************************************************)
\* The reservation of the loop is the one that its invariant describes.
LEMMA LoopOwns == TypeOK /\ LoopInv /\ CircularOrder => Ownership
<1>1. CASE pc = "fill"
  BY <1>1, SpaceType
  DEF TypeOK, LoopInv, Filling, Ownership, ReservationsOwned, OneReservation
<1>2. CASE pc # "fill"
  BY <1>2
  DEF LoopInv, Between, Ownership, ReservationsOwned, OneReservation
<1> QED
  BY <1>1, <1>2

\* The number of slots in flight or filled, and the slot that is filled next.
LEMMA FilledSlots ==
  ASSUME TypeOK, LoopInv, CircularOrder
  PROVE  /\ Filled \in 0 .. NumSlots - 1
         /\ \A r \in batches :
              z < r.count =>
                /\ Filled + 1 \in 0 .. NumSlots - 1
                /\ Wrap(r.start + z) = Wrap(done + Filled)
<1>1. /\ Space(done, head) \in Nat /\ Space(head, tail) \in Nat
      /\ Space(done, head) + Space(head, tail) < NumSlots
  BY OneTurn
<1>2. ASSUME NEW r \in batches
      PROVE  /\ r.start = head /\ r.count = Space(head, tail)
             /\ written = z /\ z \in 0 .. r.count
             /\ Filled = Space(done, head) + z
  BY SpaceType DEF LoopInv, GenTypeOK, Filling, Between, Filled
<1>3. Filled \in 0 .. NumSlots - 1
  <2>1. CASE batches = {}
    BY <1>1, <2>1, NumSlotsAssumption DEF Filled
  <2>2. ASSUME NEW r \in batches PROVE Filled \in 0 .. NumSlots - 1
    BY <1>1, <1>2, NumSlotsAssumption
  <2> QED
    BY <2>1, <2>2
<1>4. ASSUME NEW r \in batches, z < r.count
      PROVE  /\ Filled + 1 \in 0 .. NumSlots - 1
             /\ Wrap(r.start + z) = Wrap(done + Filled)
  <2>1. /\ Wrap(head + z) \in Slots
        /\ Space(done, Wrap(head + z)) = Space(done, head) + z
    BY <1>2, AheadOfHead
  <2>2. Wrap(done + Space(done, Wrap(head + z))) = Wrap(head + z)
    BY <2>1, WrapOfSpace DEF TypeOK
  <2> QED
    BY <1>1, <1>2, <1>4, <2>1, <2>2, NumSlotsAssumption
<1> QED
  BY <1>3, <1>4

\* Division with remainder, for a divisor that is not a numeral.
LEMMA Division ==
  ASSUME NEW d \in Nat \ {0}, NEW x \in Int
  PROVE  \E q \in Int, r \in 0 .. d - 1 : x % d = r /\ x = d * q + r
<1>1. x \div d \in Int /\ x % d \in 0 .. d - 1 /\ x = d * (x \div d) + (x % d)
  OBVIOUS
<1> QED
  BY <1>1

\* A remainder does not change when the divisor is added.
LEMMA RemainderPeriod ==
  ASSUME NEW d \in Nat \ {0}, NEW x \in Int
  PROVE  (x + d) % d = x % d
<1>1. PICK q \in Int, r \in 0 .. d - 1 : x % d = r /\ x = d * q + r
  BY Division
<1>2. x + d \in Int
  OBVIOUS
<1>3. PICK s \in Int, t \in 0 .. d - 1 : (x + d) % d = t /\ x + d = d * s + t
  BY <1>2, Division
<1>4. d * q + r + d = d * s + t
  BY <1>1, <1>3
<1>5. d * (s - q - 1) = r - t
  BY <1>4
<1>6. ASSUME NEW e \in Int, -d < d * e, d * e < d PROVE e = 0
  <2>1. CASE e >= 1
    BY <1>6, <2>1
  <2>2. CASE e <= -1
    BY <1>6, <2>2
  <2> QED
    BY <2>1, <2>2
<1>7. s - q - 1 = 0
  BY <1>5, <1>6
<1> QED
  BY <1>1, <1>3, <1>5, <1>7

\* What lies k + 1 headers before the next header lies k before this one.
LEMMA HeadersBack ==
  ASSUME NEW p \in Packets, NEW k \in Nat
  PROVE  (NextHeader(p) - (k + 1)) % Headers = (p - k) % Headers
<1>1. Headers \in Nat \ {0} /\ p \in 0 .. Headers - 1
  BY GenConstants
<1>2. CASE p + 1 < Headers
  <2>1. NextHeader(p) = p + 1
    BY <1>1, <1>2 DEF NextHeader
  <2> QED
    BY <1>1, <2>1
<1>3. CASE p + 1 = Headers
  <2>1. NextHeader(p) = 0
    BY <1>1, <1>3 DEF NextHeader
  <2>2. p - k = -(k + 1) + Headers
    BY <1>1, <1>3
  <2>3. -(k + 1) \in Int /\ 0 - (k + 1) = -(k + 1)
    OBVIOUS
  <2> QED
    BY <1>1, <2>1, <2>2, <2>3, RemainderPeriod
<1> QED
  BY <1>1, <1>2, <1>3

LEMMA HeadersStep ==
  ASSUME TypeOK, TypeOK', LoopInv, CircularOrder, SuccessiveHeaders,
         [GenNext]_genVars
  PROVE  CircularOrder' /\ SuccessiveHeaders'
<1> USE DEF LoopInv, GenTypeOK
<1>a. /\ Space(done, head) \in Nat /\ Space(head, tail) \in Nat
      /\ Space(done, head) + Space(head, tail) < NumSlots
  BY OneTurn
<1>b. ASSUME UNCHANGED <<slot, done, current>>, Filled' = Filled
      PROVE  SuccessiveHeaders'
  BY <1>b DEF SuccessiveHeaders
<1>c. ASSUME batches = {}, batches' = {}, UNCHANGED <<done, head>>
      PROVE  Filled' = Filled
  BY <1>c DEF Filled
<1>1. CASE Reserve
  <2>1. batches = {}
    BY <1>1 DEF Reserve, Between
  <2>2. UNCHANGED <<head, tail, slot, hwcur, done, current>>
    BY <1>1 DEF Reserve, ReserveAll, Open, Fail, ring, kernel
  <2>3. Filled' = Filled
    <3>1. CASE batches' = {}
      BY <2>1, <2>2, <3>1, <1>c
    <3>2. CASE written' = 0
      BY <2>1, <2>2, <3>2, <1>a DEF Filled
    <3> QED
      BY <1>1, <2>1, <3>1, <3>2
      DEF Reserve, ReserveAll, Open, Fail, Return
  <2> QED
    BY <2>2, <2>3, <1>b DEF CircularOrder
<1>2. CASE FillOne
  <2>1. PICK r \in batches :
          /\ pc = "fill" /\ z < r.count
          /\ Packet(r, z, current)
          /\ IF result' = "Ok"
               THEN written' = written + 1 /\ current' = NextHeader(current)
               ELSE UNCHANGED <<written, current>>
    BY <1>2 DEF FillOne
  <2>2. r.count \in 0 .. NumSlots
    BY DEF TypeOK, BatchReservation
  <2>3. /\ Filled \in 0 .. NumSlots - 1 /\ Filled + 1 \in 0 .. NumSlots - 1
        /\ Wrap(r.start + z) = Wrap(done + Filled)
    BY <2>1, FilledSlots
  <2>4. /\ UNCHANGED <<head, tail, hwcur, done, batches>>
        /\ written' = written + 1 /\ current' = NextHeader(current)
        /\ slot' = [slot EXCEPT ![Wrap(done + Filled)] = Frame(current)]
    BY <2>1, <2>2, <2>3 DEF Packet, Return, kernel
  <2>5. Filled' = Filled + 1
    BY <2>1, <2>4, <1>a DEF Filled
  <2>6. /\ \A m \in 0 .. NumSlots - 1 :
             Wrap(done + m) \in Slots /\ Space(done, Wrap(done + m)) = m
    BY SpaceOfWrap, IndexInSlots, NumSlotsAssumption DEF TypeOK
  <2>7. ASSUME NEW k \in 1 .. Filled + 1
        PROVE  slot'[Wrap(done + (Filled + 1 - k))].pkt
                 = (NextHeader(current) - k) % Headers
    <3>1. Filled + 1 - k \in 0 .. NumSlots - 1 /\ k - 1 \in Nat /\ k = (k - 1) + 1
      BY <2>3, NumSlotsAssumption
    <3>2. (NextHeader(current) - k) % Headers = (current - (k - 1)) % Headers
      BY <3>1, HeadersBack
    <3>3. CASE k = 1
      <4>1. (current - (k - 1)) % Headers = current
        BY <3>3, GenConstants
      <4>2. Filled + 1 - k = Filled
        BY <2>3, <3>3
      <4> QED
        BY <2>3, <2>4, <2>6, <3>2, <4>1, <4>2 DEF Frame, TypeOK
    <3>4. CASE k # 1
      <4>1. /\ k - 1 \in 1 .. Filled
            /\ Filled + 1 - k = Filled - (k - 1) /\ Filled + 1 - k # Filled
        BY <2>3, <3>4
      <4>2. Wrap(done + (Filled + 1 - k)) # Wrap(done + Filled)
        BY <2>3, <2>6, <3>1, <4>1
      <4>3. slot'[Wrap(done + (Filled + 1 - k))] = slot[Wrap(done + (Filled + 1 - k))]
        BY <2>3, <2>4, <2>6, <3>1, <4>2 DEF TypeOK
      <4>4. done + (Filled + 1 - k) = done + Filled - (k - 1)
        BY <2>3, <3>1 DEF TypeOK, Slots
      <4> QED
        BY <3>2, <4>1, <4>3, <4>4 DEF SuccessiveHeaders
    <3> QED
      BY <3>3, <3>4
  <2>8. ASSUME NEW k \in 1 .. Filled'
        PROVE  slot'[Wrap(done' + Filled' - k)].pkt = (current' - k) % Headers
    <3>1. done' + Filled' - k = done + (Filled + 1 - k)
      BY <2>3, <2>4, <2>5 DEF TypeOK, Slots
    <3> QED
      BY <2>4, <2>5, <2>7, <3>1
  <2> QED
    BY <2>4, <2>8 DEF CircularOrder, SuccessiveHeaders
<1>3. CASE CommitBatch
  <2>1. PICK r \in batches : pc = "fill" /\ Commit(r, written) /\ z = r.count
    BY <1>3 DEF CommitBatch
  <2>2. /\ batches = {r} /\ r.start = head /\ r.count = Space(head, tail)
        /\ written = r.count
    BY <2>1 DEF Filling
  <2>3. Wrap(head + 0) = head
    BY WrapOneTurn, NumSlotsAssumption DEF TypeOK, Slots
  <2>4. /\ batches' = {} /\ UNCHANGED <<tail, slot, hwcur, done>>
        /\ head' = Wrap(head + Space(head, tail))
    BY <2>1, <2>2, <2>3, <1>a DEF Commit, Advance, kernel
  <2>5. CircularOrder' /\ Space(done, head)' = Space(done, head) + Space(head, tail)
    <3>1. Space(head, tail) \in 0 .. Space(head, tail)
      BY <1>a
    <3> QED
      BY <2>4, <3>1, HeadAdvances
  <2>6. Filled' = Filled
    BY <2>2, <2>4, <2>5, <1>a DEF Filled
  <2> QED
    BY <1>3, <2>4, <2>5, <2>6, <1>b DEF CommitBatch
<1>4. CASE HandOver \/ Retry \/ Poll
  <2>1. Sync /\ batches = {} /\ UNCHANGED loop
    BY <1>4 DEF HandOver, Retry, Poll, SyncThen, Between
  <2>2. CircularOrder'
    BY <2>1, SyncKeepsOrder DEF Sync
  <2> QED
    BY <2>1, <2>2, <1>b, <1>c DEF Sync, loop
<1>5. CASE Device
  <2>1. /\ done # hwcur /\ done' = NextIndex(done)
        /\ UNCHANGED <<head, tail, slot, hwcur, batches, written, current>>
    BY <1>5 DEF Device, Transmit, ring, loop
  <2>2. CircularOrder' /\ Space(done', head) = Space(done, head) - 1
    BY <2>1, TransmitKeepsOrder
  <2>3. Filled \in 0 .. NumSlots - 1
    BY FilledSlots
  <2>4. Filled' = Filled - 1
    BY <2>1, <2>2, <1>a DEF Filled
  <2>5. ASSUME NEW k \in 1 .. Filled - 1
        PROVE  Wrap(NextIndex(done) + (Filled - 1) - k) = Wrap(done + Filled - k)
    BY <2>3, WrapOneTurn, NumSlotsAssumption DEF NextIndex, TypeOK, Slots
  <2> QED
    BY <2>1, <2>2, <2>3, <2>4, <2>5 DEF SuccessiveHeaders
<1>6. CASE Exit \/ UNCHANGED genVars
  <2>1. UNCHANGED <<vars, loop>>
    BY <1>6 DEF Exit, genVars
  <2> QED
    BY <2>1, <1>b DEF vars, ring, kernel, loop, CircularOrder, Filled
<1> QED
  BY <1>1, <1>2, <1>3, <1>4, <1>5, <1>6 DEF GenNext, Program

LEMMA HeadersInvariant ==
  GenSpec => [](TypeOK /\ LoopInv /\ CircularOrder /\ SuccessiveHeaders)
<1>1. GenInit => CircularOrder /\ SuccessiveHeaders
  <2> SUFFICES ASSUME GenInit PROVE CircularOrder /\ SuccessiveHeaders
    OBVIOUS
  <2>1. CircularOrder
    BY OwnershipInit DEF GenInit, Ownership
  <2>2. Filled = 0
    BY NumSlotsAssumption DEF GenInit, Init, Filled, Space
  <2> QED
    BY <2>1, <2>2 DEF SuccessiveHeaders
<1>2. /\ TypeOK /\ TypeOK' /\ LoopInv /\ CircularOrder /\ SuccessiveHeaders
      /\ [GenNext]_genVars
      => (CircularOrder /\ SuccessiveHeaders)'
  BY HeadersStep
<1> QED
  BY <1>1, <1>2, LoopInvariant, PTL DEF GenSpec

\* The device transmits the headers one after another: none is skipped, none
\* repeated, and no slot is given away with what it held before.
THEOREM HeadersFollowOneAnother == GenSpec => []SuccessiveHeaders
  BY HeadersInvariant, PTL

\* The generator keeps the indices of the ring in order and its reservation
\* within the slots that are lent to it.
THEOREM GeneratorOwnership == GenSpec => []Ownership
  BY HeadersInvariant, LoopOwns, PTL

\* What the generator commits leaves the ring once, in order and unchanged.
\* GenSpec does not depend on Discipline; the assumptions say which of the
\* callers of TxRing the loop is compared with.
COROLLARY GeneratorImplementsQueue ==
  ASSUME "one_batch" \in Discipline, "checks_space" \in Discipline
  PROVE  GenSpec => ImplementsQueue
<1>1. GenSpec => Spec
  BY GeneratorKeepsDiscipline DEF KeepsDiscipline
<1>2. Spec => ImplementsQueue
  BY RingImplementsQueue
<1> QED
  BY <1>1, <1>2, PTL

(***************************************************************************)
(* The headers of TrafficGenerator are numbers.  That this loses nothing   *)
(* of the packets is shown here, from the arithmetic of PacketTemplate.    *)
(***************************************************************************)
\* What the addition of nothing and the subtraction of c from the upper half
\* make of a lane whose lower half is not 0: no borrow leaves that half.
LEMMA AddAndSubtract ==
  ASSUME NEW hi \in Int, 0 <= hi, hi <= 65535,
         NEW lo \in Int, 0 < lo, lo <= 65535, NEW c \in {0, 1}
  PROVE  Minus(Plus(Lane(hi, lo), Zero), Lane(c, 0)) = Lane((hi - c) % 65536, lo)
<1>1. c = 0 \/ c = 1
  OBVIOUS
<1>2. Plus(Lane(hi, lo), Zero) = Lane(hi, lo)
  <2>1. (lo + 0) \div 65536 = 0 /\ (lo + 0) % 65536 = lo
    BY <1>1
  <2>2. (hi + 0 + 0) % 65536 = hi
    BY <1>1
  <2> QED
    BY <2>1, <2>2 DEF Plus, Lane, Zero
<1>3. Plus(Lane(hi, lo), Lane(65535 - c, 65535)) =
        Lane((hi + (65535 - c) + 1) % 65536, lo - 1)
  <2>1. (lo + 65535) \div 65536 = 1 /\ (lo + 65535) % 65536 = lo - 1
    BY <1>1
  <2> QED
    BY <2>1 DEF Plus, Lane
<1>4. (hi + (65535 - c) + 1) % 65536 = (hi - c) % 65536
  <2>1. CASE hi < c
    BY <1>1, <2>1
  <2>2. CASE hi >= c
    BY <1>1, <2>2
  <2> QED
    BY <1>1, <2>1, <2>2
<1>5. Plus(Lane((hi - c) % 65536, lo - 1), Lane(0, 1)) = Lane((hi - c) % 65536, lo)
  <2>1. (lo - 1 + 1) \div 65536 = 0 /\ (lo - 1 + 1) % 65536 = lo
    BY <1>1
  <2>2. (((hi - c) % 65536) + 0 + 0) % 65536 = (hi - c) % 65536
    BY <1>1
  <2> QED
    BY <2>1, <2>2 DEF Plus, Lane
<1>6. Minus(Lane(hi, lo), Lane(c, 0)) =
        Plus(Plus(Lane(hi, lo), Lane(65535 - c, 65535)), Lane(0, 1))
  BY DEF Minus, Lane
<1> QED
  BY <1>2, <1>3, <1>4, <1>5, <1>6

\* The lanes of the template that the blend mask names.
LEMMA TemplateLanes ==
  /\ Template[4] = Lane(1, 46)
  /\ Template[6] = Lane(49320, 5)
  /\ Template[7] = Lane(49320, 257)
  /\ DOMAIN Template = Lanes
  /\ Template = [l \in Lanes |-> Template[l]]
  BY DEF Template, Lanes

\* The n-th packet, lane by lane.
LEMMA NthLanes ==
  ASSUME NEW n
  PROVE  NthPacket(n) =
           [l \in Lanes |-> IF l = 6 THEN Lane((49320 - n) % 65536, 5)
                                     ELSE Template[l]]
<1> DEFINE new == Lane((49320 - n) % 65536, 5)
<1>1. NthPacket(n) = [Template EXCEPT ![6] = new]
  BY DEF NthPacket
<1> HIDE DEF new
<1>2. [Template EXCEPT ![6] = new] =
        [l \in DOMAIN Template |-> IF l = 6 THEN new ELSE Template[l]]
  OBVIOUS
<1>3. DOMAIN Template = Lanes
  BY TemplateLanes
<1>4. NthPacket(n) = [l \in Lanes |-> IF l = 6 THEN new ELSE Template[l]]
  BY <1>1, <1>2, <1>3
<1> QED
  BY <1>4 DEF new

\* The same lanes of the vectors.
LEMMA VectorLanes ==
  /\ Increment[4] = Zero /\ Increment[6] = Zero /\ Increment[7] = Zero
  /\ Decrement[4] = Zero /\ Decrement[6] = Lane(1, 0) /\ Decrement[7] = Zero
  /\ Trigger[4] = Zero /\ Trigger[6] = Lane(0, 49320) /\ Trigger[7] = Zero
  BY DEF Increment, Decrement, Trigger, Vector, Lanes

\* One step of the lane arithmetic takes the n-th packet to the one after it:
\* of lanes 4, 6 and 7 only lane 6 changes, and the correction never applies.
LEMMA NextOfNth ==
  ASSUME NEW n \in Int, 0 <= n, n <= 65535
  PROVE  NextPacket(NthPacket(n)) = NthPacket((n + 1) % 65536)
<1> DEFINE p == NthPacket(n)
           c(m) == (49320 - m) % 65536
<1>1. \A l \in Lanes : p[l] = IF l = 6 THEN Lane(c(n), 5) ELSE Template[l]
  BY NthLanes
<1>2. ASSUME NEW l \in {4, 7}
      PROVE  Minus(Plus(p[l], Increment[l]), Decrement[l]) = Template[l]
             /\ Template[l] # Trigger[l]
  <2>1. p[l] = Template[l]
    BY <1>1 DEF Lanes
  <2>2. Minus(Plus(Lane(1, 46), Zero), Lane(0, 0)) = Lane(1 % 65536, 46)
    BY AddAndSubtract
  <2>3. Minus(Plus(Lane(49320, 257), Zero), Lane(0, 0)) = Lane(49320 % 65536, 257)
    BY AddAndSubtract
  <2>4. 1 % 65536 = 1 /\ 49320 % 65536 = 49320
    OBVIOUS
  <2> QED
    BY <2>1, <2>2, <2>3, <2>4, TemplateLanes, VectorLanes DEF Zero, Lane
<1>3. Minus(Plus(p[6], Increment[6]), Decrement[6]) = Lane(c((n + 1) % 65536), 5)
  <2>1. c(n) \in Int /\ 0 <= c(n) /\ c(n) <= 65535
    OBVIOUS
  <2>2. Minus(Plus(Lane(c(n), 5), Zero), Lane(1, 0)) = Lane((c(n) - 1) % 65536, 5)
    <3> HIDE DEF c
    <3> QED
      BY <2>1, AddAndSubtract
  <2>3. (c(n) - 1) % 65536 = c((n + 1) % 65536)
    OBVIOUS
  <2> QED
    BY <1>1, <2>2, <2>3, VectorLanes DEF Lanes
<1>4. Lane(c((n + 1) % 65536), 5) # Trigger[6]
  BY VectorLanes DEF Lane
<1>5. ASSUME NEW l \in Lanes
      PROVE  NextPacket(p)[l] =
               IF l = 6 THEN Lane(c((n + 1) % 65536), 5) ELSE Template[l]
  <2>1. CASE l = 6
    BY <1>3, <1>4, <2>1 DEF NextPacket, BlendMask, Lanes
  <2>2. CASE l \in {4, 7}
    BY <1>2, <2>2 DEF NextPacket, BlendMask, Lanes
  <2>3. CASE l \notin BlendMask
    BY <2>3 DEF NextPacket, BlendMask, Lanes
  <2> QED
    BY <2>1, <2>2, <2>3 DEF BlendMask
<1>6. NextPacket(p) = [l \in Lanes |-> NextPacket(p)[l]]
  BY DEF NextPacket
<1> QED
  BY <1>5, <1>6, NthLanes

LEMMA HeaderRange == \A p \in Packets : p \in Int /\ 0 <= p /\ p <= Headers - 1
  BY GenConstants

\* With 2^16 headers the numbers are the packets: 0 is the template, two
\* numbers are two packets, and the lane arithmetic of main.rs takes the packet
\* of a header to the packet of the next.  Only the upper half of lane 6, the
\* first half of the source address, is ever anything but the template's: the
\* fields that main.rs:84 wants to advance, in lanes 8 and 9, do not, and nor
\* does the checksum, in the lower half of lane 6.
THEOREM HeadersArePackets ==
  ASSUME Headers = 65536
  PROVE  /\ NthPacket(0) = Template
         /\ \A p \in Packets : NextPacket(NthPacket(p)) = NthPacket(NextHeader(p))
         /\ \A p, q \in Packets : NthPacket(p) = NthPacket(q) => p = q
         /\ \A p \in Packets, l \in Lanes \ {6} : NthPacket(p)[l] = Template[l]
         /\ \A p \in Packets : NthPacket(p)[6].lo = Template[6].lo
<1>1. \A p \in Packets : p \in Int /\ 0 <= p /\ p <= 65535
  BY HeaderRange
<1>2. NthPacket(0) = Template
  <2>1. (49320 - 0) % 65536 = 49320
    OBVIOUS
  <2>2. NthPacket(0) =
          [l \in Lanes |-> IF l = 6 THEN Lane(49320, 5) ELSE Template[l]]
    BY <2>1, NthLanes
  <2>3. NthPacket(0) = [l \in Lanes |-> Template[l]]
    BY <2>2, TemplateLanes
  <2> QED
    BY <2>3, TemplateLanes
<1>3. ASSUME NEW p \in Packets
      PROVE  NextPacket(NthPacket(p)) = NthPacket(NextHeader(p))
  <2>1. p \in Int /\ 0 <= p /\ p <= 65535
    BY <1>1
  <2>2. NextHeader(p) = (p + 1) % 65536
    BY DEF NextHeader
  <2> QED
    BY <2>1, <2>2, NextOfNth
<1>4. ASSUME NEW p \in Packets, NEW q \in Packets, NthPacket(p) = NthPacket(q)
      PROVE  p = q
  <2>1. NthPacket(p)[6] = NthPacket(q)[6]
    BY <1>4
  <2>2. \A n : NthPacket(n)[6] = Lane((49320 - n) % 65536, 5)
    BY NthLanes DEF Lanes
  <2>3. \A a, b : Lane(a, 5) = Lane(b, 5) => a = b
    <3> SUFFICES ASSUME NEW a, NEW b, Lane(a, 5) = Lane(b, 5) PROVE a = b
      OBVIOUS
    <3>1. Lane(a, 5).hi = Lane(b, 5).hi
      OBVIOUS
    <3> QED
      BY <3>1 DEF Lane
  <2>4. (49320 - p) % 65536 = (49320 - q) % 65536
    BY <2>1, <2>2, <2>3
  <2> QED
    BY <1>1, <2>4
<1>5. ASSUME NEW p \in Packets, NEW l \in Lanes \ {6}
      PROVE  NthPacket(p)[l] = Template[l]
  BY NthLanes
<1>6. ASSUME NEW p \in Packets
      PROVE  NthPacket(p)[6].lo = Template[6].lo
  <2>1. NthPacket(p)[6] = Lane((49320 - p) % 65536, 5)
    BY NthLanes DEF Lanes
  <2> QED
    BY <2>1, TemplateLanes DEF Lane
<1> QED
  BY <1>2, <1>3, <1>4, <1>5, <1>6
=============================================================================
