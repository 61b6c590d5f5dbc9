--------------------------- MODULE TxThreadsProofs ---------------------------
(***************************************************************************)
(* Theorems about TxThreads, for every ring size, every set of packets and *)
(* every number of reservations: a worker's calls are atomic to the syncs  *)
(* of another thread, and nothing is given away before it has arrived.     *)
(***************************************************************************)
EXTENDS TxThreads, TxRingProofs

(***************************************************************************)
(* Types.                                                                  *)
(***************************************************************************)

\* While a call writes a slot it knows the packet.
WritesPacket == pc \in {"copy", "len", "stream"} => call.pkt \in Packets

\* Accesses that are steps of TxRing.
LEMMA WholeSteps ==
  ASSUME NumSlots \in Nat,
         \/ \E id \in Reservations : Reserve(id)
         \/ \E r \in batches : Commit(r, 0)
         \/ Sync
         \/ Transmit
  PROVE  Next
<1>1. ASSUME NEW id \in Reservations, Reserve(id) PROVE Next
  BY <1>1 DEF Reserve, Next
<1>2. ASSUME NEW r \in batches, Commit(r, 0) PROVE Next
  BY <1>2 DEF Next
<1> QED
  BY <1>1, <1>2 DEF Next

LEMMA WrittenType ==
  ASSUME ThreadsTypeOK, NEW i \in Slots
  PROVE  Written(i) \in Frames
<1>1. slot[i] \in Frames /\ posted[i] \in Packets \union {NoPacket}
  BY DEF ThreadsTypeOK, TypeOK
<1> QED
  BY <1>1 DEF Written, Frames

\* A step that leaves the ring to others keeps the types if it writes a frame
\* to at most one slot.
LEMMA SlotStepType ==
  ASSUME TypeOK, head' \in Slots, cur' \in Slots, UNCHANGED <<tail, kernel>>,
         batches' \subseteq batches, result' \in Results,
         \/ UNCHANGED slot
         \/ \E i \in Slots, f \in Frames : slot' = [slot EXCEPT ![i] = f]
  PROVE  TypeOK'
  BY DEF TypeOK, kernel

LEMMA ThreadsTypeStep ==
  ASSUME ThreadsTypeOK, WritesPacket, [ThreadsNext]_threadVars
  PROVE  ThreadsTypeOK' /\ WritesPacket'
<1> USE DEF ThreadsTypeOK, WritesPacket, Accesses
<1>a. ASSUME [Next]_vars, UNCHANGED worker PROVE ThreadsTypeOK' /\ WritesPacket'
  BY <1>a, TypeStep DEF worker
<1>b. ASSUME UNCHANGED vars PROVE TypeOK'
  BY <1>b DEF vars, ring, kernel, TypeOK
<1>c. NoCall \in [at : 0 .. NumSlots, pkt : Packets \union {NoPacket},
                  was : Frames \union {NoPacket}, new : Slots]
  BY NumSlotsAssumption DEF NoCall, Slots
<1>d. ASSUME NEW i \in Slots, NEW p \in Packets, NEW new \in Slots, Writing(i, p, new)
      PROVE  /\ call' \in [at : 0 .. NumSlots, pkt : Packets \union {NoPacket},
                           was : Frames \union {NoPacket}, new : Slots]
             /\ call'.pkt \in Packets
  BY <1>d, WrittenType, NumSlotsAssumption DEF Writing, Slots
<1>1. ASSUME NEW p \in Packets, SendLoads(p) PROVE ThreadsTypeOK' /\ WritesPacket'
  <2>1. CASE /\ Fail("PacketTooLarge") \/ Fail("InsufficientSpace")
             /\ UNCHANGED worker
    BY <2>1 DEF Fail, Return, Results, worker, TypeOK, ring, kernel
  <2>2. CASE Writing(cur, p, NextIndex(cur)) /\ Goto("copy") /\ UNCHANGED <<vars, posted>>
    <3>1. cur \in Slots /\ NextIndex(cur) \in Slots
      BY IndexInSlots DEF TypeOK
    <3> QED
      BY <2>2, <3>1, <1>b, <1>d DEF Goto
  <2> QED
    BY <1>1, <2>1, <2>2 DEF SendLoads, worker
<1>2. CASE SendCopies
  <2>1. call.pkt \in Packets /\ pc' = "len" /\ call' = call
    BY <1>2 DEF SendCopies, Goto
  <2>2. posted' \in [Slots -> Packets \union {NoPacket}]
    BY <1>2 DEF SendCopies
  <2>3. \/ UNCHANGED slot
        \/ \E i \in Slots, f \in Frames : slot' = [slot EXCEPT ![i] = f]
    <3>1. CASE call.at \in Slots
      <4>1. [slot[call.at] EXCEPT !.pkt = call.pkt] \in Frames
        BY <2>1, <3>1 DEF TypeOK, Frames
      <4> QED
        BY <1>2, <3>1, <4>1 DEF SendCopies
    <3>2. CASE call.at \notin Slots
      BY <1>2, <3>2 DEF SendCopies, TypeOK
    <3> QED
      BY <3>1, <3>2
  <2>4. TypeOK'
    BY <1>2, <2>3, SlotStepType DEF SendCopies, TypeOK
  <2> QED
    BY <2>1, <2>2, <2>4
<1>3. CASE SendSetsLen
  <2>1. call.pkt \in Packets /\ pc' = "cur" /\ UNCHANGED <<call, posted>>
    BY <1>3 DEF SendSetsLen, Goto
  <2>2. \/ UNCHANGED slot
        \/ \E i \in Slots, f \in Frames : slot' = [slot EXCEPT ![i] = f]
    <3>1. CASE call.at \in Slots
      <4>1. [slot[call.at] EXCEPT !.len = Frame(call.pkt).len] \in Frames
        BY <2>1, <3>1, FrameType DEF TypeOK, Frames
      <4> QED
        BY <1>3, <3>1, <4>1 DEF SendSetsLen
    <3>2. CASE call.at \notin Slots
      BY <1>3, <3>2 DEF SendSetsLen, TypeOK
    <3> QED
      BY <3>1, <3>2
  <2>3. TypeOK'
    BY <1>3, <2>2, SlotStepType DEF SendSetsLen, TypeOK
  <2> QED
    BY <2>1, <2>3
<1>4. ASSUME NEW id \in Reservations, Reserve(id) PROVE ThreadsTypeOK' /\ WritesPacket'
  <2>1. Next /\ UNCHANGED worker
    BY <1>4, WholeSteps, NumSlotsAssumption DEF Reserve
  <2> QED
    BY <2>1, <1>a
<1>5. ASSUME NEW r \in batches, NEW i \in 0 .. NumSlots, NEW p \in Packets,
             PacketSetsLen(r, i, p)
      PROVE  ThreadsTypeOK' /\ WritesPacket'
  <2>1. CASE Fail("InvalidRingIndex") /\ UNCHANGED <<pc, call>>
    BY <1>5, <2>1 DEF PacketSetsLen, Fail, Return, Results, TypeOK, ring, kernel
  <2>2. CASE /\ Writing(Wrap(r.start + i), p, head) /\ Goto("stream")
             /\ slot' = [slot EXCEPT ![Wrap(r.start + i)].len = Frame(p).len]
             /\ UNCHANGED <<head, cur, tail, kernel, batches, result>>
    <3>1. Wrap(r.start + i) \in Slots /\ head \in Slots
      BY IndexInSlots DEF TypeOK, BatchReservation
    <3>2. [slot[Wrap(r.start + i)] EXCEPT !.len = Frame(p).len] \in Frames
      BY <3>1, FrameType DEF TypeOK, Frames
    <3>3. TypeOK'
      BY <2>2, <3>1, <3>2, SlotStepType DEF TypeOK
    <3>4. pc' = "stream" /\ posted' = posted
      BY <1>5, <2>2 DEF PacketSetsLen, Goto
    <3> QED
      BY <2>2, <3>1, <3>3, <3>4, <1>d
  <2> QED
    BY <1>5, <2>1, <2>2 DEF PacketSetsLen
<1>6. CASE PacketStreams
  <2>1. posted' \in [Slots -> Packets \union {NoPacket}]
    BY <1>6 DEF PacketStreams
  <2>2. TypeOK'
    BY <1>6 DEF PacketStreams, Return, Results, TypeOK, ring, kernel
  <2> QED
    BY <1>6, <2>1, <2>2, <1>c DEF PacketStreams, Done
<1>7. ASSUME NEW r \in batches, NEW written \in 0 .. NumSlots, FenceAndCommit(r, written)
      PROVE  ThreadsTypeOK' /\ WritesPacket'
  <2> DEFINE actual == IF written <= r.count THEN written ELSE r.count
  <2>1. CASE Commit(r, 0) /\ UNCHANGED worker
    BY <2>1, <1>a, WholeSteps, NumSlotsAssumption
  <2>2. CASE call' = [NoCall EXCEPT !.new = Wrap(r.start + actual)] /\ Goto("cur")
             /\ UNCHANGED <<vars, posted>>
    <3>1. r.start \in Slots /\ actual \in 0 .. NumSlots
      BY DEF TypeOK, BatchReservation
    <3>2. Wrap(r.start + actual) \in Slots
      BY <3>1, IndexInSlots
    <3>3. call' \in [at : 0 .. NumSlots, pkt : Packets \union {NoPacket},
                     was : Frames \union {NoPacket}, new : Slots]
      BY <2>2, <3>2, <1>c DEF NoCall
    <3> QED
      BY <2>2, <3>3, <1>b DEF Goto
  <2> QED
    BY <1>7, <2>1, <2>2 DEF FenceAndCommit, CommitComputes
<1>8. ASSUME NEW r \in batches, DropBatch(r) PROVE ThreadsTypeOK' /\ WritesPacket'
  BY <1>8, <1>a, WholeSteps, NumSlotsAssumption DEF DropBatch
<1>9. CASE StoreCur
  BY <1>9, SlotStepType DEF StoreCur, Goto, TypeOK
<1>10. CASE StoreHead
  <2>1. TypeOK'
    BY <1>10, SlotStepType DEF StoreHead, Return, Results, TypeOK
  <2> QED
    BY <1>10, <2>1, <1>c DEF StoreHead, Done
<1>11. ASSUME NEW i \in Slots, Arrives(i) PROVE ThreadsTypeOK' /\ WritesPacket'
  <2>1. TypeOK'
    BY <1>11, WrittenType, SlotStepType DEF Arrives, TypeOK
  <2>2. posted' \in [Slots -> Packets \union {NoPacket}]
    BY <1>11 DEF Arrives
  <2> QED
    BY <1>11, <2>1, <2>2 DEF Arrives
<1>12. CASE Pump \/ Device
  BY <1>12, <1>a, WholeSteps, NumSlotsAssumption DEF Pump, Device
<1>13. CASE UNCHANGED threadVars
  BY <1>13, <1>a DEF threadVars
<1> QED
  BY <1>1, <1>2, <1>3, <1>4, <1>5, <1>6, <1>7, <1>8, <1>9, <1>10, <1>11, <1>12, <1>13
  DEF ThreadsNext, Worker

LEMMA ThreadsTypeInit == ASSUME ThreadsInit PROVE ThreadsTypeOK /\ WritesPacket
<1>1. TypeOK
  BY TypeInit DEF ThreadsInit
<1> QED
  BY <1>1, NumSlotsAssumption
  DEF ThreadsInit, ThreadsTypeOK, WritesPacket, Accesses, NoCall, Slots

\* The ring, the locals of the worker's call and the stores on their way keep
\* their types, whatever the worker does.
THEOREM ThreadsTypeCorrect == ThreadsSpec => []ThreadsTypeOK
<1>1. ThreadsInit => ThreadsTypeOK /\ WritesPacket
  BY ThreadsTypeInit
<1>2. ThreadsTypeOK /\ WritesPacket /\ [ThreadsNext]_threadVars
        => (ThreadsTypeOK /\ WritesPacket)'
  BY ThreadsTypeStep
<1> QED
  BY <1>1, <1>2, PTL DEF ThreadsSpec

(***************************************************************************)
(* The invariant, for a worker that holds one reservation at a time and    *)
(* does not call reserve_batch on a full ring.                             *)
(***************************************************************************)

\* Between calls the locals are those of no call; while one runs, cur is where
\* head is until the call has stored it.
Locals ==
  /\ pc = "idle" => call = NoCall
  /\ cur = IF pc = "head" THEN call.new ELSE head

\* send writes the slot at head, and nothing else claims the ring.  The
\* packet is in the buffer after the copy, the slot complete after the length.
Sending ==
  call.at # NumSlots /\ pc # "stream" =>
    /\ batches = {} /\ head # tail
    /\ call.at = head /\ call.new = NextIndex(head)
    /\ call.pkt \in Packets /\ Length[call.pkt] <= BufSize
    /\ pc # "copy" => slot[head].pkt = call.pkt /\ posted[head] = NoPacket
    /\ pc \in {"cur", "head"} => slot[head] = Frame(call.pkt)

\* packet has stored the length of a slot of the reservation.
Streaming ==
  pc = "stream" =>
    /\ call.at \in Slots
    /\ slot[call.at].len = Frame(call.pkt).len
    /\ Keeps("fits_buffer", Length[call.pkt] <= BufSize)
    /\ \E r \in batches, i \in 0 .. NumSlots :
         i < r.count /\ call.at = Wrap(r.start + i)

\* commit ends within the reservation, and everything has arrived.
Committing ==
  call.at = NumSlots /\ pc # "idle" =>
    /\ pc \in {"cur", "head"}
    /\ \A i \in Slots : posted[i] = NoPacket
    /\ \E r \in batches, n \in 1 .. NumSlots :
         n <= r.count /\ call.new = Wrap(r.start + n)

\* What is on its way goes to the program's own slots.
PostedOwned ==
  \A i \in Slots : posted[i] # NoPacket => Space(head, i) < Space(head, tail)

CallInv == Locals /\ Sending /\ Streaming /\ Committing /\ PostedOwned

RingInv == CircularOrder /\ ReservationsOwned /\ OneReservation

ThreadsInv == ThreadsTypeOK /\ WritesPacket /\ RingInv /\ CallInv

\* What the last stores put in cur and head lies in the program's window.
LEMMA NewHead ==
  ASSUME ThreadsInv, pc \in {"cur", "head"}
  PROVE  \E n \in 1 .. Space(head, tail) : call.new = Wrap(head + n)
<1> USE DEF ThreadsInv, CallInv, RingInv
<1>1. Space(head, tail) \in 0 .. NumSlots - 1 /\ head \in Slots /\ tail \in Slots
  BY SpaceType DEF ThreadsTypeOK, TypeOK
<1>2. CASE call.at # NumSlots
  <2>1. head # tail /\ call.new = Wrap(head + 1)
    BY <1>1, <1>2, NextIsWrap DEF Sending
  <2>2. 1 \in 1 .. Space(head, tail)
    BY <1>1, <2>1, NumSlotsAssumption DEF Space, Slots
  <2> QED
    BY <2>1, <2>2
<1>3. CASE call.at = NumSlots
  <2>1. PICK r \in batches, n \in 1 .. NumSlots :
          n <= r.count /\ call.new = Wrap(r.start + n)
    BY <1>3 DEF Committing
  <2>2. r.start = head /\ r.count <= Space(head, tail) /\ r.count \in 0 .. NumSlots
    BY DEF ReservationsOwned, ThreadsTypeOK, TypeOK, BatchReservation
  <2> QED
    BY <1>1, <2>1, <2>2, NumSlotsAssumption
<1> QED
  BY <1>2, <1>3

\* Steps that leave the indices, the reservations and the worker alone.
LEMMA WorkerAlone ==
  ASSUME ThreadsInv, UNCHANGED <<head, cur, tail, kernel, slot, batches, worker>>
  PROVE  RingInv' /\ CallInv'
  BY DEF ThreadsInv, RingInv, CircularOrder, ReservationsOwned, OneReservation, kernel,
         worker, CallInv, Locals, Sending, Streaming, Committing, PostedOwned, NoCall, Keeps

\* Between calls the ring is as TxRing has it.
LEMMA IdleStep ==
  ASSUME "one_batch" \in Discipline, "checks_space" \in Discipline,
         ThreadsInv, TypeOK', pc = "idle", Next,
         UNCHANGED <<head, cur, tail, slot, worker>>
  PROVE  RingInv' /\ CallInv'
<1> USE DEF ThreadsInv, CallInv, RingInv
<1>1. call = NoCall /\ cur = head
  BY DEF Locals
<1>2. Ownership'
  BY <1>1, OwnershipStep DEF Ownership, CursorsAgree, ThreadsTypeOK
<1> QED
  BY <1>1, <1>2
  DEF Ownership, worker, NoCall, Locals, Sending, Streaming, Committing, PostedOwned

LEMMA ThreadsStep ==
  ASSUME "one_batch" \in Discipline, "checks_space" \in Discipline,
         ThreadsInv, ThreadsTypeOK', [ThreadsNext]_threadVars
  PROVE  RingInv' /\ CallInv'
<1> USE DEF ThreadsInv, CallInv
<1>a. TypeOK /\ TypeOK' /\ CircularOrder /\ OneReservation
  BY DEF ThreadsTypeOK, RingInv
<1>b. ASSUME UNCHANGED <<head, tail, kernel, batches>> PROVE RingInv'
  BY <1>b DEF RingInv, CircularOrder, ReservationsOwned, OneReservation, kernel
<1>c. NumSlots \notin Slots
  BY NumSlotsAssumption DEF Slots
<1>d. head \in Slots /\ tail \in Slots /\ head # NumSlots
      /\ Space(head, tail) \in 0 .. NumSlots - 1
  BY <1>a, <1>c, SpaceType DEF TypeOK
<1>e. /\ slot \in [Slots -> Frames] /\ posted \in [Slots -> Packets \union {NoPacket}]
      /\ slot[head] = [pkt |-> slot[head].pkt, len |-> slot[head].len]
  BY <1>d DEF ThreadsTypeOK, TypeOK, Frames
<1>1. ASSUME NEW p \in Packets, SendLoads(p) PROVE RingInv' /\ CallInv'
  <2>1. CASE UNCHANGED <<ring, kernel, batches>> /\ UNCHANGED worker
    BY <2>1, WorkerAlone DEF ring, kernel
  <2>2. CASE /\ Length[p] <= BufSize /\ cur # tail
             /\ Writing(cur, p, NextIndex(cur)) /\ Goto("copy")
             /\ UNCHANGED <<vars, posted>>
    <3>1. pc = "idle" /\ batches = {} /\ cur = head
      BY <1>1 DEF SendLoads, MayClaim, Keeps, Locals
    <3>2. pc' = "copy" /\ call'.at = head /\ call'.new = NextIndex(head) /\ call'.pkt = p
      BY <2>2, <3>1 DEF Writing, Goto
    <3>3. UNCHANGED <<head, cur, tail, slot, kernel, batches, posted>>
      BY <2>2 DEF vars, ring
    <3> QED
      BY <1>b, <1>d, <2>2, <3>1, <3>2, <3>3
      DEF Locals, Sending, Streaming, Committing, PostedOwned
  <2> QED
    BY <1>1, <2>1, <2>2 DEF SendLoads, Fail, worker
<1>2. CASE SendCopies
  <2>1. pc = "copy" /\ pc' = "len" /\ UNCHANGED <<head, cur, tail, kernel, batches, call>>
    BY <1>2 DEF SendCopies, Goto
  <2>2. /\ call.at = head /\ batches = {} /\ head # tail /\ call.new = NextIndex(head)
        /\ call.pkt \in Packets /\ Length[call.pkt] <= BufSize
    BY <2>1 DEF Sending, Committing
  <2>3. slot'[head].pkt = call.pkt /\ posted' = [posted EXCEPT ![head] = NoPacket]
    BY <1>2, <1>d, <1>e, <2>2 DEF SendCopies
  <2>4. Sending'
    BY <1>d, <1>e, <2>1, <2>2, <2>3 DEF Sending
  <2>5. PostedOwned'
    BY <1>d, <1>e, <2>1, <2>3 DEF PostedOwned
  <2> QED
    BY <1>b, <1>d, <2>1, <2>2, <2>4, <2>5 DEF Locals, Streaming, Committing
<1>3. CASE SendSetsLen
  <2>1. pc = "len" /\ pc' = "cur"
        /\ UNCHANGED <<head, cur, tail, kernel, batches, call, posted>>
    BY <1>3 DEF SendSetsLen, Goto
  <2>2. /\ call.at = head /\ batches = {} /\ head # tail /\ call.new = NextIndex(head)
        /\ call.pkt \in Packets /\ Length[call.pkt] <= BufSize
        /\ slot[head].pkt = call.pkt /\ posted[head] = NoPacket
    BY <2>1 DEF Sending, Committing
  <2>3. slot'[head] = Frame(call.pkt)
    <3>1. slot'[head] = [slot[head] EXCEPT !.len = Frame(call.pkt).len]
      BY <1>3, <1>d, <1>e, <2>2 DEF SendSetsLen
    <3> QED
      BY <1>e, <2>2, <3>1 DEF Frame
  <2>4. slot'[head].pkt = call.pkt
    BY <2>3 DEF Frame
  <2>5. Sending'
    BY <2>1, <2>2, <2>3, <2>4 DEF Sending
  <2> QED
    BY <1>b, <1>d, <2>1, <2>2, <2>5 DEF Locals, Streaming, Committing, PostedOwned
<1>4. ASSUME NEW id \in Reservations, Reserve(id) PROVE RingInv' /\ CallInv'
  <2>1. Next /\ UNCHANGED worker /\ pc = "idle"
    BY <1>4, WholeSteps, NumSlotsAssumption DEF Reserve
  <2>2. UNCHANGED <<head, cur, tail, slot>>
    BY <1>4 DEF Reserve, ReserveAll, ReserveBatch, Open, Fail, ring
  <2> QED
    BY <1>a, <2>1, <2>2, IdleStep
<1>5. ASSUME NEW r \in batches, NEW i \in 0 .. NumSlots, NEW p \in Packets,
             PacketSetsLen(r, i, p)
      PROVE  RingInv' /\ CallInv'
  <2>1. CASE Fail("InvalidRingIndex") /\ UNCHANGED worker
    BY <2>1, WorkerAlone DEF Fail, ring, kernel
  <2>2. CASE /\ i < r.count
             /\ Writing(Wrap(r.start + i), p, head) /\ Goto("stream")
             /\ slot' = [slot EXCEPT ![Wrap(r.start + i)].len = Frame(p).len]
             /\ UNCHANGED <<head, cur, tail, kernel, batches, result>>
    <3>1. pc' = "stream" /\ call'.at = Wrap(r.start + i) /\ call'.pkt = p
          /\ pc = "idle" /\ posted' = posted
      BY <1>5, <2>2 DEF PacketSetsLen, Writing, Goto
    <3>2. call'.at \in Slots /\ call'.at # NumSlots
      BY <1>a, <1>c, <3>1, IndexInSlots DEF TypeOK, BatchReservation
    <3>3. slot'[call'.at].len = Frame(p).len
      BY <1>e, <2>2, <3>1, <3>2 DEF Frames
    <3>4. Keeps("fits_buffer", Length[p] <= BufSize)
      BY <1>5 DEF PacketSetsLen
    <3>5. Streaming'
      BY <2>2, <3>1, <3>2, <3>3, <3>4 DEF Streaming, Keeps
    <3> QED
      BY <1>b, <2>2, <3>1, <3>2, <3>5 DEF Locals, Sending, Committing, PostedOwned
  <2> QED
    BY <1>5, <2>1, <2>2 DEF PacketSetsLen, worker
<1>6. CASE PacketStreams
  <2>1. /\ pc = "stream" /\ pc' = "idle" /\ call' = NoCall
        /\ posted' = [posted EXCEPT ![call.at] = call.pkt]
        /\ UNCHANGED <<head, cur, tail, slot, kernel, batches>>
    BY <1>6 DEF PacketStreams, Done, ring
  <2>2. PICK r \in batches, i \in 0 .. NumSlots : i < r.count /\ call.at = Wrap(r.start + i)
    BY <2>1 DEF Streaming
  <2>3. r.start = head /\ r.count <= Space(head, tail) /\ r.count \in 0 .. NumSlots
    BY <1>a DEF RingInv, ReservationsOwned, TypeOK, BatchReservation
  <2>4. Space(head, call.at) < Space(head, tail)
    BY <1>a, <1>d, <2>2, <2>3, AheadOfHead, NumSlotsAssumption
  <2>5. PostedOwned'
    BY <1>e, <2>1, <2>4 DEF PostedOwned
  <2> QED
    BY <1>b, <2>1, <2>5 DEF Locals, Sending, Streaming, Committing, NoCall
<1>7. ASSUME NEW r \in batches, NEW written \in 0 .. NumSlots, FenceAndCommit(r, written)
      PROVE  RingInv' /\ CallInv'
  <2> DEFINE actual == IF written <= r.count THEN written ELSE r.count
  <2>1. CASE Commit(r, 0) /\ UNCHANGED worker
    <3>1. Next /\ pc = "idle"
      BY <1>7, <2>1, WholeSteps, NumSlotsAssumption DEF FenceAndCommit
    <3>2. UNCHANGED <<head, cur, tail, slot>>
      BY <1>a, <2>1 DEF Commit, TypeOK, BatchReservation
    <3> QED
      BY <1>a, <2>1, <3>1, <3>2, IdleStep
  <2>2. CASE /\ actual # 0
             /\ call' = [NoCall EXCEPT !.new = Wrap(r.start + actual)] /\ Goto("cur")
             /\ UNCHANGED <<vars, posted>>
    <3>1. pc = "idle" /\ pc' = "cur" /\ \A i \in Slots : posted[i] = NoPacket
      BY <1>7, <2>2 DEF FenceAndCommit, Goto
    <3>2. call'.at = NumSlots /\ call'.new = Wrap(r.start + actual)
      BY <2>2 DEF NoCall
    <3>3. actual \in 1 .. NumSlots /\ actual <= r.count
      BY <1>a, <2>2, NumSlotsAssumption DEF TypeOK, BatchReservation
    <3>4. UNCHANGED <<head, cur, tail, slot, kernel, batches, posted>>
      BY <2>2 DEF vars, ring
    <3>5. Committing'
      BY <3>1, <3>2, <3>3, <3>4 DEF Committing
    <3> QED
      BY <1>b, <3>1, <3>2, <3>4, <3>5 DEF Locals, Sending, Streaming, PostedOwned
  <2> QED
    BY <1>7, <2>1, <2>2 DEF FenceAndCommit, CommitComputes
<1>8. ASSUME NEW r \in batches, DropBatch(r) PROVE RingInv' /\ CallInv'
  <2>1. Next /\ pc = "idle" /\ UNCHANGED worker
    BY <1>8, WholeSteps, NumSlotsAssumption DEF DropBatch
  <2>2. UNCHANGED <<head, cur, tail, slot>>
    BY <1>8, <1>a DEF DropBatch, Commit, TypeOK, BatchReservation
  <2> QED
    BY <1>a, <2>1, <2>2, IdleStep
<1>9. CASE StoreCur
  BY <1>9, <1>b DEF StoreCur, Goto, Locals, Sending, Streaming, Committing, PostedOwned
<1>10. CASE StoreHead
  <2>1. /\ pc = "head" /\ pc' = "idle" /\ call' = NoCall
        /\ head' = call.new /\ cur' = call.new /\ batches' = {}
        /\ UNCHANGED <<tail, slot, kernel, posted>>
    BY <1>10 DEF StoreHead, Done, Locals
  <2>2. PICK n \in 1 .. Space(head, tail) : call.new = Wrap(head + n)
    BY <2>1, NewHead
  <2>3. CircularOrder'
    BY <1>a, <1>d, <2>1, <2>2, HeadAdvances DEF kernel
  <2>4. PostedOwned'
    <3>1. CASE call.at = NumSlots
      BY <2>1, <3>1 DEF Committing, PostedOwned
    <3>2. CASE call.at # NumSlots
      <4>1. posted[head] = NoPacket /\ head' = NextIndex(head) /\ head # tail
        BY <2>1, <3>2 DEF Sending
      <4>2. ASSUME NEW i \in Slots, posted[i] # NoPacket
            PROVE  Space(head', i) < Space(head', tail)
        <5>1. Space(head, i) < Space(head, tail) /\ i # head
          BY <4>1, <4>2 DEF PostedOwned
        <5>2. /\ Space(head', i) = Space(head, i) - 1
              /\ Space(head', tail) = Space(head, tail) - 1
          BY <1>d, <4>1, <5>1, SpaceAfterNext
        <5>3. Space(head, i) \in Int
          BY <1>d, SpaceType
        <5> QED
          BY <1>d, <5>1, <5>2, <5>3
      <4> QED
        BY <2>1, <4>2 DEF PostedOwned
    <3> QED
      BY <3>1, <3>2
  <2> QED
    BY <2>1, <2>3, <2>4
    DEF RingInv, ReservationsOwned, OneReservation, Locals, Sending, Streaming,
        Committing, NoCall
<1>11. ASSUME NEW i \in Slots, Arrives(i) PROVE RingInv' /\ CallInv'
  <2>1. /\ posted[i] # NoPacket
        /\ posted' = [posted EXCEPT ![i] = NoPacket]
        /\ slot' = [slot EXCEPT ![i] = [slot[i] EXCEPT !.pkt = posted[i]]]
        /\ UNCHANGED <<head, cur, tail, kernel, batches, pc, call>>
    BY <1>11 DEF Arrives, Written
  <2>2. \A j \in Slots : /\ slot'[j].len = slot[j].len
                         /\ posted[j] = NoPacket => slot'[j] = slot[j] /\ posted'[j] = NoPacket
    BY <1>e, <2>1 DEF Frames
  <2>3. Sending'
    BY <1>d, <2>1, <2>2 DEF Sending
  <2>4. Streaming'
    BY <2>1, <2>2 DEF Streaming, Keeps
  <2>5. Committing'
    BY <2>1, <2>2 DEF Committing
  <2>6. PostedOwned'
    BY <1>e, <2>1 DEF PostedOwned
  <2> QED
    BY <1>b, <2>1, <2>3, <2>4, <2>5, <2>6 DEF Locals
<1>12. CASE Pump
  <2>1. /\ TxSync \/ UNCHANGED <<hwcur, tail>>
        /\ UNCHANGED <<head, cur, slot, done, batches, pc, call, posted>>
    BY <1>12 DEF Pump, Sync, worker
  <2>2. CircularOrder' /\ Space(head, tail) <= Space(head, tail')
    BY <1>a, <2>1, SyncKeepsOrder
  <2>3. /\ Space(head, tail') \in Nat /\ Space(head, tail) \in Nat
        /\ \A i \in Slots : Space(head, i) \in Nat
        /\ \A r \in batches : r.count \in Nat
    BY <1>a, <1>d, SpaceType DEF TypeOK, BatchReservation
  <2>4. ReservationsOwned'
    BY <2>1, <2>2, <2>3 DEF RingInv, ReservationsOwned
  <2>5. PostedOwned'
    BY <2>1, <2>2, <2>3 DEF PostedOwned
  <2>6. head # tail => head # tail'
    <3>1. head # tail => Space(head, tail) > 0
      BY <1>d, NumSlotsAssumption DEF Space, Slots
    <3>2. Space(head, head) = 0
      BY <1>d DEF Space, Slots
    <3> QED
      BY <2>2, <2>3, <3>1, <3>2
  <2>7. Sending'
    BY <2>1, <2>6 DEF Sending
  <2> QED
    BY <2>1, <2>2, <2>4, <2>5, <2>7
    DEF RingInv, OneReservation, Locals, Streaming, Committing, Keeps, NoCall
<1>13. CASE Device
  <2>1. /\ done # hwcur /\ done' = NextIndex(done)
        /\ UNCHANGED <<head, cur, tail, slot, hwcur, batches, pc, call, posted>>
    BY <1>13 DEF Device, Transmit, ring, worker
  <2>2. CircularOrder'
    BY <1>a, <2>1, TransmitKeepsOrder
  <2> QED
    BY <2>1, <2>2
    DEF RingInv, ReservationsOwned, OneReservation, Locals, Sending, Streaming,
        Committing, PostedOwned, Keeps, NoCall
<1>14. CASE UNCHANGED threadVars
  BY <1>14, WorkerAlone DEF threadVars, vars, ring
<1> QED
  BY <1>1, <1>2, <1>3, <1>4, <1>5, <1>6, <1>7, <1>8, <1>9, <1>10, <1>11, <1>12, <1>13, <1>14
  DEF ThreadsNext, Worker

LEMMA ThreadsInvariant ==
  ASSUME "one_batch" \in Discipline, "checks_space" \in Discipline
  PROVE  ThreadsSpec => []ThreadsInv
<1>1. ThreadsInit => ThreadsInv
  <2> SUFFICES ASSUME ThreadsInit PROVE ThreadsInv
    OBVIOUS
  <2>1. RingInv
    BY OwnershipInit DEF ThreadsInit, Ownership, RingInv
  <2> QED
    BY <2>1, ThreadsTypeInit
    DEF ThreadsInit, Init, ThreadsInv, CallInv, NoCall, Locals, Sending, Streaming,
        Committing, PostedOwned
<1>2. ThreadsInv /\ [ThreadsNext]_threadVars => ThreadsInv'
  BY ThreadsTypeStep, ThreadsStep DEF ThreadsInv
<1> QED
  BY <1>1, <1>2, PTL DEF ThreadsSpec

\* The fence before commit, and the processor's order for send, are enough: no
\* packet is given away that is still on its way to its buffer, even if an
\* earlier reservation was dropped with stores on their way.
THEOREM GivenPacketsHaveArrived ==
  ASSUME "one_batch" \in Discipline, "checks_space" \in Discipline
  PROVE  ThreadsSpec => []GivenIsVisible
<1>1. ThreadsInv => GivenIsVisible
  <2> SUFFICES ASSUME ThreadsInv, NEW i \in Slots, posted[i] # NoPacket
               PROVE  i \notin InFlight
    BY DEF GivenIsVisible, InFlight
  <2>1. TypeOK /\ CircularOrder /\ Space(head, i) < Space(head, tail)
    BY DEF ThreadsInv, ThreadsTypeOK, RingInv, CallInv, PostedOwned
  <2>2. Space(head, i) \in 0 .. NumSlots /\ Space(head, tail) \in Int
    BY <2>1, SpaceType, NumSlotsAssumption DEF TypeOK
  <2>3. i = Wrap(head + Space(head, i))
    BY <2>1, WrapOfSpace DEF TypeOK
  <2> QED
    BY <2>1, <2>2, <2>3, OwnedNotInFlight
<1> QED
  BY <1>1, ThreadsInvariant, PTL

\* At every sync of the other thread cur is where head is or ahead of it, in
\* the window that the kernel lent.
THEOREM CurStaysAhead ==
  ASSUME "one_batch" \in Discipline, "checks_space" \in Discipline
  PROVE  ThreadsSpec => []CurAheadOfHead
<1>1. ThreadsInv => CurAheadOfHead
  <2> SUFFICES ASSUME ThreadsInv PROVE CurAheadOfHead
    OBVIOUS
  <2>1. TypeOK /\ CircularOrder /\ Locals
    BY DEF ThreadsInv, ThreadsTypeOK, RingInv, CallInv
  <2>2. PICK n \in 0 .. Space(head, tail) : cur = Wrap(head + n)
    <3>1. CASE pc = "head"
      BY <2>1, <3>1, NewHead DEF Locals
    <3>2. CASE pc # "head"
      <4>1. head = Wrap(head + 0)
        BY <2>1, WrapOneTurn, NumSlotsAssumption DEF TypeOK, Slots
      <4>2. 0 \in 0 .. Space(head, tail)
        BY <2>1, SpaceType DEF TypeOK
      <4> QED
        BY <2>1, <3>2, <4>1, <4>2 DEF Locals
    <3> QED
      BY <3>1, <3>2
  <2>3. Space(hwcur, cur) = Space(hwcur, head) + n
    BY <2>1, <2>2, AheadOfHead
  <2> QED
    BY <2>1, <2>3, OneTurn DEF CurAheadOfHead
<1> QED
  BY <1>1, ThreadsInvariant, PTL

(***************************************************************************)
(* A call of the worker acts at its last store, or where it fails: every   *)
(* step is a step of TxRing or leaves the ring as it appears.              *)
(***************************************************************************)

\* What the call in progress does to its own slot does not show.
LEMMA OwnSlotHidden ==
  ASSUME ThreadsTypeOK, UNCHANGED call,
         \A i \in Slots : i # call.at => Written(i)' = Written(i)
  PROVE  AsIfWritten' = AsIfWritten
  BY DEF AsIfWritten

\* A call that begins to write a slot notes what it held.
LEMMA SlotNoted ==
  ASSUME ThreadsTypeOK, call = NoCall, NEW i \in Slots, call'.at = i,
         call'.was = Written(i), \A j \in Slots : j # i => Written(j)' = Written(j)
  PROVE  AsIfWritten' = AsIfWritten
<1>1. \A j \in Slots : j # NumSlots
  BY NumSlotsAssumption DEF Slots
<1> QED
  BY <1>1 DEF AsIfWritten, NoCall

\* When a call ends the ring appears as it is.
LEMMA SlotShown ==
  ASSUME call' = NoCall
  PROVE  AsIfWritten' = [i \in Slots |-> Written(i)']
<1>1. \A j \in Slots : j # NumSlots
  BY NumSlotsAssumption DEF Slots
<1> QED
  BY <1>1 DEF AsIfWritten, NoCall

LEMMA AccessIsRingStep ==
  ASSUME ThreadsInv, [ThreadsNext]_threadVars
  PROVE  [Atomic!Next]_(Atomic!vars)
<1> USE DEF ThreadsInv, CallInv
<1>a. ASSUME UNCHANGED <<head, tail, kernel, batches, result>>, AsIfWritten' = AsIfWritten
      PROVE  UNCHANGED Atomic!vars
  BY <1>a DEF Atomic!vars, Atomic!ring, Atomic!kernel, kernel
<1>b. ASSUME UNCHANGED <<slot, call, posted>> PROVE AsIfWritten' = AsIfWritten
  BY <1>b DEF AsIfWritten, Written
<1>c. ASSUME NEW r, Fail(r), UNCHANGED worker PROVE Atomic!Fail(r)
  BY <1>c, <1>b
  DEF Fail, Return, ring, kernel, worker, Atomic!Fail, Atomic!Return, Atomic!ring,
      Atomic!kernel
<1>d. ASSUME NEW r \in batches, Commit(r, 0), UNCHANGED worker PROVE Atomic!Next
  <2>1. Atomic!Commit(r, 0)
    BY <1>d, <1>b
    DEF Commit, Return, Advance, kernel, worker, ThreadsTypeOK, TypeOK, BatchReservation,
        Atomic!Commit, Atomic!Return, Atomic!Advance, Atomic!kernel, Wrap, Atomic!Wrap
  <2> QED
    BY <2>1, NumSlotsAssumption DEF Atomic!Next
<1>1. ASSUME NEW p \in Packets, SendLoads(p) PROVE [Atomic!Next]_(Atomic!vars)
  <2>1. pc = "idle" /\ cur = head /\ MayClaim /\ call = NoCall
    BY <1>1 DEF SendLoads, Locals
  <2>2. CASE \/ Length[p] > BufSize /\ Fail("PacketTooLarge") /\ UNCHANGED worker
             \/ /\ Length[p] <= BufSize /\ cur = tail
                /\ Fail("InsufficientSpace") /\ UNCHANGED worker
    <3>1. Atomic!Send(p)
      BY <2>1, <2>2, <1>c DEF Atomic!Send
    <3> QED
      BY <2>1, <3>1
      DEF Atomic!Next, MayClaim, Keeps, Atomic!MayClaim, Atomic!Keeps, Atomic!Packets,
          Packets
  <2>3. CASE Writing(cur, p, NextIndex(cur)) /\ UNCHANGED <<vars, posted>>
    <3>1. head \in Slots /\ call'.at = head /\ call'.was = Written(head)
      BY <2>1, <2>3 DEF Writing, ThreadsTypeOK, TypeOK
    <3>2. \A j \in Slots : Written(j)' = Written(j)
      BY <2>3 DEF Written, vars, ring
    <3>3. AsIfWritten' = AsIfWritten
      BY <2>1, <3>1, <3>2, SlotNoted
    <3> QED
      BY <2>3, <3>3, <1>a DEF vars, ring
  <2> QED
    BY <1>1, <2>2, <2>3 DEF SendLoads, worker
<1>2. CASE SendCopies \/ SendSetsLen
  <2>1. \A i \in Slots : i # call.at => slot'[i] = slot[i] /\ posted'[i] = posted[i]
    BY <1>2 DEF SendCopies, SendSetsLen, ThreadsTypeOK, TypeOK
  <2>2. AsIfWritten' = AsIfWritten
    BY <1>2, <2>1, OwnSlotHidden DEF SendCopies, SendSetsLen, Written
  <2> QED
    BY <1>2, <2>2, <1>a DEF SendCopies, SendSetsLen
<1>3. ASSUME NEW id \in Reservations, Reserve(id) PROVE [Atomic!Next]_(Atomic!vars)
  <2>1. pc = "idle" /\ cur = head /\ MayClaim /\ UNCHANGED worker
    BY <1>3 DEF Reserve, Locals
  <2>2. Atomic!MayClaim
    BY <2>1 DEF MayClaim, Keeps, Atomic!MayClaim, Atomic!Keeps
  <2>3. ASSUME NEW i, NEW n, Open(id, i, n) PROVE Atomic!Open(id, i, n)
    BY <2>1, <2>3, <1>b
    DEF Open, Return, ring, kernel, worker, Atomic!Open, Atomic!Return, Atomic!ring,
        Atomic!kernel
  <2>4. CASE ReserveAll(id)
    <3>1. Atomic!ReserveAll(id)
      BY <2>1, <2>3, <2>4, <1>c
      DEF ReserveAll, FreshId, Atomic!ReserveAll, Atomic!FreshId, Space, Atomic!Space
    <3> QED
      BY <2>2, <3>1 DEF Atomic!Next
  <2>5. ASSUME NEW n \in 0 .. NumSlots, Keeps("checks_space", head # tail),
               ReserveBatch(id, n)
        PROVE  Atomic!Next
    <3>1. Atomic!ReserveBatch(id, n)
      BY <2>1, <2>3, <2>5, <1>c
      DEF ReserveBatch, FreshId, Atomic!ReserveBatch, Atomic!FreshId, BatchSpace,
          Atomic!BatchSpace
    <3> QED
      BY <2>2, <2>5, <3>1 DEF Atomic!Next, Keeps, Atomic!Keeps
  <2> QED
    BY <1>3, <2>4, <2>5 DEF Reserve
<1>4. ASSUME NEW r \in batches, NEW i \in 0 .. NumSlots, NEW p \in Packets,
             PacketSetsLen(r, i, p)
      PROVE  [Atomic!Next]_(Atomic!vars)
  <2>1. CASE i >= r.count /\ Fail("InvalidRingIndex") /\ UNCHANGED worker
    <3>1. Atomic!Packet(r, i, p)
      BY <2>1, <1>c DEF Atomic!Packet
    <3> QED
      BY <1>4, <3>1
      DEF PacketSetsLen, Atomic!Next, Keeps, Atomic!Keeps, Atomic!Packets, Packets
  <2>2. CASE /\ Writing(Wrap(r.start + i), p, head)
             /\ slot' = [slot EXCEPT ![Wrap(r.start + i)].len = Frame(p).len]
             /\ UNCHANGED <<head, cur, tail, kernel, batches, result>>
    <3>1. Wrap(r.start + i) \in Slots
      BY IndexInSlots DEF ThreadsTypeOK, TypeOK, BatchReservation
    <3>2. call = NoCall /\ posted' = posted
      BY <1>4 DEF PacketSetsLen, Locals
    <3>3. \A j \in Slots : j # Wrap(r.start + i) => slot'[j] = slot[j]
      BY <2>2 DEF ThreadsTypeOK, TypeOK
    <3>4. AsIfWritten' = AsIfWritten
      BY <2>2, <3>1, <3>2, <3>3, SlotNoted DEF Writing, Written
    <3> QED
      BY <2>2, <3>4, <1>a
  <2> QED
    BY <1>4, <2>1, <2>2 DEF PacketSetsLen, worker
<1>5. CASE PacketStreams
  <2>1. /\ pc = "stream" /\ call' = NoCall /\ result' = "Ok"
        /\ posted' = [posted EXCEPT ![call.at] = call.pkt]
        /\ UNCHANGED <<head, cur, tail, slot, kernel, batches>>
    BY <1>5 DEF PacketStreams, Done, Return, ring
  <2>2. PICK at \in Slots, p \in Packets :
          /\ call.at = at /\ call.pkt = p
          /\ slot[at].len = Frame(p).len
          /\ Keeps("fits_buffer", Length[p] <= BufSize)
    BY <2>1 DEF Streaming, WritesPacket
  <2>3. PICK r \in batches, i \in 0 .. NumSlots : i < r.count /\ at = Wrap(r.start + i)
    BY <2>1, <2>2 DEF Streaming
  <2>4. Written(at)' = Frame(p)
    <3>1. slot[at] \in Frames /\ posted'[at] = p /\ p # NoPacket
      BY <2>1, <2>2, TxConstants DEF ThreadsTypeOK, TypeOK
    <3>2. Written(at)' = [slot[at] EXCEPT !.pkt = p]
      BY <2>1, <3>1 DEF Written
    <3> QED
      BY <2>2, <3>1, <3>2 DEF Frames, Frame
  <2>5. \A j \in Slots : j # at => Written(j)' = Written(j)
    BY <2>1, <2>2 DEF Written, ThreadsTypeOK
  <2>6. AsIfWritten' = [AsIfWritten EXCEPT ![at] = Frame(p)]
    <3>1. call'.at = NumSlots /\ NumSlots \notin Slots
      BY <2>1, NumSlotsAssumption DEF NoCall, Slots
    <3>2. AsIfWritten' = [j \in Slots |-> Written(j)']
      BY <3>1 DEF AsIfWritten
    <3>3. \A j \in Slots : j # at => AsIfWritten[j] = Written(j)
      BY <2>2 DEF AsIfWritten
    <3>4. AsIfWritten = [j \in Slots |-> AsIfWritten[j]]
      BY DEF AsIfWritten
    <3>5. \A j \in Slots :
            Written(j)' = IF j = at THEN Frame(p) ELSE AsIfWritten[j]
      BY <2>4, <2>5, <3>3
    <3> QED
      BY <3>2, <3>4, <3>5
  <2>7. Atomic!Packet(r, i, p)
    BY <2>1, <2>3, <2>6
    DEF Atomic!Packet, Atomic!Return, Atomic!kernel, kernel, Atomic!Wrap, Wrap,
        Atomic!Frame, Frame
  <2> QED
    BY <2>2, <2>3, <2>7 DEF Atomic!Next, Keeps, Atomic!Keeps, Atomic!Packets, Packets
<1>6. ASSUME NEW r \in batches, NEW written \in 0 .. NumSlots, FenceAndCommit(r, written)
      PROVE  [Atomic!Next]_(Atomic!vars)
  <2>1. CASE Commit(r, 0) /\ UNCHANGED worker
    BY <2>1, <1>d
  <2>2. CASE /\ call' = [NoCall EXCEPT !.new =
                           Wrap(r.start + (IF written <= r.count THEN written ELSE r.count))]
             /\ UNCHANGED <<vars, posted>>
    <3>1. call = NoCall /\ call'.at = NumSlots /\ call.at = NumSlots
      BY <1>6, <2>2 DEF FenceAndCommit, Locals, NoCall
    <3>2. \A j \in Slots : j # NumSlots
      BY NumSlotsAssumption DEF Slots
    <3>3. AsIfWritten' = AsIfWritten
      BY <2>2, <3>1, <3>2 DEF AsIfWritten, Written, vars, ring
    <3> QED
      BY <2>2, <3>3, <1>a DEF vars, ring
  <2> QED
    BY <1>6, <2>1, <2>2 DEF FenceAndCommit, CommitComputes
<1>7. ASSUME NEW r \in batches, DropBatch(r) PROVE [Atomic!Next]_(Atomic!vars)
  BY <1>7, <1>d DEF DropBatch
<1>8. CASE StoreCur
  BY <1>8, <1>a, <1>b DEF StoreCur
<1>9. CASE StoreHead
  <2>1. /\ pc = "head" /\ head' = call.new /\ call' = NoCall /\ batches' = {}
        /\ result' = "Ok" /\ UNCHANGED <<tail, slot, kernel, posted>>
    BY <1>9 DEF StoreHead, Done, Return
  <2>2. \A j \in Slots : Written(j)' = Written(j)
    BY <2>1 DEF Written
  <2>3. CASE call.at = NumSlots
    <3>1. PICK r \in batches, n \in 1 .. NumSlots :
            n <= r.count /\ call.new = Wrap(r.start + n)
      BY <2>1, <2>3 DEF Committing
    <3>2. batches = {r}
      BY DEF RingInv, OneReservation
    <3>3. AsIfWritten' = AsIfWritten
      <4>1. \A j \in Slots : j # NumSlots
        BY NumSlotsAssumption DEF Slots
      <4> QED
        BY <2>1, <2>2, <2>3, <4>1, SlotShown DEF AsIfWritten
    <3>4. Atomic!Commit(r, n)
      BY <2>1, <3>1, <3>2, <3>3
      DEF Atomic!Commit, Atomic!Return, Atomic!Advance, Atomic!kernel, kernel,
          Atomic!Wrap, Wrap
    <3> QED
      BY <3>1, <3>4 DEF Atomic!Next
  <2>4. CASE call.at # NumSlots
    <3>1. /\ batches = {} /\ head # tail /\ call.at = head /\ call.new = NextIndex(head)
          /\ call.pkt \in Packets /\ Length[call.pkt] <= BufSize
          /\ posted[head] = NoPacket /\ slot[head] = Frame(call.pkt)
      BY <2>1, <2>4 DEF Sending
    <3>2. head \in Slots /\ Written(head) = Frame(call.pkt)
      BY <3>1 DEF Written, ThreadsTypeOK, TypeOK
    <3>3. AsIfWritten' = [AsIfWritten EXCEPT ![head] = Frame(call.pkt)]
      BY <2>1, <2>2, <3>1, <3>2, SlotShown DEF AsIfWritten
    <3>4. Atomic!Send(call.pkt)
      BY <2>1, <3>1, <3>3
      DEF Atomic!Send, Atomic!Advance, Atomic!Return, Atomic!kernel, kernel,
          Atomic!NextIndex, NextIndex, Atomic!Frame, Frame
    <3> QED
      BY <3>1, <3>4
      DEF Atomic!Next, Atomic!MayClaim, Atomic!Keeps, Atomic!Packets, Packets
  <2> QED
    BY <2>3, <2>4
<1>10. ASSUME NEW i \in Slots, Arrives(i) PROVE [Atomic!Next]_(Atomic!vars)
  <2>1. /\ slot' = [slot EXCEPT ![i] = Written(i)]
        /\ posted' = [posted EXCEPT ![i] = NoPacket]
        /\ UNCHANGED <<head, cur, tail, kernel, batches, result, pc, call>>
    BY <1>10 DEF Arrives
  <2>2. \A j \in Slots : Written(j)' = Written(j)
    BY <2>1 DEF Written, ThreadsTypeOK, TypeOK
  <2>3. AsIfWritten' = AsIfWritten
    BY <2>1, <2>2, OwnSlotHidden
  <2> QED
    BY <2>1, <2>3, <1>a
<1>11. CASE Pump
  <2>1. Atomic!Sync
    BY <1>11, <1>b
    DEF Pump, Sync, TxSync, Space, Wrap, worker, Atomic!Sync, Atomic!TxSync,
        Atomic!Space, Atomic!Wrap
  <2> QED
    BY <2>1 DEF Atomic!Next
<1>12. CASE Device
  <2>1. Atomic!Transmit
    BY <1>12, <1>b
    DEF Device, Transmit, ring, worker, NextIndex, Atomic!Transmit, Atomic!ring,
        Atomic!NextIndex
  <2> QED
    BY <2>1 DEF Atomic!Next
<1>13. CASE UNCHANGED threadVars
  BY <1>13, <1>a, <1>b DEF threadVars, vars, ring, worker
<1> QED
  BY <1>1, <1>2, <1>3, <1>4, <1>5, <1>6, <1>7, <1>8, <1>9, <1>10, <1>11, <1>12, <1>13
  DEF ThreadsNext, Worker

\* To the thread that syncs and to the device the worker's calls are single
\* steps: what is proved of TxRing holds for a ring in a thread of its own.
THEOREM WorkerIsAtomic ==
  ASSUME "one_batch" \in Discipline, "checks_space" \in Discipline
  PROVE  ThreadsSpec => CallsAreAtomic
<1>1. ThreadsInit => Atomic!Init
  <2> SUFFICES ASSUME ThreadsInit PROVE Atomic!Init
    OBVIOUS
  <2>1. AsIfWritten = slot
    <3>1. \A j \in Slots : j # NumSlots
      BY NumSlotsAssumption DEF Slots
    <3> QED
      BY <3>1 DEF ThreadsInit, Init, NoCall, AsIfWritten, Written
  <2> QED
    BY <2>1 DEF ThreadsInit, Init, Slots, Atomic!Init, Atomic!Slots
<1>2. ThreadsInv /\ [ThreadsNext]_threadVars => [Atomic!Next]_(Atomic!vars)
  BY AccessIsRingStep
<1> QED
  BY <1>1, <1>2, ThreadsInvariant, PTL DEF ThreadsSpec, CallsAreAtomic, Atomic!Spec
==============================================================================
