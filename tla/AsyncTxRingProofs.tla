-------------------------- MODULE AsyncTxRingProofs --------------------------
(***************************************************************************)
(* Theorems about AsyncTxRing, for every ring of more than two slots:      *)
(* poll_write loses no wakeup, and it uses the ring as TxRing allows.      *)
(***************************************************************************)
EXTENDS AsyncTxRing, TxRingProofs

\* The writer never fills the last slot.
LeavesOneFree == CircularOrder /\ CursorsAgree /\ head # tail

\* What the device has done since the last sync, the reactor will look at.
NewsHasEdge == edge \/ tail = Wrap(done + NumSlots - 1)

\* Between its test of the ring and the registration of its waker, the task
\* finds what happened in the readiness, or the reactor has yet to see it.
PollSeesNews == pc = "poll" => readiness # "none" \/ IsFull \/ edge

HasPacket == pc \in {"check", "poll", "clear", "pending"} => buf \in Packets

AsyncInv ==
  /\ AsyncTypeOK /\ batches = {}
  /\ LeavesOneFree /\ NewsHasEdge /\ PollSeesNews /\ HasPacket /\ NoLostWakeup

LEMMA AsyncInitInv == AsyncInit => AsyncInv
<1> SUFFICES ASSUME AsyncInit PROVE AsyncInv
  OBVIOUS
<1>1. TypeOK /\ Ownership
  BY TypeInit, OwnershipInit DEF AsyncInit
<1>2. head # tail /\ batches = {}
  BY RoomToWrite, NumSlotsAssumption DEF AsyncInit, Init
<1>3. LeavesOneFree
  BY <1>1, <1>2 DEF Ownership, LeavesOneFree
<1>4. FdTypeOK /\ edge
  BY DEF AsyncInit, FdInit, FdTypeOK
<1>5. pc = "idle" /\ buf = NoPacket
  BY DEF AsyncInit
<1> QED
  BY <1>1, <1>2, <1>3, <1>4, <1>5
  DEF AsyncInv, AsyncTypeOK, NewsHasEdge, PollSeesNews, HasPacket, NoLostWakeup

\* A sync takes everything, leaves a slot free and is up to date.
LEMMA SyncTakesAll ==
  ASSUME TypeOK, LeavesOneFree, TxSync, UNCHANGED <<head, cur, done>>
  PROVE  /\ hwcur' \in Slots /\ tail' \in Slots
         /\ tail' = Wrap(done + NumSlots - 1)
         /\ LeavesOneFree' /\ tail' # cur
<1>1. hwcur' = head /\ tail' = Wrap(done + NumSlots - 1)
  BY OneTurn DEF TxSync, LeavesOneFree
<1>2. tail' \in Slots /\ hwcur' \in Slots
  <2>1. done \in 0 .. NumSlots - 1 /\ head \in Slots
    BY DEF TypeOK, Slots
  <2> QED
    BY <1>1, <2>1, WrapBack, NumSlotsAssumption DEF Slots
<1>3. Space(head, tail') = NumSlots - 1 - Space(done, head)
  BY <1>1, SpaceRound DEF TypeOK
<1>4. Space(head, head) = 0 /\ Space(head, tail) >= 1
  BY NumSlotsAssumption DEF Space, TypeOK, Slots, LeavesOneFree
<1>5. Space(done, head) + Space(head, tail) < NumSlots
      /\ Space(done, head) \in Nat /\ Space(head, tail) \in Nat
  BY OneTurn, SpaceType DEF LeavesOneFree, TypeOK
<1>6. head # tail'
  BY <1>3, <1>4, <1>5, NumSlotsAssumption
<1>7. CircularOrder'
  BY <1>1, <1>3, <1>4, <1>5, NumSlotsAssumption DEF CircularOrder
<1> QED
  BY <1>1, <1>2, <1>6, <1>7 DEF LeavesOneFree, CursorsAgree

\* poll_write moves head to a slot that is not tail.
LEMMA WriteAdvances ==
  ASSUME TypeOK, TypeOK', LeavesOneFree, ~IsFull, Advance(Wrap(head + 1)),
         UNCHANGED <<tail, hwcur, done>>
  PROVE  LeavesOneFree'
<1>1. 1 \in 0 .. Space(head, tail)
  BY NumSlotsAssumption DEF Space, TypeOK, Slots, LeavesOneFree
<1> QED
  BY <1>1, HeadAdvances DEF Advance, IsFull, LeavesOneFree, CursorsAgree

\* Steps that leave the ring and the kernel alone keep what is said of them.
LEMMA RingAlone ==
  ASSUME LeavesOneFree, UNCHANGED <<ring, kernel>>
  PROVE  LeavesOneFree' /\ (IsFull' <=> IsFull)
  BY DEF LeavesOneFree, CircularOrder, CursorsAgree, ring, kernel, IsFull

LEMMA AsyncStepInv == AsyncInv /\ [AsyncNext]_asyncVars => AsyncInv'
<1> SUFFICES ASSUME AsyncInv, [AsyncNext]_asyncVars PROVE AsyncInv'
  OBVIOUS
<1> USE DEF AsyncInv, AsyncTypeOK, FdTypeOK
<1>a. ASSUME UNCHANGED <<ring, kernel, batches, edge>>, result' \in Results,
             FdTypeOK', pc' \in {"idle", "check", "poll", "clear", "pending", "flush"},
             buf' \in Packets \union {NoPacket}, PollSeesNews', HasPacket', NoLostWakeup'
      PROVE  AsyncInv'
  <2>1. TypeOK'
    BY <1>a DEF TypeOK, ring, kernel
  <2>2. LeavesOneFree' /\ NewsHasEdge'
    BY <1>a, RingAlone DEF NewsHasEdge, ring, kernel
  <2> QED
    BY <1>a, <2>1, <2>2
<1>1. ASSUME NEW p \in Packets, Write(p) PROVE AsyncInv'
  BY <1>1, <1>a DEF Write, Goto, vars, fd, TypeOK, PollSeesNews, HasPacket, NoLostWakeup
<1>2. CASE WriteSlot
  <2>1. CASE Ready("Ok") /\ UNCHANGED <<head, cur, slot>>
    BY <1>2, <2>1, <1>a
    DEF WriteSlot, Ready, Return, Goto, ring, kernel, fd, Results, PollSeesNews,
        HasPacket, NoLostWakeup
  <2>2. CASE Ready("PacketTooLarge") /\ UNCHANGED <<head, cur, slot>>
    BY <1>2, <2>2, <1>a
    DEF WriteSlot, Ready, Return, Goto, ring, kernel, fd, Results, PollSeesNews,
        HasPacket, NoLostWakeup
  <2>3. CASE /\ slot' = [slot EXCEPT ![Wrap(head)] = Frame(buf)]
             /\ Advance(Wrap(head + 1))
             /\ Return("Ok") /\ Goto("flush") /\ buf' = NoPacket
    <3>1. buf \in Packets /\ UNCHANGED <<tail, kernel, batches, fd>>
      BY <1>2 DEF WriteSlot, HasPacket
    <3>2. Wrap(head + 1) \in Slots
      BY IndexInSlots, NumSlotsAssumption DEF TypeOK
    <3>3. TypeOK'
      BY <2>3, <3>1, <3>2, FrameType DEF TypeOK, Advance, Return, Results, kernel
    <3>4. LeavesOneFree'
      BY <1>2, <2>3, <3>1, <3>3, WriteAdvances DEF WriteSlot, kernel
    <3> QED
      BY <2>3, <3>1, <3>3, <3>4
      DEF Goto, fd, kernel, NewsHasEdge, PollSeesNews, HasPacket, NoLostWakeup
  <2> QED
    BY <1>2, <2>1, <2>2, <2>3 DEF WriteSlot
<1>3. CASE SeesFull
  BY <1>3, <1>a
  DEF SeesFull, Goto, vars, fd, ring, IsFull, TypeOK, PollSeesNews, HasPacket, NoLostWakeup
<1>4. CASE PollReady
  <2>1. CASE TakeReady /\ Goto("clear") /\ UNCHANGED <<vars, buf>>
    BY <1>4, <2>1, <1>a
    DEF PollReady, TakeReady, Goto, vars, TypeOK, PollSeesNews, HasPacket, NoLostWakeup
  <2>2. CASE Register /\ Goto("pending") /\ UNCHANGED <<vars, buf>>
    <3>1. NoLostWakeup'
      BY <1>4, <2>2, RingAlone
      DEF PollReady, Register, Goto, vars, PollSeesNews, NoLostWakeup
    <3> QED
      BY <1>4, <2>2, <3>1, <1>a
      DEF PollReady, Register, Goto, vars, TypeOK, PollSeesNews, HasPacket
  <2>3. CASE Ready("Io") /\ UNCHANGED <<ring, kernel, batches, fd>>
    BY <2>3, <1>a
    DEF Ready, Return, Goto, fd, Results, PollSeesNews, HasPacket, NoLostWakeup
  <2> QED
    BY <1>4, <2>1, <2>2, <2>3 DEF PollReady
<1>5. CASE Clear
  BY <1>5, <1>a
  DEF Clear, ClearReady, Goto, vars, TypeOK, PollSeesNews, HasPacket, NoLostWakeup
<1>6. CASE PolledAgain
  BY <1>6, <1>a
  DEF PolledAgain, Resume, Goto, vars, TypeOK, PollSeesNews, HasPacket, NoLostWakeup
<1>7. CASE Cancel
  BY <1>7, <1>a
  DEF Cancel, Ready, Return, Goto, fd, TypeOK, PollSeesNews, HasPacket, NoLostWakeup
<1>8. CASE Flush
  <2>1. CASE TxSync /\ Ready("Ok")
    <3>1. UNCHANGED <<head, cur, slot, done, batches, fd>>
      BY <1>8 DEF Flush
    <3> QED
      BY <2>1, <3>1, SyncTakesAll
      DEF Ready, Return, Goto, fd, TypeOK, Results, NewsHasEdge, PollSeesNews,
          HasPacket, NoLostWakeup
  <2>2. CASE Return("Io") /\ UNCHANGED <<hwcur, tail, task>>
    BY <1>8, <2>2, <1>a
    DEF Flush, Return, task, ring, kernel, fd, Results, PollSeesNews, HasPacket,
        NoLostWakeup
  <2> QED
    BY <1>8, <2>1, <2>2 DEF Flush
<1>9. CASE Reactor
  <2>1. TxSync /\ UNCHANGED <<head, cur, slot, done, batches, result, task>>
    BY <1>9 DEF Reactor
  <2>2. Notify
    BY <1>9, <2>1, SyncTakesAll DEF Reactor
  <2> QED
    BY <2>1, <2>2, SyncTakesAll
    DEF Notify, task, TypeOK, NewsHasEdge, PollSeesNews, HasPacket, NoLostWakeup
<1>10. CASE Device
  <2>1. /\ done # hwcur /\ done' = NextIndex(done) /\ edge' = TRUE
        /\ UNCHANGED <<ring, hwcur, batches, result, readiness, waker, woken, task>>
    BY <1>10 DEF Device, Transmit, Interrupt
  <2>2. TypeOK'
    BY <2>1, IndexInSlots DEF TypeOK, ring
  <2>3. Space(done', hwcur) = Space(done, hwcur) - 1
    BY <2>1, SpaceAfterNext DEF TypeOK
  <2>4. LeavesOneFree'
    BY <2>1, <2>3, OneTurn, NumSlotsAssumption
    DEF ring, LeavesOneFree, CircularOrder, CursorsAgree
  <2> QED
    BY <2>1, <2>2, <2>4
    DEF ring, task, NewsHasEdge, PollSeesNews, HasPacket, NoLostWakeup
<1>11. CASE OtherFlush
  <2>1. TxSync /\ UNCHANGED <<head, cur, slot, done, batches, result, fd, task>>
    BY <1>11 DEF OtherFlush
  <2>2. edge \/ tail' = tail
    BY <2>1, SyncTakesAll DEF NewsHasEdge
  <2>3. edge \/ (IsFull' <=> IsFull)
    BY <2>1, <2>2 DEF IsFull
  <2> QED
    BY <2>1, <2>3, SyncTakesAll
    DEF fd, task, TypeOK, NewsHasEdge, PollSeesNews, HasPacket, NoLostWakeup
<1>12. CASE UNCHANGED asyncVars
  BY <1>12, <1>a
  DEF asyncVars, task, vars, fd, ring, IsFull, TypeOK, PollSeesNews, HasPacket, NoLostWakeup
<1> QED
  BY <1>1, <1>2, <1>3, <1>4, <1>5, <1>6, <1>7, <1>8, <1>9, <1>10, <1>11, <1>12
  DEF AsyncNext, PollWrite, Woken

LEMMA AsyncInvariant == AsyncSpec => []AsyncInv
  BY AsyncInitInv, AsyncStepInv, PTL DEF AsyncSpec

\* Every variable of the task, the descriptor and the ring keeps its type.
THEOREM AsyncTypeCorrect == AsyncSpec => []AsyncTypeOK
<1>1. AsyncInv => AsyncTypeOK
  BY DEF AsyncInv
<1> QED
  BY <1>1, AsyncInvariant, PTL

\* A pending task that was not woken is registered, and has nothing to do or an
\* edge the reactor has not seen, whichever ring of the descriptor syncs when.
THEOREM NoWakeupIsLost == AsyncSpec => []NoLostWakeup
<1>1. AsyncInv => NoLostWakeup
  BY DEF AsyncInv
<1> QED
  BY <1>1, AsyncInvariant, PTL

(***************************************************************************)
(* What poll_write and its surroundings do to the ring is a send, a sync   *)
(* or a transmission of TxRing: what is proved there holds here.           *)
(***************************************************************************)
LEMMA AsyncStepIsRingStep ==
  ASSUME AsyncInv, [AsyncNext]_asyncVars
  PROVE  [Ring!Next]_(Ring!vars)
<1> USE DEF AsyncInv
<1>a. ASSUME UNCHANGED <<ring, kernel, batches>> PROVE UNCHANGED Ring!vars
  BY <1>a DEF Ring!vars, Ring!ring, Ring!kernel, ring, kernel
<1>b. ASSUME TxSync, UNCHANGED <<head, cur, slot, done, batches>>
      PROVE  Ring!Next
  BY <1>b DEF TxSync, Ring!Next, Ring!Sync, Ring!TxSync, Ring!Space, Ring!Wrap,
              Space, Wrap
<1>1. CASE WriteSlot
  <2>1. CASE UNCHANGED <<head, cur, slot>>
    BY <1>1, <2>1, <1>a DEF WriteSlot, ring, kernel
  <2>2. CASE /\ Length[buf] \in 1 .. BufSize
             /\ slot' = [slot EXCEPT ![Wrap(head)] = Frame(buf)]
             /\ Advance(Wrap(head + 1))
    <3>1. buf \in Packets /\ cur = head /\ head # tail
          /\ UNCHANGED <<tail, kernel, batches>>
      BY <1>1 DEF WriteSlot, HasPacket, LeavesOneFree, CursorsAgree
    <3>2. head \in 0 .. NumSlots - 1
      BY DEF AsyncTypeOK, TypeOK, Slots
    <3>3. Wrap(head) = head /\ Wrap(head + 1) = NextIndex(head)
      BY <3>2, WrapOneTurn, NextIsWrap, NumSlotsAssumption DEF Slots
    <3>4. Length[buf] <= BufSize
      BY <2>2, TxConstants
    <3>5. Ring!MayClaim
      BY DEF Ring!MayClaim, Ring!Keeps
    <3>6. Ring!Send(buf)
      BY <2>2, <3>1, <3>3, <3>4
      DEF Ring!Send, Ring!Frame, Ring!Advance, Ring!Return, Ring!kernel,
          Ring!NextIndex, NextIndex, Frame, Advance, kernel
    <3> QED
      BY <3>1, <3>5, <3>6 DEF Ring!Next, Ring!Packets, Packets
  <2> QED
    BY <1>1, <2>1, <2>2 DEF WriteSlot
<1>2. CASE Flush
  BY <1>2, <1>a, <1>b DEF Flush, ring, kernel
<1>3. CASE Reactor \/ OtherFlush
  BY <1>3, <1>b DEF Reactor, OtherFlush
<1>4. CASE Device
  BY <1>4 DEF Device, Transmit, Ring!Next, Ring!Transmit, Ring!NextIndex, NextIndex,
              Ring!ring, ring
<1>5. CASE \/ SeesFull \/ PollReady \/ Clear \/ PolledAgain \/ Cancel
           \/ \E p \in Packets : Write(p)
  BY <1>5, <1>a DEF SeesFull, PollReady, Clear, PolledAgain, Cancel, Write, vars
<1>6. CASE UNCHANGED asyncVars
  BY <1>6, <1>a DEF asyncVars, vars
<1> QED
  BY <1>1, <1>2, <1>3, <1>4, <1>5, <1>6 DEF AsyncNext, PollWrite, Woken

\* poll_write, poll_flush and the reactor implement TxRing under the whole
\* discipline, though poll_write has a test of its own for a full ring.
THEOREM WriterKeepsRingRules == AsyncSpec => KeepsRingRules
<1>1. AsyncInit => Ring!Init
  BY DEF AsyncInit, Init, Ring!Init, Ring!Slots, Slots
<1>2. AsyncInv /\ [AsyncNext]_asyncVars => [Ring!Next]_(Ring!vars)
  BY AsyncStepIsRingStep
<1> QED
  BY <1>1, <1>2, AsyncInvariant, PTL DEF AsyncSpec, KeepsRingRules, Ring!Spec
==============================================================================
