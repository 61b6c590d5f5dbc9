------------------------------ MODULE TxThreads ------------------------------
(***************************************************************************)
(* A TX ring in two threads.  Ring is Send, so a worker can own the handle *)
(* of a ring; Netmap is not Sync, so the worker has no &Netmap and cannot  *)
(* sync.  The thread that owns the Netmap pumps: the NIOCTXSYNC or poll of *)
(* any ring syncs all rings of the descriptor.  Its syncs come between any *)
(* two loads and stores of the worker.                                     *)
(*                                                                         *)
(* TxRing's calls are taken apart here into the accesses to shared memory  *)
(* that src/ring.rs makes.  Stores become visible in program order, except *)
(* those to a packet of a batch: src/main.rs writes it with streaming      *)
(* stores, which wait in the processor until some later time, and no       *)
(* longer than the store fence before commit.                              *)
(*                                                                         *)
(* Definitions marked "Mutant" are used as in module TxRing.               *)
(***************************************************************************)
EXTENDS TxRing

VARIABLES
  pc,       \* the next access of the worker, "idle" between calls
  call,     \* the locals of the call in progress
  posted    \* posted[i]: the packet on its way to the buffer of slot i

worker == <<pc, call, posted>>
threadVars == <<vars, worker>>

Accesses == {"idle", "copy", "len", "stream", "cur", "head"}

\* at: the slot that the call writes, NumSlots if none; pkt: what it writes;
\* was: what the slot held before (for AsIfWritten only); new: the next head.
NoCall == [at |-> NumSlots, pkt |-> NoPacket, was |-> NoPacket, new |-> 0]

\* What slot i holds when every store has arrived.
Written(i) ==
  IF posted[i] = NoPacket THEN slot[i] ELSE [slot[i] EXCEPT !.pkt = posted[i]]

ThreadsTypeOK ==
  /\ TypeOK
  /\ pc \in Accesses
  /\ call \in [at : 0 .. NumSlots, pkt : Packets \union {NoPacket},
               was : Frames \union {NoPacket}, new : Slots]
  /\ posted \in [Slots -> Packets \union {NoPacket}]

ThreadsInit ==
  Init /\ pc = "idle" /\ call = NoCall /\ posted = [i \in Slots |-> NoPacket]

\* The call returns.
Done == pc' = "idle" /\ call' = NoCall

\* The call goes on with access a.
Goto(a) == pc' = a

Writing(i, p, new) == call' = [at |-> i, pkt |-> p, was |-> Written(i), new |-> new]

-------------------------------------------------------------------------------
(* send: load cur and tail; copy; store len, cur and head.                 *)

\* Mutant: the slot is given away before it is written.
SendPublishesFirst(p) ==
  /\ pc = "idle" /\ MayClaim
  /\ Length[p] <= BufSize /\ cur # tail
  /\ Writing(cur, p, NextIndex(cur)) /\ Goto("copy")
  /\ Advance(NextIndex(cur))
  /\ UNCHANGED <<tail, slot, kernel, batches, result, posted>>

SendLoads(p) ==
  /\ pc = "idle" /\ MayClaim
  /\ UNCHANGED posted
  /\ \/ /\ Length[p] > BufSize
        /\ Fail("PacketTooLarge") /\ UNCHANGED <<pc, call>>
     \/ /\ Length[p] <= BufSize /\ cur = tail
        /\ Fail("InsufficientSpace") /\ UNCHANGED <<pc, call>>
     \/ /\ Length[p] <= BufSize /\ cur # tail
        /\ Writing(cur, p, NextIndex(cur)) /\ Goto("copy")
        /\ UNCHANGED vars

\* An earlier packet on its way to the same buffer arrives first.
SendCopies ==
  /\ pc = "copy" /\ Goto("len")
  /\ slot' = [slot EXCEPT ![call.at].pkt = call.pkt]
  /\ posted' = [posted EXCEPT ![call.at] = NoPacket]
  /\ UNCHANGED <<head, cur, tail, kernel, batches, result, call>>

SendSetsLen ==
  /\ pc = "len" /\ Goto("cur")
  /\ slot' = [slot EXCEPT ![call.at].len = Frame(call.pkt).len]
  /\ UNCHANGED <<head, cur, tail, kernel, batches, result, call, posted>>

-------------------------------------------------------------------------------
(* The calls on a batch.                                                   *)

\* reserve_batch and reserve_all load what the pump may store, tail, once.
Reserve(id) ==
  /\ pc = "idle" /\ MayClaim
  /\ \/ ReserveAll(id)
     \/ \E n \in 0 .. NumSlots : Keeps("checks_space", head # tail) /\ ReserveBatch(id, n)
  /\ UNCHANGED worker

\* packet stores the length; then its caller writes to the slice.
PacketSetsLen(r, i, p) ==
  /\ pc = "idle"
  /\ Keeps("fits_buffer", Length[p] <= BufSize)
  /\ UNCHANGED posted
  /\ \/ /\ i >= r.count
        /\ Fail("InvalidRingIndex") /\ UNCHANGED <<pc, call>>
     \/ /\ i < r.count
        /\ Writing(Wrap(r.start + i), p, head) /\ Goto("stream")
        /\ slot' = [slot EXCEPT ![Wrap(r.start + i)].len = Frame(p).len]
        /\ UNCHANGED <<head, cur, tail, kernel, batches, result>>

PacketStreams ==
  /\ pc = "stream" /\ Done
  /\ posted' = [posted EXCEPT ![call.at] = call.pkt]
  /\ Return("Ok")
  /\ UNCHANGED <<ring, kernel, batches>>

\* A streaming store arrives.
Arrives(i) ==
  /\ posted[i] # NoPacket
  /\ slot' = [slot EXCEPT ![i] = Written(i)]
  /\ posted' = [posted EXCEPT ![i] = NoPacket]
  /\ UNCHANGED <<head, cur, tail, kernel, batches, result, pc, call>>

\* commit computes the new head, or returns if nothing was written.
CommitComputes(r, written) ==
  LET actual == IF written <= r.count THEN written ELSE r.count
  IN  \/ actual = 0 /\ Commit(r, 0) /\ UNCHANGED worker
      \/ /\ actual # 0
         /\ call' = [NoCall EXCEPT !.new = Wrap(r.start + actual)] /\ Goto("cur")
         /\ UNCHANGED <<vars, posted>>

\* Mutant: no fence before the commit.
CommitUnfenced(r, written) == pc = "idle" /\ CommitComputes(r, written)

\* The store fence, then commit.
FenceAndCommit(r, written) ==
  /\ pc = "idle"
  /\ \A i \in Slots : posted[i] = NoPacket
  /\ CommitComputes(r, written)

\* A reservation goes out of scope, without a fence.
DropBatch(r) == pc = "idle" /\ Commit(r, 0) /\ UNCHANGED worker

-------------------------------------------------------------------------------
(* The last stores of send and commit.                                     *)

\* Mutant: cur stays behind.
StoreCurForgotten == pc = "cur" /\ Goto("head") /\ UNCHANGED <<vars, call, posted>>

StoreCur ==
  /\ pc = "cur" /\ Goto("head")
  /\ cur' = call.new
  /\ UNCHANGED <<head, tail, slot, kernel, batches, result, call, posted>>

StoreHead ==
  /\ pc = "head" /\ Done
  /\ head' = call.new
  /\ batches' = {}
  /\ Return("Ok")
  /\ UNCHANGED <<cur, tail, slot, kernel, posted>>

-------------------------------------------------------------------------------
Worker ==
  \/ \E p \in Packets : SendLoads(p)
  \/ SendCopies
  \/ SendSetsLen
  \/ \E id \in Reservations : Reserve(id)
  \/ \E r \in batches, i \in 0 .. NumSlots, p \in Packets : PacketSetsLen(r, i, p)
  \/ PacketStreams
  \/ \E r \in batches, written \in 0 .. NumSlots : FenceAndCommit(r, written)
  \/ \E r \in batches : DropBatch(r)
  \/ StoreCur
  \/ StoreHead

Pump == Sync /\ UNCHANGED worker

Device == Transmit /\ UNCHANGED worker

ThreadsNext == Worker \/ (\E i \in Slots : Arrives(i)) \/ Pump \/ Device

ThreadsSpec == ThreadsInit /\ [][ThreadsNext]_threadVars

-------------------------------------------------------------------------------
(* Properties.                                                             *)

\* A packet that the program has given away is in its buffer: no store to it
\* is on its way when the kernel or the device may read it.
GivenIsVisible == \A i \in InFlight : posted[i] = NoPacket

\* Whenever a sync comes, cur lies between head and tail: the kernel never
\* sees the one index moved without the other on the wrong side ("for netmap
\* it is critical that head and cur move together", ring.rs:98).
CurAheadOfHead ==
  /\ Space(hwcur, head) <= Space(hwcur, cur)
  /\ Space(hwcur, cur) <= Space(hwcur, tail)

\* The slots without what the call in progress has done to its slot.
AsIfWritten == [i \in Slots |-> IF i = call.at THEN call.was ELSE Written(i)]

\* The ring as it would be if each call acted at once, at its last store or,
\* when it fails, at its load of tail.
Atomic == INSTANCE TxRing WITH cur <- head, slot <- AsIfWritten

\* Calls in the worker are atomic to the pump and the device: what is said of
\* TxRing, whose calls are single steps, holds of two threads.
CallsAreAtomic == Atomic!Spec
===============================================================================
