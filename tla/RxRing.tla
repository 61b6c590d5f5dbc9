-------------------------------- MODULE RxRing --------------------------------
(***************************************************************************)
(* One netmap RX ring as src/ring.rs drives it: RxRing::recv, recv_batch   *)
(* and sync, and the frames that the caller keeps.                         *)
(*                                                                         *)
(* The device fills slots from hwtail on; a sync shows the program, by     *)
(* moving tail, what has arrived, and takes back, by reading head, what    *)
(* the program has released:                                               *)
(*                                                                         *)
(*      hwcur        head = cur        tail        hwtail                  *)
(*   ----|- released, ---|--- lent to ---|- arrived, -|-- free for -----   *)
(*          not yet synced   the program   not synced    the device        *)
(*                                                                         *)
(* A frame is a view of a slot's buffer, not a copy (Frame::new), and the  *)
(* call that makes it releases the slot at once.  It is the next sync, by  *)
(* whichever ring of the descriptor, that lets the device write again what *)
(* the frame shows.                                                        *)
(*                                                                         *)
(* Definitions marked "Mutant" are used as in module TxRing.               *)
(***************************************************************************)
EXTENDS RingIndex, Sequences

CONSTANTS
  Packets,       \* what arrives
  NoPacket,      \* the payload of a buffer nothing has arrived in
  MaxFrames,     \* the most frames the caller keeps (a bound of the model)
  DropsFrames    \* the caller gives up every frame before a sync

ASSUME RxConstants ==
  /\ NoPacket \notin Packets
  /\ MaxFrames \in Nat
  /\ DropsFrames \in BOOLEAN

VARIABLES
  head, cur, tail,   \* struct netmap_ring
  slot,              \* slot[i]: the packet in the buffer slot[i].buf_idx names
  hwcur, hwtail,     \* the kernel: first slot not taken back, not filled
  batch,             \* slots shown by the frames that recv_batch wrote to the
                     \* caller's slices and that the caller keeps
  single,            \* slot shown by the frame that recv returned, if kept
  result             \* how many packets the last call delivered

ring   == <<head, cur, tail>>
kernel == <<hwcur, hwtail>>
vars   == <<ring, slot, kernel, batch, single, result>>

\* The slots of all frames that the caller keeps, oldest first.
frames == batch \o single

RxTypeOK ==
  /\ head \in Slots /\ cur \in Slots /\ tail \in Slots
  /\ slot \in [Slots -> Packets \union {NoPacket}]
  /\ hwcur \in Slots /\ hwtail \in Slots
  /\ batch \in Seq(Slots)
  /\ single \in Seq(Slots)
  /\ result \in 0 .. NumSlots

-------------------------------------------------------------------------------
(* The kernel and the device.                                              *)

Init ==
  /\ head = 0 /\ cur = 0 /\ tail = 0
  /\ slot = [i \in Slots |-> NoPacket]
  /\ hwcur = 0 /\ hwtail = 0
  /\ batch = <<>> /\ single = <<>>
  /\ result = 0

\* The device stores a packet in the next free slot; the slot before hwcur is
\* never used.  A packet that finds no free slot is dropped on the wire.
Arrive(p) ==
  /\ NextIndex(hwtail) # hwcur
  /\ slot' = [slot EXCEPT ![hwtail] = p]
  /\ hwtail' = NextIndex(hwtail)
  /\ UNCHANGED <<ring, hwcur, batch, single, result>>

\* The kernel takes back what head releases, provided that head has not left
\* the window it lent, and lends what has arrived.
RxSync ==
  IF Space(hwcur, head) <= Space(hwcur, tail)
    THEN hwcur' = head /\ tail' = hwtail
    ELSE UNCHANGED <<hwcur, tail>>

-------------------------------------------------------------------------------
(* The calls.                                                              *)

\* The n slots from i on.
SlotsFrom(i, n) == [k \in 1 .. n |-> Wrap(i + k - 1)]

\* The program's slots begin at i from now on.
Release(i) == head' = i /\ cur' = i

\* Mutant: no test for an empty ring.
RecvFromEmptyRing ==
  /\ single' = <<head>>
  /\ Release(NextIndex(head))
  /\ result' = 1
  /\ UNCHANGED <<tail, slot, kernel, batch>>

\* RxRing::recv.  The frame it returns borrows the ring: a receive call can be
\* made only when the frame of the recv before it is gone.
Recv ==
  /\ \/ /\ head = tail
        /\ single' = <<>>
        /\ result' = 0
        /\ UNCHANGED <<head, cur>>
     \/ /\ head # tail
        /\ single' = <<head>>
        /\ result' = 1
        /\ Release(NextIndex(head))
  /\ UNCHANGED <<tail, slot, kernel, batch>>

\* Mutant: the size of the caller's slice is not limited to what is available.
RecvBatchUnclamped(len) ==
  /\ result' = len
  /\ single' = <<>>
  /\ batch' = batch \o SlotsFrom(head, len)
  /\ Release(Wrap(head + len))
  /\ UNCHANGED <<tail, slot, kernel>>

\* Mutant: the first slot is skipped.
RecvBatchFromNext(len) ==
  LET avail == Space(head, tail)
      count == IF avail <= len THEN avail ELSE len
  IN  /\ result' = count
      /\ single' = <<>>
      /\ batch' = batch \o SlotsFrom(head + 1, count)
      /\ \/ count = 0 /\ UNCHANGED <<head, cur>>
         \/ count # 0 /\ Release(Wrap(head + count))
      /\ UNCHANGED <<tail, slot, kernel>>

\* RxRing::recv_batch into a slice of len frames.  Their lifetime is not tied
\* to the ring.
RecvBatch(len) ==
  LET avail == Space(head, tail)
      count == IF avail <= len THEN avail ELSE len
  IN  /\ result' = count
      /\ single' = <<>>
      /\ batch' = batch \o SlotsFrom(head, count)
      /\ \/ count = 0 /\ UNCHANGED <<head, cur>>
         \/ count # 0 /\ Release(Wrap(head + count))
      /\ UNCHANGED <<tail, slot, kernel>>

\* RxRing::sync, of this ring or of another ring of the same descriptor: the
\* ioctl is the descriptor's.  An error is logged and the caller not told.
Sync ==
  /\ RxSync \/ UNCHANGED <<hwcur, tail>>
  /\ result' = 0
  /\ UNCHANGED <<head, cur, slot, hwtail, batch, single>>

\* The caller gives up its frames.
Drop ==
  /\ frames # <<>>
  /\ batch' = <<>> /\ single' = <<>>
  /\ UNCHANGED <<ring, slot, kernel, result>>

-------------------------------------------------------------------------------
(* The system: the device and a caller.                                    *)

Next ==
  \/ \E p \in Packets : Arrive(p)
  \/ Recv /\ Len(frames') <= MaxFrames
  \/ \E len \in 0 .. NumSlots : RecvBatch(len) /\ Len(frames') <= MaxFrames
  \/ (DropsFrames => frames = <<>>) /\ Sync
  \/ Drop

Spec == Init /\ [][Next]_vars

-------------------------------------------------------------------------------
(* Properties.                                                             *)

\* The indices keep their circular order: what the caller has released, what
\* it may read, what has arrived unseen and what the device may fill never
\* overlap, and recv and recv_batch agree on where the program's slots begin.
CircularOrder ==
  Space(hwcur, head) + Space(head, tail) + Space(tail, hwtail) < NumSlots

CursorsAgree == cur = head

\* Every frame of s shows one of the slots i, ..., j - 1.
ShowsWithin(s, i, j) == \A k \in 1 .. Len(s) : Space(i, s[k]) < Space(i, j)

\* Every frame the caller keeps shows a slot released since the last sync, one
\* that the device cannot fill.
FramesReleased == ShowsWithin(frames, hwcur, head)

RxOwnership == CircularOrder /\ CursorsAgree

\* What a frame shows does not change while the caller keeps it: it is "a view
\* of a packet" (frame.rs:4), not of whatever its slot holds next.
HeldFramesStable ==
  [][\A k \in 1 .. Len(frames) : slot'[frames[k]] = slot[frames[k]]]_vars

-------------------------------------------------------------------------------
(* The ring implements the bounded queue.                                  *)

Contents(s) == [k \in 1 .. Len(s) |-> slot[s[k]]]

Queue == INSTANCE RxQueue WITH
  Packets  <- Packets,
  Capacity <- NumSlots - 1,
  queue    <- Contents(SlotsFrom(head, Space(head, hwtail))),
  views    <- Contents(frames)

\* Packets are delivered once each, in the order of arrival, by recv and
\* recv_batch together, and none that the device accepted is skipped.
ImplementsRxQueue == Queue!Spec
===============================================================================
