-------------------------------- MODULE TxRing --------------------------------
(***************************************************************************)
(* One netmap TX ring as src/ring.rs drives it: TxRing::send,              *)
(* reserve_batch, reserve_all, sync and sync_ioctl, and                    *)
(* BatchReservation::packet and commit.                                    *)
(*                                                                         *)
(* The ring lives in memory that the program shares with the kernel.  The  *)
(* program owns the slots head, ..., tail - 1, fills them and gives them   *)
(* away by moving head; the kernel takes them at the next sync and lends   *)
(* them again, by moving tail, once the device has transmitted them:       *)
(*                                                                         *)
(*      done        hwcur        head = cur        tail                    *)
(*   ----|-- at the --|-- given, not --|-- owned by --|-- transmitted --   *)
(*          device       yet synced      the program                       *)
(*                                                                         *)
(* Calls are atomic: they run on one thread, the kernel moves tail only    *)
(* inside that thread's sync calls, and the device touches only what it    *)
(* was given.  What interleaves is the device, the calls, and the          *)
(* reservations that stay open between calls.                              *)
(*                                                                         *)
(* A definition marked "Mutant" is a plausible error in the operation that *)
(* follows it.  No other definition uses it: it serves to show that the    *)
(* properties notice the error.                                            *)
(***************************************************************************)
EXTENDS RingIndex, Sequences

CONSTANTS
  Length,        \* the length of each packet the program sends
  BufSize,       \* netmap_ring.nr_buf_size
  LenModulus,    \* 2^16 in the code: netmap_slot.len is a u16
  Reservations,  \* identities of the BatchReservation values alive at once
  NoPacket,      \* the payload of a buffer nobody has written
  Discipline     \* what the caller keeps to beyond what the types demand

(***************************************************************************)
(* The types let a caller hold several reservations and send beside them:  *)
(* reserve_batch and reserve_all return BatchReservation<'a>, tied to the  *)
(* ring and not to the &mut self of the call.  They let it reserve from a  *)
(* ring that is full and announce any length to packet.  Each member of    *)
(* Discipline is one of these things that the caller does not do.          *)
(*   one_batch     no other claim on the ring while a reservation is open  *)
(*   checks_space  reserve_batch is not called on a full ring              *)
(*   fits_buffer   packet is not asked for more than nr_buf_size bytes     *)
(***************************************************************************)
Disciplines == {"one_batch", "checks_space", "fits_buffer"}

Packets == DOMAIN Length

ASSUME TxConstants ==
  /\ Length \in [Packets -> Nat]
  /\ NoPacket \notin Packets
  /\ BufSize \in Nat
  /\ LenModulus \in Nat \ {0}
  /\ Discipline \subseteq Disciplines

VARIABLES
  head, cur, tail,   \* struct netmap_ring
  slot,              \* slot[i].len and the buffer that slot[i].buf_idx names
  hwcur, done,       \* the kernel: first slot not taken, not transmitted
  batches,           \* the open BatchReservation values
  result             \* what the last call returned

ring   == <<head, cur, tail, slot>>
kernel == <<hwcur, done>>
vars   == <<ring, kernel, batches, result>>

Frames == [pkt : Packets \union {NoPacket}, len : 0 .. LenModulus - 1]

BatchReservation == [id : Reservations, start : Slots, count : 0 .. NumSlots]

\* What the calls return; "Io" is for those of AsyncTxRing only.
Results ==
  {"Ok", "InsufficientSpace", "PacketTooLarge", "InvalidRingIndex", "Io"}

TypeOK ==
  /\ head \in Slots /\ cur \in Slots /\ tail \in Slots
  /\ slot \in [Slots -> Frames]
  /\ hwcur \in Slots /\ done \in Slots
  /\ batches \subseteq BatchReservation
  /\ result \in Results

\* What a slot holds after p was copied to its buffer and its length stored.
Frame(p) == [pkt |-> p, len |-> Length[p] % LenModulus]

-------------------------------------------------------------------------------
(* The kernel and the device, as the comments of ring.rs describe them.    *)

\* A ring just opened: every slot but the one the kernel keeps is lent.
Init ==
  /\ head = 0 /\ cur = 0 /\ tail = NumSlots - 1
  /\ slot = [i \in Slots |-> [pkt |-> NoPacket, len |-> 0]]
  /\ hwcur = 0 /\ done = 0
  /\ batches = {}
  /\ result = "Ok"

\* The kernel takes what head gives it, provided that head has not left the
\* window it lent, and lends every slot the device is done with but one.
TxSync ==
  IF Space(hwcur, head) <= Space(hwcur, tail)
    THEN /\ hwcur' = head
         /\ tail' = Wrap(done + NumSlots - 1)
    ELSE UNCHANGED <<hwcur, tail>>

\* The device transmits the oldest slot the kernel has taken.
Transmit ==
  /\ done # hwcur
  /\ done' = NextIndex(done)
  /\ UNCHANGED <<ring, hwcur, batches, result>>

-------------------------------------------------------------------------------
(* The calls.                                                              *)

Return(r) == result' = r

Fail(r) == Return(r) /\ UNCHANGED <<ring, kernel, batches>>

\* cur and head move to i together.
Advance(i) == cur' = i /\ head' = i

\* Mutant: no test of the packet's length against the buffer's.
SendAnyLength(p) ==
  \/ /\ cur = tail
     /\ Fail("InsufficientSpace")
  \/ /\ cur # tail
     /\ slot' = [slot EXCEPT ![cur] = Frame(p)]
     /\ Advance(NextIndex(cur))
     /\ Return("Ok")
     /\ UNCHANGED <<tail, kernel, batches>>

\* Mutant: no test for a full ring.
SendIntoFullRing(p) ==
  /\ Length[p] <= BufSize
  /\ slot' = [slot EXCEPT ![cur] = Frame(p)]
  /\ Advance(NextIndex(cur))
  /\ Return("Ok")
  /\ UNCHANGED <<tail, kernel, batches>>

\* TxRing::send.
Send(p) ==
  \/ /\ Length[p] > BufSize
     /\ Fail("PacketTooLarge")
  \/ /\ Length[p] <= BufSize
     /\ cur = tail
     /\ Fail("InsufficientSpace")
  \/ /\ Length[p] <= BufSize
     /\ cur # tail
     /\ slot' = [slot EXCEPT ![cur] = Frame(p)]
     /\ Advance(NextIndex(cur))
     /\ Return("Ok")
     /\ UNCHANGED <<tail, kernel, batches>>

FreshId(id) == \A r \in batches : r.id # id

\* A new reservation of n slots from index i on.
Open(id, i, n) ==
  /\ batches' = batches \union {[id |-> id, start |-> i, count |-> n]}
  /\ Return("Ok")
  /\ UNCHANGED <<ring, kernel>>

\* TxRing::reserve_batch.
ReserveBatch(id, n) ==
  /\ FreshId(id)
  /\ \/ /\ BatchSpace(head, tail) < n
        /\ Fail("InsufficientSpace")
     \/ /\ BatchSpace(head, tail) >= n
        /\ Open(id, head, n)

\* TxRing::reserve_all.
ReserveAll(id) ==
  /\ FreshId(id)
  /\ \/ /\ Space(cur, tail) = 0
        /\ Fail("InsufficientSpace")
     \/ /\ Space(cur, tail) > 0
        /\ Open(id, cur, Space(cur, tail))

\* Mutant: no test of the index against the size of the reservation.
PacketAnyIndex(r, i, p) ==
  /\ slot' = [slot EXCEPT ![Wrap(r.start + i)] = Frame(p)]
  /\ Return("Ok")
  /\ UNCHANGED <<head, cur, tail, kernel, batches>>

\* BatchReservation::packet with the caller's writes to the slice it returns:
\* the slice borrows the reservation, so they end before the next call on it.
Packet(r, i, p) ==
  \/ /\ i >= r.count
     /\ Fail("InvalidRingIndex")
  \/ /\ i < r.count
     /\ slot' = [slot EXCEPT ![Wrap(r.start + i)] = Frame(p)]
     /\ Return("Ok")
     /\ UNCHANGED <<head, cur, tail, kernel, batches>>

\* Mutant: commit releases as many slots as it is told to.
CommitUnclamped(r, written) ==
  /\ batches' = batches \ {r}
  /\ Advance(Wrap(r.start + written))
  /\ Return("Ok")
  /\ UNCHANGED <<tail, slot, kernel>>

\* BatchReservation::commit, which consumes the reservation.  Dropping a
\* reservation has the effect of committing none of it.
Commit(r, written) ==
  LET actual == IF written <= r.count THEN written ELSE r.count
  IN  /\ batches' = batches \ {r}
      /\ Return("Ok")
      /\ UNCHANGED <<tail, slot, kernel>>
      /\ \/ actual = 0 /\ UNCHANGED <<head, cur>>
         \/ actual # 0 /\ Advance(Wrap(r.start + actual))

\* TxRing::sync and sync_ioctl.  They return nothing: an error of poll or
\* ioctl is logged at most, so the caller cannot tell whether the kernel ran.
Sync ==
  /\ TxSync \/ UNCHANGED <<hwcur, tail>>
  /\ UNCHANGED <<head, cur, slot, done, batches, result>>

-------------------------------------------------------------------------------
(* The system: the device and a caller that keeps to its Discipline.       *)

Keeps(d, P) == d \in Discipline => P

MayClaim == Keeps("one_batch", batches = {})

Next ==
  \/ \E p \in Packets : MayClaim /\ Send(p)
  \/ \E id \in Reservations, n \in 0 .. NumSlots :
       /\ MayClaim
       /\ Keeps("checks_space", head # tail)
       /\ ReserveBatch(id, n)
  \/ \E id \in Reservations : MayClaim /\ ReserveAll(id)
  \/ \E r \in batches, i \in 0 .. NumSlots, p \in Packets :
       /\ Keeps("fits_buffer", Length[p] <= BufSize)
       /\ Packet(r, i, p)
  \/ \E r \in batches, written \in 0 .. NumSlots : Commit(r, written)
  \/ Sync
  \/ Transmit

Spec == Init /\ [][Next]_vars

-------------------------------------------------------------------------------
(* Properties.                                                             *)

\* The slots given to the device and not yet transmitted.
InFlight == {i \in Slots : Space(done, i) < Space(done, head)}

\* The indices keep their circular order, so that the device's slots, the
\* slots waiting for a sync and the slots the program owns never overlap and
\* at least one slot is nobody's; and every open reservation begins where the
\* program's slots begin and ends among them, whatever syncs came in between.
CircularOrder ==
  Space(done, hwcur) + Space(hwcur, head) + Space(head, tail) < NumSlots

CursorsAgree == cur = head

ReservationsOwned ==
  \A r \in batches : r.start = head /\ r.count <= Space(head, tail)

OneReservation == \A r, s \in batches : r = s

Ownership ==
  CircularOrder /\ CursorsAgree /\ ReservationsOwned /\ OneReservation

\* A packet in flight fits its buffer ("maximum payload size", ring.rs:142),
\* and the u16 of its slot announces its real length.  send owes this to its
\* test of the length, packet to its caller.
PayloadFits ==
  \A i \in InFlight :
    slot[i].pkt # NoPacket =>
      Length[slot[i].pkt] <= BufSize /\ slot[i].len = Length[slot[i].pkt]

\* No call writes a slot that the device has been given, through whatever
\* reservation and whatever index, until the device has transmitted it.
InFlightUntouched ==
  [][\A i \in InFlight : slot'[i] = slot[i]]_vars

\* commit moves head by the number of packets it was told of, and no further
\* than the reservation reaches ("move head and cur ONLY by the number of
\* packets really written", ring.rs:253): whatever happened since the
\* reservation, head is still where it began.
CommitMovesHeadByWritten ==
  [][\A r \in batches, written \in 0 .. NumSlots :
       Commit(r, written) =>
         Space(head, head') = IF written <= r.count THEN written ELSE r.count]_vars

\* A full ring has nothing to reserve: cur = tail is what send (ring.rs:73-77)
\* and reserve_all call a ring without free slots.
FullRingRefuses ==
  [][cur = tail => \A r \in batches' \ batches : r.count = 0]_vars

-------------------------------------------------------------------------------
(* A disciplined ring implements the bounded queue.                        *)

\* The frames of n slots from index i on, oldest first.
FramesFrom(i, n) == [k \in 1 .. n |-> slot[Wrap(i + k - 1)]]

Queue == INSTANCE TxQueue WITH
  Frames   <- Frames,
  Capacity <- NumSlots - 1,
  queue    <- FramesFrom(done, Space(done, head)),
  staged   <- IF batches = {} THEN <<>>
              ELSE LET r == CHOOSE r \in batches : TRUE
                   IN  FramesFrom(r.start, r.count)

\* The slots from done to head are a FIFO queue: what send and commit put
\* there leaves unchanged, once and in order, and a batch enters it only by
\* commit, and only as far as commit says.
ImplementsQueue == Queue!Spec
===============================================================================
