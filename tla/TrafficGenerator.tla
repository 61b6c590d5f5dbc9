--------------------------- MODULE TrafficGenerator ---------------------------
(***************************************************************************)
(* The loop of src/main.rs: reserve all that is free of a TX ring, write a *)
(* packet to every slot of the batch, commit, hand the batch over; when    *)
(* nothing is free, sync twice and try again.                              *)
(*                                                                         *)
(* The program is one thread.  Its steps interleave with those of the      *)
(* device, and any of its sync calls may fail without its noticing.        *)
(***************************************************************************)
EXTENDS TxRing

CONSTANTS
  Headers,    \* number of values current_packet_zmm goes through (2^16)
  Batches,    \* PACKET_COUNT: the loop counts batches
  batchId     \* the one reservation the loop has at a time

\* The program sends the header values 0, 1, ..., Headers - 1, 0, ..., the
\* packets that PacketTemplate computes.  It does not ask whether they fit the
\* buffer: that they do is assumed only when it is compared with a caller that
\* does.
ASSUME GenConstants ==
  /\ Headers \in Nat \ {0}
  /\ Packets = 0 .. Headers - 1
  /\ "fits_buffer" \in Discipline => \A p \in Packets : Length[p] <= BufSize
  /\ Batches \in Nat
  /\ Reservations = {batchId}

VARIABLES
  pc,         \* where the loop is
  i,          \* batches committed
  z,          \* index of the next packet of the batch
  written,    \* packets_written
  current     \* current_packet_zmm

loop    == <<i, z, written, current>>
genVars == <<vars, pc, loop>>

Steps == {"reserve", "fill", "hand_over", "retry", "poll", "exit"}

GenTypeOK ==
  /\ pc \in Steps
  /\ i \in 0 .. Batches
  /\ z \in 0 .. NumSlots
  /\ written \in 0 .. NumSlots
  /\ current \in Packets

GenInit ==
  /\ Init
  /\ pc = "reserve"
  /\ i = 0 /\ z = 0 /\ written = 0
  /\ current = 0

Goto(step) == pc' = step

\* Mutant: the headers do not begin again after the last.
NextHeaderEndless(p) == p + 1

NextHeader(p) == (p + 1) % Headers

\* Mutant: the index of the packet is not reset.
ReserveKeepsIndex ==
  /\ pc = "reserve" /\ i < Batches
  /\ ReserveAll(batchId)
  /\ Goto(IF result' = "Ok" THEN "fill" ELSE "retry")
  /\ UNCHANGED loop

\* Mutant: a full ring is tried again without a sync.
ReserveSpins ==
  /\ pc = "reserve" /\ i < Batches
  /\ ReserveAll(batchId)
  /\ Goto(IF result' = "Ok" THEN "fill" ELSE "reserve")
  /\ IF result' = "Ok" THEN z' = 0 /\ written' = 0 ELSE UNCHANGED <<z, written>>
  /\ UNCHANGED <<i, current>>

\* match tx_ring.reserve_all(), at the head of the loop.  Its third arm breaks
\* the loop on any other error; reserve_all has none.
Reserve ==
  /\ pc = "reserve" /\ i < Batches
  /\ ReserveAll(batchId)
  /\ \/ /\ result' = "Ok"
        /\ Goto("fill")
        /\ z' = 0 /\ written' = 0
     \/ /\ result' = "InsufficientSpace"
        /\ Goto("retry")
        /\ UNCHANGED <<z, written>>
  /\ UNCHANGED <<i, current>>

\* Mutant: the packet is sent beside the batch instead of written to it.
FillOneBySend ==
  \E r \in batches :
    /\ pc = "fill" /\ z < r.count
    /\ Send(current)
    /\ IF result' = "Ok"
         THEN written' = written + 1 /\ current' = NextHeader(current)
         ELSE UNCHANGED <<written, current>>
    /\ z' = z + 1
    /\ UNCHANGED <<pc, i>>

\* One turn of the inner loop: a packet is written and the next one computed.
FillOne ==
  \E r \in batches :
    /\ pc = "fill" /\ z < r.count
    /\ Packet(r, z, current)
    /\ IF result' = "Ok"
         THEN written' = written + 1 /\ current' = NextHeader(current)
         ELSE UNCHANGED <<written, current>>
    /\ z' = z + 1
    /\ UNCHANGED <<pc, i>>

\* Mutant: the last packet of the batch is not committed.
CommitAllButOne ==
  \E r \in batches :
    /\ pc = "fill" /\ z = r.count
    /\ Commit(r, written - 1)
    /\ i' = i + 1
    /\ Goto("hand_over")
    /\ UNCHANGED <<z, written, current>>

\* The end of the inner loop, the store fence and batch.commit.
CommitBatch ==
  \E r \in batches :
    /\ pc = "fill" /\ z = r.count
    /\ Commit(r, written)
    /\ i' = i + 1
    /\ Goto("hand_over")
    /\ UNCHANGED <<z, written, current>>

\* A sync call of the loop, after which it goes on at next.
SyncThen(next) == Sync /\ Goto(next) /\ UNCHANGED loop

HandOver == pc = "hand_over" /\ SyncThen("reserve")

\* On a full ring: sync_ioctl in case the last one failed, then a poll.
Retry == pc = "retry" /\ SyncThen("poll")

Poll == pc = "poll" /\ SyncThen("reserve")

Exit ==
  /\ pc = "reserve" /\ i = Batches
  /\ Goto("exit")
  /\ UNCHANGED <<vars, loop>>

Program == Reserve \/ FillOne \/ CommitBatch \/ HandOver \/ Retry \/ Poll \/ Exit

Device == Transmit /\ UNCHANGED <<pc, loop>>

GenNext == Program \/ Device

\* A poll in which the kernel does run.
PollSucceeds == Poll /\ TxSync

GenSpec == GenInit /\ [][GenNext]_genVars

(***************************************************************************)
(* The thread is scheduled, the device transmits what it was given, and    *)
(* poll does not fail for ever.  No more is assumed of sync_ioctl.         *)
(***************************************************************************)
FairGenSpec ==
  /\ GenSpec
  /\ WF_genVars(Program)
  /\ WF_genVars(Device)
  /\ SF_genVars(PollSucceeds)

-------------------------------------------------------------------------------
(* Properties.                                                             *)

\* The loop uses the ring within the whole of its discipline: one reservation
\* at a time, no reserve_batch on a full ring, no packet too long.
KeepsDiscipline == Spec

\* The number of slots in flight or already filled.
Filled == Space(done, head) + (IF batches = {} THEN 0 ELSE written)

\* The slots in flight and the slots already filled hold successive headers,
\* the last of them the one before current: none is skipped, repeated or left
\* with what it held before.
SuccessiveHeaders ==
  \A k \in 1 .. Filled :
    slot[Wrap(done + Filled - k)].pkt = (current - k) % Headers

\* A batch is begun only when the kernel has taken every batch before it: a
\* failed hand over is noticed, as a full ring, and made good before more is
\* written.  (At most one batch waits, so only the last one is ever at risk.)
OneBatchWaits == batches # {} => hwcur = head

\* The loop ends, however often a sync fails and the ring is full.
Terminates == <>(pc = "exit")
===============================================================================
