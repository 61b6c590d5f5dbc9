----------------------------- MODULE AsyncTxRing -----------------------------
(***************************************************************************)
(* AsyncNetmapTxRing of src/tokio_async.rs: one task that writes packets   *)
(* to a TX ring with poll_write and flushes each with poll_flush, as the   *)
(* comment at lines 277-278 asks.  Beside it run the reactor, whose epoll  *)
(* is a poll of the descriptor and syncs as TxRing::sync's poll does, the  *)
(* device, and the flushes of the other rings of the descriptor.           *)
(*                                                                         *)
(* Definitions marked "Mutant" are used as in module TxRing.               *)
(***************************************************************************)
EXTENDS TxRing, AsyncFd

\* A ring of two slots is full for poll_write for ever.
ASSUME RoomToWrite == NumSlots > 2

VARIABLES
  pc,     \* where the task is in poll_write; "flush" after a packet was written
  buf     \* the packet of the write in progress

task == <<pc, buf>>
asyncVars == <<vars, fd, task>>

AsyncInit == Init /\ FdInit /\ pc = "idle" /\ buf = NoPacket

Goto(p) == pc' = p

\* poll_write returns Poll::Ready(r); after a packet comes its flush.
Ready(r) == Return(r) /\ Goto("idle") /\ buf' = NoPacket

-------------------------------------------------------------------------------
(* The task.                                                               *)

Write(p) ==
  /\ pc = "idle" /\ Goto("check") /\ buf' = p
  /\ UNCHANGED <<vars, fd>>

\* Mutant: head + 1 is compared without the remainder.
IsFullNoWrap == head + 1 = tail

IsFull == Wrap(head + 1) = tail

\* The loop of poll_write when there is space.
WriteSlot ==
  /\ pc = "check" /\ ~IsFull
  /\ UNCHANGED <<tail, kernel, batches, fd>>
  /\ \/ /\ Length[buf] = 0
        /\ Ready("Ok") /\ UNCHANGED <<head, cur, slot>>
     \/ /\ Length[buf] > BufSize
        /\ Ready("PacketTooLarge") /\ UNCHANGED <<head, cur, slot>>
     \/ /\ Length[buf] \in 1 .. BufSize
        /\ slot' = [slot EXCEPT ![Wrap(head)] = Frame(buf)]
        /\ Advance(Wrap(head + 1))
        /\ Return("Ok") /\ Goto("flush") /\ buf' = NoPacket

\* The loop of poll_write on a full ring.
SeesFull == pc = "check" /\ IsFull /\ Goto("poll") /\ UNCHANGED <<vars, fd, buf>>

PollReady ==
  /\ pc = "poll"
  /\ \/ TakeReady /\ Goto("clear") /\ UNCHANGED <<vars, buf>>
     \/ Register /\ Goto("pending") /\ UNCHANGED <<vars, buf>>
     \/ Ready("Io") /\ UNCHANGED <<ring, kernel, batches, fd>>

\* Mutant: after clear_ready the call gives up, as poll_read does.
ClearThenPends ==
  pc = "clear" /\ ClearReady /\ Goto("pending") /\ UNCHANGED <<vars, buf>>

Clear == pc = "clear" /\ ClearReady /\ Goto("check") /\ UNCHANGED <<vars, buf>>

\* The pending task is polled again, woken or not.
PolledAgain == pc = "pending" /\ Resume /\ Goto("check") /\ UNCHANGED <<vars, buf>>

Woken == woken /\ PolledAgain

\* The write is given up while it is pending, in a timeout say.
Cancel == pc = "pending" /\ Ready(result) /\ UNCHANGED <<ring, kernel, batches, fd>>

\* Mutant: the ioctl is left out.
FlushNothing == pc = "flush" /\ Ready("Ok") /\ UNCHANGED <<ring, kernel, batches, fd>>

\* poll_flush, and poll_shutdown, which calls it.  If the ioctl fails the
\* caller flushes again.
Flush ==
  /\ pc = "flush"
  /\ UNCHANGED <<head, cur, slot, done, batches, fd>>
  /\ \/ TxSync /\ Ready("Ok")
     \/ Return("Io") /\ UNCHANGED <<hwcur, tail, task>>

-------------------------------------------------------------------------------
(* The others.                                                             *)

\* The reactor sees an edge and asks the kernel.
Reactor ==
  /\ edge
  /\ TxSync
  /\ IF tail' # cur THEN Notify ELSE Ignore
  /\ UNCHANGED <<head, cur, slot, done, batches, result, task>>

Device == Transmit /\ Interrupt /\ UNCHANGED task

\* The flush of another ring: the ioctl is the descriptor's.
OtherFlush == TxSync /\ UNCHANGED <<head, cur, slot, done, batches, result, fd, task>>

PollWrite == WriteSlot \/ SeesFull \/ PollReady \/ Clear \/ Woken

AsyncNext ==
  \/ \E p \in Packets : Write(p)
  \/ PollWrite \/ PolledAgain \/ Cancel \/ Flush
  \/ Reactor \/ Device \/ OtherFlush

AsyncSpec == AsyncInit /\ [][AsyncNext]_asyncVars

\* The executor polls a task that was woken, the reactor runs, and the device
\* transmits what it was given.
FairAsyncSpec ==
  AsyncSpec /\ WF_asyncVars(PollWrite) /\ WF_asyncVars(Reactor) /\ WF_asyncVars(Device)

-------------------------------------------------------------------------------
(* Properties.                                                             *)

AsyncTypeOK ==
  /\ TypeOK /\ FdTypeOK
  /\ pc \in {"idle", "check", "poll", "clear", "pending", "flush"}
  /\ buf \in Packets \union {NoPacket}

\* A pending task is woken or registered for wakeup, and if it is not woken
\* then the ring is still full or the reactor has yet to look at it: no event
\* between the test of the ring and the return of Pending is lost, whoever
\* moved tail ("it registers the current task for wakeup", tokio_async.rs:274).
NoLostWakeup == pc = "pending" => woken \/ (waker /\ (IsFull \/ edge))

\* The ring as TxRing describes it, without what poll_write returns.
Ring == INSTANCE TxRing WITH result <- "Ok"

\* poll_write keeps to the ring's rules: although it takes head = tail, a full
\* ring, for one with space, it writes no slot that the device has, because it
\* alone fills the ring and never to the last slot.
KeepsRingRules == Ring!Spec

\* Every write returns.
WriteReturns == pc = "check" ~> pc \in {"idle", "flush"}
==============================================================================
