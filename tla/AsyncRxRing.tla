----------------------------- MODULE AsyncRxRing -----------------------------
(***************************************************************************)
(* AsyncNetmapRxRing of src/tokio_async.rs: one task that reads packets    *)
(* from an RX ring with poll_read, beside the reactor and the device.      *)
(* poll_read copies what it delivers, so the caller keeps no frames.       *)
(***************************************************************************)
EXTENDS RxRing, AsyncFd

VARIABLES
  pc,     \* where the task is in poll_read
  seen    \* the local tail of poll_read; its local head is always head

task == <<pc, seen>>
asyncVars == <<ring, slot, kernel, batch, single, result, fd, task>>
kept == <<batch, single>>

AsyncInit == Init /\ FdInit /\ pc = "idle" /\ seen = 0

Goto(p) == pc' = p

\* poll_read returns Poll::Ready with n packets, or with an error.
Ready(n) == result' = n /\ Goto("idle") /\ UNCHANGED seen

Read == pc = "idle" /\ Goto("sync") /\ UNCHANGED <<vars, fd, seen>>

\* The ioctl, and the loads of head and tail after it.
SyncAndLoad ==
  /\ pc = "sync"
  /\ UNCHANGED <<head, cur, slot, hwtail, kept, fd>>
  /\ \/ RxSync /\ seen' = tail' /\ UNCHANGED result
        /\ Goto(IF head = tail' THEN "poll" ELSE "read")
     \/ Ready(0) /\ UNCHANGED <<hwcur, tail>>

PollReady ==
  /\ pc = "poll"
  /\ UNCHANGED <<ring, slot, kernel, kept>>
  /\ \/ TakeReady /\ Goto("clear") /\ UNCHANGED <<result, seen>>
     \/ Register /\ Goto("pending") /\ UNCHANGED <<result, seen>>
     \/ Ready(0) /\ UNCHANGED fd

\* clear_ready; then head alone is loaded again and compared with the old tail.
ClearAndCompare ==
  /\ pc = "clear" /\ ClearReady
  /\ Goto(IF head = seen THEN "pending" ELSE "read")
  /\ UNCHANGED <<vars, seen>>

\* The slot at tail is copied, if the caller's buffer has room and the slot has
\* bytes, and the ring advanced: tail, and not head, moves with cur.
ReadSlot ==
  /\ pc = "read"
  /\ cur' = Wrap(seen + 1) /\ tail' = Wrap(seen + 1)
  /\ \E n \in {0, 1} : Ready(n)
  /\ UNCHANGED <<head, slot, kernel, kept, fd>>

Woken == pc = "pending" /\ woken /\ Resume /\ Goto("sync") /\ UNCHANGED <<vars, seen>>

\* The reactor sees an edge and asks the kernel, whose poll syncs.
Reactor ==
  /\ edge
  /\ RxSync
  /\ IF tail' # head THEN Notify ELSE Ignore
  /\ UNCHANGED <<head, cur, slot, hwtail, kept, result, task>>

Device == (\E p \in Packets : Arrive(p)) /\ Interrupt /\ UNCHANGED task

AsyncNext ==
  \/ Read \/ SyncAndLoad \/ PollReady \/ ClearAndCompare \/ ReadSlot \/ Woken
  \/ Reactor \/ Device

AsyncSpec == AsyncInit /\ [][AsyncNext]_asyncVars

-------------------------------------------------------------------------------
\* When poll_read has returned Pending the task is registered for wakeup, or
\* was woken since ("if no packets are available, it registers the current
\* task for wakeup [...] and returns Poll::Pending", tokio_async.rs:172-173).
PendingIsRegistered == pc = "pending" => waker \/ woken
==============================================================================
