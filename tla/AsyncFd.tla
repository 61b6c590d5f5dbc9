------------------------------- MODULE AsyncFd -------------------------------
(***************************************************************************)
(* One direction of tokio's AsyncFd<Netmap>, as src/tokio_async.rs uses    *)
(* it.  The reactor thread waits for edges of the descriptor.  An event    *)
(* sets the readiness, which stays until a task clears it, and wakes the   *)
(* one task whose waker is registered.  A guard clears the readiness only  *)
(* of the event that it was taken for.                                     *)
(***************************************************************************)

VARIABLES
  edge,        \* the descriptor has something new for the reactor
  readiness,   \* "none"; "ready"; or "taken", a guard holds its last event
  waker,       \* the waker of the task is registered
  woken        \* the task is to be polled again

fd == <<edge, readiness, waker, woken>>

FdTypeOK ==
  /\ edge \in BOOLEAN /\ waker \in BOOLEAN /\ woken \in BOOLEAN
  /\ readiness \in {"none", "ready", "taken"}

\* AsyncFd::new: to register a descriptor makes the reactor look at it once.
FdInit == edge = TRUE /\ readiness = "none" /\ waker = FALSE /\ woken = FALSE

\* The device interrupts.
Interrupt == edge' = TRUE /\ UNCHANGED <<readiness, waker, woken>>

\* The reactor has seen that the descriptor is ready, or that it is not.
Notify ==
  /\ edge' = FALSE
  /\ readiness' = "ready"
  /\ woken' = (woken \/ waker)
  /\ waker' = FALSE

Ignore == edge' = FALSE /\ UNCHANGED <<readiness, waker, woken>>

\* poll_read_ready and poll_write_ready return a guard, or register the waker
\* of the task; an event that comes in between is not missed.
TakeReady ==
  readiness # "none" /\ readiness' = "taken" /\ UNCHANGED <<edge, waker, woken>>

Register ==
  readiness = "none" /\ waker' = TRUE /\ UNCHANGED <<edge, readiness, woken>>

\* clear_ready of a guard.
ClearReady ==
  /\ readiness' = IF readiness = "taken" THEN "none" ELSE readiness
  /\ UNCHANGED <<edge, waker, woken>>

\* The executor polls the task again: since it was woken, or with another
\* future of the same task.
Resume == woken' = FALSE /\ UNCHANGED <<edge, readiness, waker>>
==============================================================================
