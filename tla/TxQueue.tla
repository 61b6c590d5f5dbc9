------------------------------- MODULE TxQueue -------------------------------
(***************************************************************************)
(* What a TX ring promises its caller: a bounded FIFO queue of frames, with *)
(* a staging area in which a batch is prepared out of the device's sight   *)
(* and from which a prefix of the batch is released at once.               *)
(*                                                                         *)
(* Nothing that was enqueued is lost, changed, repeated or reordered       *)
(* before the device transmits it, and nothing is transmitted that was not *)
(* enqueued.                                                               *)
(***************************************************************************)
EXTENDS Naturals, Sequences

CONSTANTS Frames,      \* what one slot of the ring can hold
          Capacity     \* the number of frames that can be in flight

VARIABLES queue,       \* frames given to the device and not yet transmitted
          staged       \* frames of the batch being prepared

vars == <<queue, staged>>

\* The sequences of frames that fit in the ring.
BoundedSeqs == UNION {[1 .. n -> Frames] : n \in 0 .. Capacity}

TypeOK == queue \in BoundedSeqs /\ staged \in BoundedSeqs

Init == queue = <<>> /\ staged = <<>>

\* Put one frame in the queue; no batch is being prepared.
Enqueue(f) ==
  /\ staged = <<>>
  /\ Len(queue) < Capacity
  /\ queue' = Append(queue, f)
  /\ UNCHANGED staged

\* Begin a batch for which the queue has room. Its frames hold anything yet.
Reserve ==
  /\ staged = <<>>
  /\ staged' \in BoundedSeqs
  /\ Len(queue) + Len(staged') <= Capacity
  /\ UNCHANGED queue

\* Write one frame of the batch.
Fill(i, f) ==
  /\ staged' = [staged EXCEPT ![i] = f]
  /\ UNCHANGED queue

\* Move the first n frames of the batch to the queue and give up the others.
Release(n) ==
  /\ queue' = queue \o SubSeq(staged, 1, n)
  /\ staged' = <<>>

\* The device transmits the oldest frame.
Transmit ==
  /\ queue # <<>>
  /\ queue' = Tail(queue)
  /\ UNCHANGED staged

Next ==
  \/ \E f \in Frames : Enqueue(f)
  \/ Reserve
  \/ \E i \in DOMAIN staged, f \in Frames : Fill(i, f)
  \/ \E n \in 0 .. Len(staged) : Release(n)
  \/ Transmit

Spec == Init /\ [][Next]_vars
=============================================================================
