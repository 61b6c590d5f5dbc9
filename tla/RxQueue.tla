------------------------------- MODULE RxQueue -------------------------------
(***************************************************************************)
(* What an RX ring promises its caller: a bounded FIFO queue of packets    *)
(* that have arrived, and a list of views, each of which keeps showing the *)
(* packet it was made for until the caller gives it up.                    *)
(*                                                                         *)
(* A packet for which the queue has no room is not accepted; a packet that *)
(* was accepted is delivered once, in the order of arrival, unchanged.     *)
(***************************************************************************)
EXTENDS Naturals, Sequences

CONSTANTS Packets,     \* what a buffer can hold
          Capacity     \* the number of slots the device can have filled

VARIABLES queue,       \* packets that have arrived and were not delivered
          views        \* what the caller sees in the frames it holds

vars == <<queue, views>>

Init == queue = <<>> /\ views = <<>>

Arrive(p) ==
  /\ Len(queue) < Capacity
  /\ queue' = Append(queue, p)
  /\ UNCHANGED views

\* Give up all views but the oldest k and take the next n packets.
Deliver(k, n) ==
  /\ views' = SubSeq(views, 1, k) \o SubSeq(queue, 1, n)
  /\ queue' = SubSeq(queue, n + 1, Len(queue))

Next ==
  \/ \E p \in Packets : Arrive(p)
  \/ \E k \in 0 .. Len(views), n \in 0 .. Len(queue) : Deliver(k, n)

Spec == Init /\ [][Next]_vars
=============================================================================
