--------------------------- MODULE FallbackChannel ---------------------------
(***************************************************************************)
(* The connected pair of rings that create_fallback_channel of             *)
(* src/fallback.rs makes, used by several threads: both ends take &self,   *)
(* and share one VecDeque behind one mutex.                                *)
(*                                                                         *)
(* Definitions marked "Mutant" are used as in module TxRing.               *)
(***************************************************************************)
EXTENDS Naturals, Sequences

CONSTANTS
  Threads,
  Packets,
  NoPacket,    \* what recv returns when the queue is empty
  NoThread,    \* the holder of a mutex that is free
  max_size     \* SharedRing.max_size

ASSUME ChannelConstants ==
  /\ NoPacket \notin Packets
  /\ NoThread \notin Threads
  /\ max_size \in Nat

VARIABLES
  queue,    \* the VecDeque
  holder,   \* the thread that holds the mutex
  pc,       \* where each thread is: outside, or in send or recv with the mutex
  arg,      \* the packet that each thread sends
  result    \* what the last call of each thread returned

vars == <<queue, holder, pc, arg, result>>

ChannelTypeOK ==
  /\ queue \in Seq(Packets) /\ Len(queue) <= max_size
  /\ holder \in Threads \union {NoThread}
  /\ pc \in [Threads -> {"outside", "test", "push", "pop"}]
  /\ arg \in [Threads -> Packets \union {NoPacket}]
  /\ result \in [Threads -> Packets \union {NoPacket, "Ok", "WouldBlock"}]

\* create_fallback_channel.
Init ==
  /\ queue = <<>>
  /\ holder = NoThread
  /\ pc = [t \in Threads |-> "outside"]
  /\ arg = [t \in Threads |-> NoPacket]
  /\ result = [t \in Threads |-> NoPacket]

\* Mutant: a lock that several threads can hold.
AcquireShared(t) == pc[t] = "outside" /\ holder' = t

\* queue.lock(): a thread that calls waits until the mutex is free.
Acquire(t) == pc[t] = "outside" /\ holder = NoThread /\ holder' = t

\* The thread does step s next.
Goto(t, s) == pc' = [pc EXCEPT ![t] = s]

\* The call returns r, and its guard is dropped.
Return(t, r) ==
  /\ result' = [result EXCEPT ![t] = r]
  /\ arg' = [arg EXCEPT ![t] = NoPacket]
  /\ Goto(t, "outside")
  /\ holder' = NoThread

Send(t, p) ==
  /\ Acquire(t) /\ Goto(t, "test")
  /\ arg' = [arg EXCEPT ![t] = p]
  /\ UNCHANGED <<queue, result>>

\* Mutant: one packet more than max_size is let in.
TestOffByOne(t) ==
  /\ pc[t] = "test"
  /\ UNCHANGED queue
  /\ \/ Len(queue) > max_size /\ Return(t, "WouldBlock")
     \/ Len(queue) <= max_size /\ Goto(t, "push") /\ UNCHANGED <<holder, arg, result>>

Test(t) ==
  /\ pc[t] = "test"
  /\ UNCHANGED queue
  /\ \/ Len(queue) >= max_size /\ Return(t, "WouldBlock")
     \/ Len(queue) < max_size /\ Goto(t, "push") /\ UNCHANGED <<holder, arg, result>>

Push(t) ==
  /\ pc[t] = "push"
  /\ queue' = Append(queue, arg[t])
  /\ Return(t, "Ok")

Recv(t) == Acquire(t) /\ Goto(t, "pop") /\ UNCHANGED <<queue, arg, result>>

Pop(t) ==
  /\ pc[t] = "pop"
  /\ \/ queue = <<>> /\ Return(t, NoPacket) /\ UNCHANGED queue
     \/ queue # <<>> /\ Return(t, Head(queue)) /\ queue' = Tail(queue)

Next ==
  \E t \in Threads :
    \/ \E p \in Packets : Send(t, p)
    \/ Test(t) \/ Push(t) \/ Recv(t) \/ Pop(t)

Spec == Init /\ [][Next]_vars

-------------------------------------------------------------------------------
(* Properties.                                                             *)

Queue == INSTANCE TxQueue WITH
  Frames   <- Packets,
  Capacity <- max_size,
  staged   <- <<>>

\* The pair is a FIFO queue of at most max_size packets to all of its threads:
\* no sender comes between the test of another and its push.
ImplementsChannel == Queue!Spec
==============================================================================
