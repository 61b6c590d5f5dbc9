------------------------ MODULE FallbackChannelProofs ------------------------
(***************************************************************************)
(* Theorems about FallbackChannel, for every set of threads and every      *)
(* max_size: to all of them together the pair of rings is a FIFO queue.    *)
(***************************************************************************)
EXTENDS FallbackChannel, TLAPS

\* Only the thread that holds the mutex is in a call.
OneInside == \A t \in Threads : pc[t] # "outside" => holder = t

\* A sender about to push has room, and a packet to push.
RoomToPush ==
  \A t \in Threads :
    /\ pc[t] \in {"test", "push"} => arg[t] \in Packets
    /\ pc[t] = "push" => Len(queue) < max_size

ChannelInv == ChannelTypeOK /\ OneInside /\ RoomToPush

LEMMA ChannelInit == Init => ChannelInv
  BY ChannelConstants DEF Init, ChannelInv, ChannelTypeOK, OneInside, RoomToPush

LEMMA ChannelStep == ChannelInv /\ [Next]_vars => ChannelInv'
<1> SUFFICES ASSUME ChannelInv, [Next]_vars PROVE ChannelInv'
  OBVIOUS
<1> USE DEF ChannelInv, ChannelTypeOK, OneInside, RoomToPush
\* A thread that returns leaves the mutex free and nobody inside.
<1>a. ASSUME NEW t \in Threads, pc[t] # "outside",
             NEW r \in Packets \union {NoPacket, "Ok", "WouldBlock"}, Return(t, r),
             queue' \in Seq(Packets), Len(queue') <= max_size
      PROVE  ChannelInv'
  <2>1. \A u \in Threads : pc'[u] = "outside"
    BY <1>a DEF Return, Goto
  <2> QED
    BY <1>a, <2>1, ChannelConstants DEF Return, Goto
<1>1. ASSUME NEW t \in Threads, NEW p \in Packets, Send(t, p) PROVE ChannelInv'
  <2>1. \A u \in Threads : u # t => pc[u] = "outside"
    BY <1>1, ChannelConstants DEF Send, Acquire
  <2> QED
    BY <1>1, <2>1 DEF Send, Acquire, Goto
<1>2. ASSUME NEW t \in Threads, Test(t) PROVE ChannelInv'
  <2>1. CASE Len(queue) >= max_size /\ Return(t, "WouldBlock")
    BY <1>2, <2>1, <1>a DEF Test
  <2>2. CASE Len(queue) < max_size /\ Goto(t, "push") /\ UNCHANGED <<holder, arg, result>>
    BY <1>2, <2>2 DEF Test, Goto
  <2> QED
    BY <1>2, <2>1, <2>2 DEF Test
<1>3. ASSUME NEW t \in Threads, Push(t) PROVE ChannelInv'
  <2>1. queue' \in Seq(Packets) /\ Len(queue') <= max_size
    BY <1>3, ChannelConstants DEF Push
  <2> QED
    BY <1>3, <2>1, <1>a DEF Push
<1>4. ASSUME NEW t \in Threads, Recv(t) PROVE ChannelInv'
  <2>1. \A u \in Threads : u # t => pc[u] = "outside"
    BY <1>4, ChannelConstants DEF Recv, Acquire
  <2> QED
    BY <1>4, <2>1 DEF Recv, Acquire, Goto
<1>5. ASSUME NEW t \in Threads, Pop(t) PROVE ChannelInv'
  <2>1. CASE queue = <<>> /\ Return(t, NoPacket) /\ UNCHANGED queue
    BY <1>5, <2>1, <1>a DEF Pop
  <2>2. CASE queue # <<>> /\ Return(t, Head(queue)) /\ queue' = Tail(queue)
    <3>1. Head(queue) \in Packets /\ queue' \in Seq(Packets) /\ Len(queue') <= max_size
      BY <2>2, ChannelConstants
    <3> QED
      BY <1>5, <2>2, <3>1, <1>a DEF Pop
  <2> QED
    BY <1>5, <2>1, <2>2 DEF Pop
<1>6. CASE UNCHANGED vars
  BY <1>6 DEF vars
<1> QED
  BY <1>1, <1>2, <1>3, <1>4, <1>5, <1>6 DEF Next

LEMMA ChannelInvariant == Spec => []ChannelInv
  BY ChannelInit, ChannelStep, PTL DEF Spec

\* The queue holds packets, no more than max_size of them, and one thread at a
\* time is in a call.
THEOREM ChannelTypeCorrect == Spec => []ChannelTypeOK
<1>1. ChannelInv => ChannelTypeOK
  BY DEF ChannelInv
<1> QED
  BY <1>1, ChannelInvariant, PTL

\* What the threads do to the queue is to enqueue where there is room and to
\* take the oldest packet.
LEMMA ChannelStepIsQueueStep ==
  ASSUME ChannelInv, [Next]_vars
  PROVE  [Queue!Next]_(Queue!vars)
<1> USE DEF ChannelInv, ChannelTypeOK, Queue!vars
<1>1. ASSUME NEW t \in Threads, Push(t) PROVE Queue!Next
  <2>1. arg[t] \in Packets /\ Len(queue) < max_size
    BY <1>1 DEF Push, RoomToPush
  <2>2. Queue!Enqueue(arg[t])
    BY <1>1, <2>1 DEF Push, Queue!Enqueue
  <2> QED
    BY <2>1, <2>2 DEF Queue!Next
<1>2. ASSUME NEW t \in Threads, Pop(t) PROVE [Queue!Next]_(Queue!vars)
  BY <1>2 DEF Pop, Queue!Next, Queue!Transmit
<1>3. ASSUME NEW t \in Threads,
             Test(t) \/ Recv(t) \/ \E p \in Packets : Send(t, p)
      PROVE  UNCHANGED Queue!vars
  BY <1>3 DEF Test, Recv, Send
<1>4. CASE UNCHANGED vars
  BY <1>4 DEF vars
<1> QED
  BY <1>1, <1>2, <1>3, <1>4 DEF Next

\* The connected pair implements the bounded FIFO queue, for any number of
\* threads at either end.
THEOREM ChannelIsQueue == Spec => ImplementsChannel
<1>1. Init => Queue!Init
  BY DEF Init, Queue!Init
<1>2. ChannelInv /\ [Next]_vars => [Queue!Next]_(Queue!vars)
  BY ChannelStepIsQueueStep
<1> QED
  BY <1>1, <1>2, ChannelInvariant, PTL DEF Spec, ImplementsChannel, Queue!Spec
==============================================================================
