-------------------------- MODULE MCTrafficGenerator --------------------------
\* Instances of TrafficGenerator for TLC.
EXTENDS TrafficGenerator, PacketTemplate

\* Every packet is as long as the buffer.
MCLength == [p \in 0 .. Headers - 1 |-> BufSize]

\* All 2^16 headers by the lane arithmetic and by hand.
ASSUME HeadersByHand ==
  /\ NthPacket(0) = Template
  /\ \A n \in 0 .. \hFFFF :
       NextPacket(NthPacket(n)) = NthPacket((n + 1) % \h10000)
===============================================================================
