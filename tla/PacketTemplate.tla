---------------------------- MODULE PacketTemplate ----------------------------
(***************************************************************************)
(* The header that src/main.rs keeps in a 512-bit register and changes by  *)
(* lane arithmetic from one packet to the next: ten of the sixteen 32-bit  *)
(* lanes hold the Ethernet, IP and UDP header, the others stay 0.          *)
(*                                                                         *)
(* A lane is the pair of its 16-bit halves, in which the header's fields   *)
(* lie: lane 6 holds the IP checksum below and the first half of the       *)
(* source address above, lane 8 the end of the destination address below   *)
(* and the UDP source port above, lane 9 the destination port below and    *)
(* the UDP length above.                                                   *)
(***************************************************************************)
EXTENDS Integers

Lanes == 0 .. 9

Lane(hi, lo) == [hi |-> hi, lo |-> lo]
Zero == Lane(0, 0)

\* Addition and subtraction modulo 2^32, with the carry from half to half.
Plus(a, b) ==
  LET lo == a.lo + b.lo
  IN  Lane((a.hi + b.hi + lo \div \h10000) % \h10000, lo % \h10000)

Minus(a, b) == Plus(Plus(a, Lane(\hFFFF - b.hi, \hFFFF - b.lo)), Lane(0, 1))

\* The lanes l and their values at l, and zeros.
Vector(f) == [l \in Lanes |-> IF l \in DOMAIN f THEN f[l] ELSE Zero]

Template ==
  [l \in Lanes |->
    CASE l = 0 -> Lane(\hDDCC, \hBBAA)
      [] l = 1 -> Lane(\h2211, \hFFEE)
      [] l = 2 -> Lane(\h6655, \h4433)
      [] l = 3 -> Lane(\h4500, \h0800)
      [] l = 4 -> Lane(\h0001, \h002E)
      [] l = 5 -> Lane(\h4011, \h4000)
      [] l = 6 -> Lane(\hC0A8, \h0005)
      [] l = 7 -> Lane(\hC0A8, \h0101)
      [] l = 8 -> Lane(\h0050, \h010A)
      [] l = 9 -> Lane(\h001A, \h1F90)]

Increment  == Vector([l \in {8, 9} |-> Lane(0, 1)])
Decrement  == Vector([l \in {6} |-> Lane(1, 0)])
Trigger    == Vector([l \in {6} |-> Lane(0, \hC0A8)])
Correction == Vector([l \in {6} |-> Lane(1, 0)])

\* The lanes whose bits are set in blend_mask, 0xD0.
BlendMask == {4, 6, 7}

\* From one packet to the next: add, subtract, correct where the result meets
\* the trigger, and take from it the lanes of the mask only.
NextPacket(p) ==
  LET sum      == [l \in Lanes |-> Minus(Plus(p[l], Increment[l]), Decrement[l])]
      adjusted == [l \in Lanes |-> IF sum[l] = Trigger[l]
                                     THEN Minus(sum[l], Correction[l])
                                     ELSE sum[l]]
  IN  [l \in Lanes |-> IF l \in BlendMask THEN adjusted[l] ELSE Template[l]]

(***************************************************************************)
(* The n-th packet after the template, by hand: the template with n taken  *)
(* from the upper half of lane 6, which holds the first half of the source *)
(* address, and nothing else.                                              *)
(***************************************************************************)
NthPacket(n) ==
  [Template EXCEPT ![6] = Lane((\hC0A8 - n) % \h10000, \h0005)]
===============================================================================
