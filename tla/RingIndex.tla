------------------------------ MODULE RingIndex ------------------------------
(***************************************************************************)
(* The circular index arithmetic of src/ring.rs.  A netmap ring has        *)
(* NumSlots slots and its head, cur and tail are indices of slots.  The    *)
(* code computes the same three ideas in several notations: the successor  *)
(* of an index, the index a number of slots further on, and the number of  *)
(* slots from one index to another.                                        *)
(*                                                                         *)
(* The code's indices are u32.  Every sum and difference below stays       *)
(* between -NumSlots and 2 * NumSlots, so that wrapping_sub followed by    *)
(* wrapping_add (ring.rs:158) is plain integer arithmetic here.            *)
(***************************************************************************)
EXTENDS Integers

CONSTANT NumSlots        \* netmap_ring.num_slots

ASSUME NumSlotsAssumption == NumSlots \in Nat \ {0}

Slots == 0 .. NumSlots - 1

\* Mutant: the successor does not wrap at the last slot.
NextIndexNoWrap(i) == IF i + 1 > NumSlots THEN 0 ELSE i + 1

\* The successor that send and recv compute with a comparison.
NextIndex(i) == IF i + 1 >= NumSlots THEN 0 ELSE i + 1

\* The index i slots after slot 0, that packet, commit and recv_batch compute
\* with a remainder.
Wrap(i) == i % NumSlots

\* The number of slots in from, from + 1, ..., to - 1: what reserve_all calls
\* the available slots of a TX ring and recv_batch those of an RX ring.
Space(from, to) == IF to >= from THEN to - from ELSE to + NumSlots - from

\* reserve_batch's own idea of the available slots of a TX ring.
BatchSpace(head, tail) ==
  LET used == (head - tail + NumSlots) % NumSlots
  IN  IF used <= NumSlots - 1 THEN NumSlots - 1 - used ELSE 0
=============================================================================
