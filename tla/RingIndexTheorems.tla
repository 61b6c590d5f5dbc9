-------------------------- MODULE RingIndexTheorems --------------------------
(***************************************************************************)
(* Facts about the index arithmetic of RingIndex, for every ring size.     *)
(***************************************************************************)
EXTENDS RingIndex, SequenceTheorems, TLAPS

\* The remainder of src/ring.rs never has to take off more than one turn: the
\* indices it is applied to lie within two turns of the ring.
LEMMA WrapOneTurn ==
  \A i \in 0 .. 2 * NumSlots - 1 :
    Wrap(i) = IF i < NumSlots THEN i ELSE i - NumSlots
  BY NumSlotsAssumption DEF Wrap

\* Every index the code computes is the index of a slot.
LEMMA IndexInSlots ==
  /\ \A i \in Slots : NextIndex(i) \in Slots
  /\ \A i \in Slots, n \in 0 .. NumSlots : Wrap(i + n) \in Slots
  BY WrapOneTurn, NumSlotsAssumption DEF NextIndex, Wrap, Slots

\* The index one slot back, as the kernel computes it at a sync.
LEMMA WrapBack ==
  \A i \in Slots :
    Wrap(i + NumSlots - 1) = IF i = 0 THEN NumSlots - 1 ELSE i - 1
  BY WrapOneTurn, NumSlotsAssumption DEF Slots

\* The comparison of send and recv and the remainder of commit and recv_batch
\* name the same successor.
THEOREM NextIsWrap == \A i \in Slots : NextIndex(i) = Wrap(i + 1)
  BY WrapOneTurn, NumSlotsAssumption DEF NextIndex, Slots

\* The distance between two slots is less than a turn.
LEMMA SpaceType == \A i, j \in Slots : Space(i, j) \in 0 .. NumSlots - 1
  BY NumSlotsAssumption DEF Space, Slots

\* Going n slots on from i and measuring the way gives n.
LEMMA SpaceOfWrap ==
  \A i \in Slots, n \in 0 .. NumSlots - 1 : Space(i, Wrap(i + n)) = n
  BY WrapOneTurn, NumSlotsAssumption DEF Space, Slots

\* Measuring the way from i to j and going it leads to j.
LEMMA WrapOfSpace == \A i, j \in Slots : Wrap(i + Space(i, j)) = j
  BY WrapOneTurn, NumSlotsAssumption DEF Space, Slots

\* Two distances that together make less than a turn add up.
LEMMA SpaceAdds ==
  \A i, j, k \in Slots :
    Space(i, j) + Space(j, k) < NumSlots => Space(i, k) = Space(i, j) + Space(j, k)
  BY NumSlotsAssumption DEF Space, Slots

\* Going n slots on from i towards j, and not past it, leaves n slots less.
LEMMA SpaceAfterWrap ==
  \A i, j \in Slots : \A n \in 0 .. Space(i, j) :
    Space(Wrap(i + n), j) = Space(i, j) - n
  BY WrapOneTurn, NumSlotsAssumption DEF Space, Slots

\* One slot on from i towards another slot j leaves one slot less.
LEMMA SpaceAfterNext ==
  \A i, j \in Slots :
    i # j => Space(NextIndex(i), j) = Space(i, j) - 1 /\ Space(i, NextIndex(i)) < NumSlots
  BY NumSlotsAssumption DEF Space, Slots, NextIndex

\* The slots from i to j leave one free besides the one that is never used if
\* the slot after j is not i.
LEMMA SpaceForOne ==
  \A i, j \in Slots : NextIndex(j) # i => Space(i, j) < NumSlots - 1
  BY NumSlotsAssumption DEF Space, Slots, NextIndex

\* From any slot j round to the slot before i is what is left of the ring when
\* the way from i to j and one slot are taken off.
LEMMA SpaceRound ==
  \A i, j \in Slots :
    Space(j, Wrap(i + NumSlots - 1)) = NumSlots - 1 - Space(i, j)
  BY WrapBack, NumSlotsAssumption DEF Space, Slots

\* reserve_batch's free slots against those of reserve_all (ring.rs:158-159,
\* 184-188): one too few as long as the ring has a free slot, and all but one
\* slot of the ring when it has none.
THEOREM BatchSpaceOffByOne ==
  \A head, tail \in Slots :
    BatchSpace(head, tail) =
      IF head = tail THEN NumSlots - 1 ELSE Space(head, tail) - 1
<1> SUFFICES ASSUME NEW head \in Slots, NEW tail \in Slots
             PROVE  BatchSpace(head, tail) =
                      IF head = tail THEN NumSlots - 1 ELSE Space(head, tail) - 1
  OBVIOUS
<1>1. head - tail + NumSlots \in 0 .. 2 * NumSlots - 1
  BY NumSlotsAssumption DEF Slots
<1>2. (head - tail + NumSlots) % NumSlots =
        IF head < tail THEN head - tail + NumSlots ELSE head - tail
  BY <1>1, WrapOneTurn, NumSlotsAssumption DEF Wrap, Slots
<1> QED
  BY <1>2, NumSlotsAssumption DEF BatchSpace, Space, Slots

(***************************************************************************)
(* Consecutive slots.                                                      *)
(***************************************************************************)

\* What s holds in n slots from slot i on, oldest first.
Run(s, i, n) == [k \in 1 .. n |-> s[Wrap(i + k - 1)]]

LEMMA RunElements ==
  \A s, i : \A n \in Nat :
    Len(Run(s, i, n)) = n /\ \A k \in 1 .. n : Run(s, i, n)[k] = s[Wrap(i + k - 1)]
  BY DEF Run

LEMMA RunType ==
  \A S : \A s \in [Slots -> S], i \in Slots, n \in 0 .. NumSlots :
    Run(s, i, n) \in Seq(S) /\ Run(s, i, n) \in [1 .. n -> S]
<1> SUFFICES ASSUME NEW S, NEW s \in [Slots -> S], NEW i \in Slots,
                    NEW n \in 0 .. NumSlots
             PROVE  Run(s, i, n) \in Seq(S) /\ Run(s, i, n) \in [1 .. n -> S]
  OBVIOUS
<1>1. ASSUME NEW k \in 1 .. n PROVE Wrap(i + k - 1) \in Slots
  <2>1. k - 1 \in 0 .. NumSlots /\ i + k - 1 = i + (k - 1)
    BY NumSlotsAssumption DEF Slots
  <2> QED
    BY <2>1, IndexInSlots
<1>2. Run(s, i, n) \in [1 .. n -> S]
  BY <1>1 DEF Run
<1> QED
  BY <1>2, SeqDef, NumSlotsAssumption

\* A sequence that holds the same is the run.
LEMMA RunEqual ==
  ASSUME NEW S, NEW s \in [Slots -> S], NEW i \in Slots, NEW n \in 0 .. NumSlots,
         NEW t \in Seq(S), Len(t) = n,
         \A k \in 1 .. n : t[k] = s[Wrap(i + k - 1)]
  PROVE  Run(s, i, n) = t
<1>1. n \in Nat
  BY NumSlotsAssumption
<1>2. /\ Run(s, i, n) \in Seq(S) /\ Len(Run(s, i, n)) = n
      /\ \A k \in 1 .. n : Run(s, i, n)[k] = s[Wrap(i + k - 1)]
  BY <1>1, RunElements, RunType
<1> QED
  BY <1>2, SeqEqual

\* The run of no slots.
LEMMA RunOfNone == \A s, i : Run(s, i, 0) = <<>>
  BY DEF Run

\* One slot more.
LEMMA RunAppend ==
  ASSUME NEW S, NEW s \in [Slots -> S], NEW i \in Slots,
         NEW n \in 0 .. NumSlots - 1
  PROVE  Run(s, i, n + 1) = Append(Run(s, i, n), s[Wrap(i + n)])
<1> DEFINE t == Append(Run(s, i, n), s[Wrap(i + n)])
<1>1. n \in Nat /\ n \in 0 .. NumSlots /\ n + 1 \in 0 .. NumSlots
  BY NumSlotsAssumption
<1>2. Wrap(i + n) \in Slots
  BY <1>1, IndexInSlots
<1>3. /\ Run(s, i, n) \in Seq(S) /\ Len(Run(s, i, n)) = n
      /\ \A k \in 1 .. n : Run(s, i, n)[k] = s[Wrap(i + k - 1)]
  BY <1>1, RunElements, RunType
<1>4. /\ t \in Seq(S) /\ Len(t) = n + 1
      /\ \A k \in 1 .. n : t[k] = Run(s, i, n)[k]
      /\ t[n + 1] = s[Wrap(i + n)]
  BY <1>2, <1>3, AppendProperties
<1> HIDE DEF t
<1>5. ASSUME NEW k \in 1 .. n + 1 PROVE t[k] = s[Wrap(i + k - 1)]
  <2>1. CASE k \in 1 .. n
    BY <1>3, <1>4, <2>1
  <2>2. CASE k = n + 1
    <3>1. k - 1 = n
      BY <1>1, <2>2
    <3> QED
      BY <1>4, <2>2, <3>1
  <2> QED
    BY <1>1, <2>1, <2>2
<1> QED
  BY <1>1, <1>4, <1>5, RunEqual DEF t

\* One slot less.
LEMMA RunTail ==
  ASSUME NEW S, NEW s \in [Slots -> S], NEW i \in Slots, NEW n \in 1 .. NumSlots
  PROVE  Run(s, i, n) # <<>> /\ Run(s, NextIndex(i), n - 1) = Tail(Run(s, i, n))
<1> DEFINE t == Run(s, i, n)
<1>1. n \in Nat /\ n \in 0 .. NumSlots /\ n - 1 \in 0 .. NumSlots /\ NextIndex(i) \in Slots
  BY IndexInSlots, NumSlotsAssumption
<1>2. /\ t \in Seq(S) /\ Len(t) = n
      /\ \A k \in 1 .. n : t[k] = s[Wrap(i + k - 1)]
  BY <1>1, RunElements, RunType
<1> HIDE DEF t
<1>e. t # <<>>
  BY <1>2, EmptySeq
<1>3. /\ Tail(t) \in Seq(S) /\ Len(Tail(t)) = n - 1
      /\ \A k \in 1 .. n - 1 : Tail(t)[k] = t[k + 1]
  BY <1>2, <1>e, HeadTailProperties
<1>4. ASSUME NEW k \in 1 .. n - 1
      PROVE  Tail(t)[k] = s[Wrap(NextIndex(i) + k - 1)]
  <2>1. k + 1 \in 1 .. n /\ k + 1 - 1 = k
    BY NumSlotsAssumption
  <2>2. t[k + 1] = s[Wrap(i + k)]
    BY <1>2, <2>1
  <2>3. Wrap(NextIndex(i) + k - 1) = Wrap(i + k)
    BY WrapOneTurn, NumSlotsAssumption DEF NextIndex, Slots
  <2> QED
    BY <1>3, <2>2, <2>3
<1> QED
  BY <1>1, <1>3, <1>4, <1>e, RunEqual DEF t

\* The first n slots of a run.
LEMMA RunPrefix ==
  ASSUME NEW S, NEW s \in [Slots -> S], NEW i \in Slots, NEW m \in 0 .. NumSlots,
         NEW n \in 0 .. m
  PROVE  Run(s, i, n) = SubSeq(Run(s, i, m), 1, n)
<1> DEFINE t == SubSeq(Run(s, i, m), 1, n)
<1>1. n \in 0 .. NumSlots /\ m \in Nat
  BY NumSlotsAssumption
<1>2. /\ Run(s, i, m) \in [1 .. m -> S]
      /\ \A k \in 1 .. m : Run(s, i, m)[k] = s[Wrap(i + k - 1)]
  BY <1>1, RunElements, RunType
<1>3. /\ t \in Seq(S) /\ Len(t) = n
      /\ \A k \in 1 .. n : t[k] = Run(s, i, m)[k]
  BY <1>1, <1>2, SubSeqProperties
<1>4. \A k \in 1 .. n : t[k] = s[Wrap(i + k - 1)]
  BY <1>1, <1>2, <1>3
<1> HIDE DEF t
<1> QED
  BY <1>1, <1>3, <1>4, RunEqual DEF t

\* What is left of a run from slot j of it on.
LEMMA RunSuffix ==
  ASSUME NEW S, NEW s \in [Slots -> S], NEW i \in Slots, NEW j \in Slots,
         NEW m \in 0 .. NumSlots, Space(i, j) <= m
  PROVE  Run(s, j, m - Space(i, j)) = SubSeq(Run(s, i, m), Space(i, j) + 1, m)
<1> DEFINE d == Space(i, j)
           t == SubSeq(Run(s, i, m), d + 1, m)
<1>1. /\ m - d \in 0 .. NumSlots /\ d \in 0 .. m /\ m \in Nat /\ Wrap(i + d) = j
  BY SpaceType, WrapOfSpace, NumSlotsAssumption
<1> HIDE DEF d
<1>2. /\ Run(s, i, m) \in [1 .. m -> S]
      /\ \A k \in 1 .. m : Run(s, i, m)[k] = s[Wrap(i + k - 1)]
  <2>1. Run(s, i, m) \in [1 .. m -> S]
    BY RunType
  <2> QED
    BY <2>1 DEF Run
<1>3. /\ t \in Seq(S) /\ Len(t) = m - d
      /\ \A k \in 1 .. m - d : t[k] = Run(s, i, m)[d + k]
  <2>1. \A k \in d + 1 .. m : Run(s, i, m)[k] \in S
    BY <1>1, <1>2
  <2>2. /\ t \in Seq(S) /\ Len(t) = IF d + 1 <= m THEN m - (d + 1) + 1 ELSE 0
        /\ \A k \in 1 .. m - (d + 1) + 1 : t[k] = Run(s, i, m)[d + 1 + k - 1]
    BY <1>1, <2>1, SubSeqProperties
  <2>3. m - (d + 1) + 1 = m - d /\ \A k \in 1 .. m - d : d + 1 + k - 1 = d + k
    BY <1>1
  <2> QED
    BY <1>1, <2>2, <2>3
<1> HIDE DEF t
<1>4. ASSUME NEW k \in 1 .. m - d PROVE t[k] = s[Wrap(j + k - 1)]
  <2>1. d + k \in 1 .. m /\ t[k] = s[Wrap(i + (d + k) - 1)]
    BY <1>1, <1>2, <1>3
  <2>2. Wrap(i + (d + k) - 1) = Wrap(j + k - 1)
    BY <1>1, WrapOneTurn, NumSlotsAssumption DEF Slots
  <2> QED
    BY <2>1, <2>2
<1> QED
  BY <1>1, <1>3, <1>4, RunEqual DEF t, d

\* A run up to slot j and the run from there on.
LEMMA RunConcat ==
  ASSUME NEW S, NEW s \in [Slots -> S], NEW i \in Slots, NEW j \in Slots,
         NEW n \in 0 .. NumSlots, Space(i, j) + n <= NumSlots
  PROVE  Run(s, i, Space(i, j) + n) = Run(s, i, Space(i, j)) \o Run(s, j, n)
<1> DEFINE m == Space(i, j)
           a == Run(s, i, m)
           b == Run(s, j, n)
<1>1. /\ m + n \in 0 .. NumSlots /\ m \in 0 .. NumSlots /\ Wrap(i + m) = j
      /\ m \in Nat /\ n \in Nat
  BY SpaceType, WrapOfSpace, NumSlotsAssumption
<1> HIDE DEF m
<1>2. a \in Seq(S) /\ Len(a) = m /\ \A k \in 1 .. m : a[k] = s[Wrap(i + k - 1)]
  BY <1>1, RunElements, RunType
<1>3. b \in Seq(S) /\ Len(b) = n /\ \A k \in 1 .. n : b[k] = s[Wrap(j + k - 1)]
  BY <1>1, RunElements, RunType
<1> HIDE DEF a, b
<1>4. /\ a \o b \in Seq(S) /\ Len(a \o b) = m + n
      /\ \A k \in 1 .. m + n : (a \o b)[k] = IF k <= m THEN a[k] ELSE b[k - m]
  BY <1>2, <1>3, ConcatProperties
<1>5. ASSUME NEW k \in 1 .. m + n PROVE (a \o b)[k] = s[Wrap(i + k - 1)]
  <2>1. CASE k <= m
    BY <1>1, <1>2, <1>4, <2>1
  <2>2. CASE ~ (k <= m)
    <3>1. k - m \in 1 .. n
      BY <1>1, <2>2
    <3>2. Wrap(j + (k - m) - 1) = Wrap(i + k - 1)
      BY <1>1, <3>1, WrapOneTurn, NumSlotsAssumption DEF Slots
    <3> QED
      BY <1>3, <1>4, <2>2, <3>1, <3>2
  <2> QED
    BY <1>1, <2>1, <2>2
<1> QED
  BY <1>1, <1>4, <1>5, RunEqual DEF a, b, m

\* A store to slot x turns what the slots hold from s into t.
Stores(x, s, t) == \A h \in Slots : h # x => t[h] = s[h]

\* The place of slot x in a run from slot i on.
LEMMA RunPlace ==
  \A i, x \in Slots : \A k \in 1 .. NumSlots :
    Wrap(i + k - 1) \in Slots /\ (Wrap(i + k - 1) = x <=> k = Space(i, x) + 1)
<1> SUFFICES ASSUME NEW i \in Slots, NEW x \in Slots, NEW k \in 1 .. NumSlots
             PROVE  /\ Wrap(i + k - 1) \in Slots
                    /\ Wrap(i + k - 1) = x <=> k = Space(i, x) + 1
  OBVIOUS
<1>1. k - 1 \in 0 .. NumSlots - 1 /\ i + k - 1 = i + (k - 1)
  BY NumSlotsAssumption DEF Slots
<1>2. Wrap(i + k - 1) \in Slots
  BY <1>1, IndexInSlots, NumSlotsAssumption
<1>3. Wrap(i + k - 1) = x <=> k = Space(i, x) + 1
  BY <1>1, SpaceOfWrap, SpaceType, WrapOfSpace
<1> QED
  BY <1>2, <1>3

\* A store to slot x is not seen in a run that ends before x.
LEMMA RunBeforeStore ==
  \A s, t : \A i, x \in Slots : \A n \in 0 .. Space(i, x) :
    Stores(x, s, t) => Run(t, i, n) = Run(s, i, n)
<1> SUFFICES ASSUME NEW s, NEW t, NEW i \in Slots, NEW x \in Slots,
                    NEW n \in 0 .. Space(i, x), Stores(x, s, t)
             PROVE  Run(t, i, n) = Run(s, i, n)
  OBVIOUS
<1>1. ASSUME NEW k \in 1 .. n PROVE t[Wrap(i + k - 1)] = s[Wrap(i + k - 1)]
  <2>1. k \in 1 .. NumSlots /\ k # Space(i, x) + 1
    BY SpaceType, NumSlotsAssumption
  <2> QED
    BY <2>1, RunPlace DEF Stores
<1> QED
  BY <1>1 DEF Run
=============================================================================
