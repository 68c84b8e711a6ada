-------------------------- MODULE SrtpIndexProofs ---------------------------
(***************************************************************************)
(* Facts about the packet-index arithmetic and the replay-window update   *)
(* of SrtpIndex, used by the proofs about streams and sessions.           *)
(***************************************************************************)
EXTENDS SrtpIndex, TLAPS

USE SeqSpaceAssumption, RocSpaceAssumption

-----------------------------------------------------------------------------
(* Index arithmetic. *)

\* Multiplying by a natural number is monotone.
LEMMA MulMonotone ==
    ASSUME NEW a \in Int, NEW b \in Int, NEW c \in Nat, a <= b
    PROVE  a * c <= b * c
BY SMT

\* Building an index from a ROC value and a sequence number stays in the
\* 48-bit index space.
LEMMA IndexInRange ==
    ASSUME NEW r \in 0 .. (RocSpace - 1), NEW q \in 0 .. (SeqSpace - 1)
    PROVE  r * SeqSpace + q \in Indices
<1>1. r * SeqSpace <= (RocSpace - 1) * SeqSpace
  BY MulMonotone
<1>2. QED
  BY <1>1, SMT DEF Indices

\* Index 0, where every stream starts, is an index.
LEMMA ZeroIndex == 0 \in Indices
<1>1. 1 * SeqSpace <= RocSpace * SeqSpace
  BY MulMonotone
<1>2. QED
  BY <1>1, SMT DEF Indices

\* The ROC and the sequence number of an index are in their ranges.
LEMMA RocSeqInRange ==
    ASSUME NEW i \in Indices
    PROVE  /\ RocOf(i) \in 0 .. (RocSpace - 1)
           /\ SeqOf(i) \in 0 .. (SeqSpace - 1)
<1>1. SeqOf(i) \in 0 .. (SeqSpace - 1)
  BY SMT DEF SeqOf, Indices
<1>2. RocOf(i) \in Nat
  BY SMT DEF RocOf, Indices
<1>3. RocOf(i) * SeqSpace <= i
  BY SMT DEF RocOf, Indices
<1>4. RocOf(i) < RocSpace
  <2>1. SUFFICES ASSUME RocOf(i) >= RocSpace PROVE FALSE
    BY <1>2, SMT
  <2>2. RocSpace * SeqSpace <= RocOf(i) * SeqSpace
    BY <2>1, <1>2, MulMonotone
  <2>3. i <= SeqSpace * RocSpace - 1
    BY SMT DEF Indices
  <2>4. RocSpace * SeqSpace = SeqSpace * RocSpace
    BY SMT
  <2>5. QED
    BY <2>2, <2>3, <2>4, <1>3, <1>2, SMT DEF Indices
<1>5. QED
  BY <1>1, <1>2, <1>4, SMT

\* The sequence numbers are indices (those of ROC 0).
LEMMA SeqInIndices ==
    ASSUME NEW q \in 0 .. (SeqSpace - 1)
    PROVE  q \in Indices
<1>1. 0 * SeqSpace + q \in Indices
  BY IndexInRange
<1>2. QED
  BY <1>1, SMT

\* The estimated index is an index.
LEMMA EstimateInIndices ==
    ASSUME NEW h \in Indices, NEW q \in 0 .. (SeqSpace - 1)
    PROVE  EstimateIndex(h, q) \in Indices
<1>1. RocOf(h) \in 0 .. (RocSpace - 1)
  BY RocSeqInRange
<1>2. (RocOf(h) + 1) % RocSpace \in 0 .. (RocSpace - 1)
  BY <1>1, SMT
<1>3. RocOf(h) * SeqSpace + q \in Indices
  BY <1>1, IndexInRange
<1>4. ((RocOf(h) + 1) % RocSpace) * SeqSpace + q \in Indices
  BY <1>2, IndexInRange
<1>5. QED
  BY <1>3, <1>4 DEF EstimateIndex

\* The replay-window update keeps the high-water mark and the bitmap in
\* the index space.
LEMMA ReplayUpdateTyped ==
    ASSUME NEW h \in Indices, NEW S \in SUBSET Indices, NEW i \in Indices
    PROVE  /\ ReplayHigh(h, i) \in Indices
           /\ ReplaySeen(h, S, i) \in SUBSET Indices
BY DEF ReplayHigh, ReplaySeen

\* Both candidates of the estimate carry the packet's sequence number: the
\* estimated index is congruent to it modulo the sequence space.
LEMMA EstimateResidue ==
    ASSUME NEW h \in Indices, NEW q \in 0 .. (SeqSpace - 1)
    PROVE  EstimateIndex(h, q) % SeqSpace = q
<1>1. ASSUME NEW r \in Nat PROVE (r * SeqSpace + q) % SeqSpace = q
  BY SMT
<1>2. RocOf(h) \in Nat /\ (RocOf(h) + 1) % RocSpace \in Nat
  BY RocSeqInRange, SMT
<1>3. QED
  BY <1>1, <1>2 DEF EstimateIndex

\* Two indices with the same sequence number, both within the skew bound
\* of one high-water mark, are the same index: the bound is half the
\* sequence space, so they are less than a whole sequence space apart.
LEMMA ResidueClose ==
    ASSUME NEW h \in Int, NEW i \in Int, NEW t \in Int,
           i % SeqSpace = t % SeqSpace, InRange(h, i), InRange(h, t)
    PROVE  i = t
<1> DEFINE k == i \div SeqSpace - t \div SeqSpace
<1>1. i - t = k * SeqSpace
  BY SMT
<1>2. i - t < SeqSpace /\ t - i < SeqSpace
  BY SMT DEF InRange, Dist, Half
<1>3. k \in Int
  BY SMT
<1>4. CASE k >= 1
  <2>1. 1 * SeqSpace <= k * SeqSpace
    BY <1>3, <1>4, MulMonotone
  <2>2. QED
    BY <1>1, <1>2, <2>1, SMT
<1>5. CASE k <= -1
  <2>1. k * SeqSpace <= (-1) * SeqSpace
    BY <1>3, <1>5, MulMonotone
  <2>2. QED
    BY <1>1, <1>2, <2>1, SMT
<1>6. QED
  BY <1>1, <1>3, <1>4, <1>5, SMT

-----------------------------------------------------------------------------
(* The replay window. *)

\* The window is at least one index wide.
LEMMA WindowPositive == WindowSize \in Nat /\ WindowSize >= 1
BY SMT DEF WindowSize, Half

\* Updating the window with i forgets nothing it must remember: an index
\* that was marked, or already too old, or i itself, is afterwards marked
\* or too old.
LEMMA WindowUpdateRemembers ==
    ASSUME NEW h \in Indices, NEW S \in SUBSET Indices, NEW i \in Indices,
           NEW j \in Indices,
           j \in S \/ j <= h - WindowSize \/ j = i
    PROVE  j \in ReplaySeen(h, S, i) \/ j <= ReplayHigh(h, i) - WindowSize
<1>1. CASE i > h
  BY <1>1, WindowPositive, SMT DEF ReplaySeen, ReplayHigh, Indices
<1>2. CASE ~(i > h)
  BY <1>2 DEF ReplaySeen, ReplayHigh
<1>3. QED
  BY <1>1, <1>2

\* The update marks nothing but what was marked and the new index.
LEMMA ReplaySeenSubset ==
    ASSUME NEW h, NEW S, NEW i
    PROVE  ReplaySeen(h, S, i) \subseteq S \cup {i}
BY DEF ReplaySeen

\* An index within the skew bound of the high-water mark is inside the
\* replay window.
LEMMA InRangeInWindow ==
    ASSUME NEW h \in Int, NEW i \in Int, InRange(h, i)
    PROVE  i > h - WindowSize
<1>1. Half \in Nat
  BY SMT DEF Half
<1>2. QED
  BY <1>1, SMT DEF InRange, Dist, WindowSize

=============================================================================
