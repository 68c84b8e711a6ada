----------------------------- MODULE SrtpIndex -----------------------------
(***************************************************************************)
(* Packet-index arithmetic and the replay window of an SRTP stream.       *)
(*                                                                         *)
(* An RTP packet carries a 16-bit sequence number; the stream keeps a      *)
(* 32-bit rollover counter (ROC), and the packet index is                  *)
(* ROC * 2^16 + SEQ, a 48-bit number.  SeqSpace stands for 2^16 and        *)
(* RocSpace for 2^32; a model uses small values of both.  The replay       *)
(* window covers Half = SeqSpace \div 2 indices (2^15 in the code).        *)
(***************************************************************************)
EXTENDS Integers

CONSTANTS SeqSpace,   \* 2^16: number of RTP sequence numbers
          RocSpace    \* 2^32: number of rollover-counter values

ASSUME SeqSpaceAssumption == SeqSpace \in Nat /\ SeqSpace >= 2 /\ SeqSpace % 2 = 0
ASSUME RocSpaceAssumption == RocSpace \in Nat /\ RocSpace >= 1

Half == SeqSpace \div 2

\* The replay window size: indices more than WindowSize behind the
\* high-water mark are too old (spec 4.3: 2^15 positions).
WindowSize == Half

\* All packet indices: 0 .. 2^48 - 1.
Indices == 0 .. (SeqSpace * RocSpace - 1)

SeqOf(i) == i % SeqSpace
RocOf(i) == i \div SeqSpace

Dist(a, b) == IF a >= b THEN a - b ELSE b - a

(***************************************************************************)
(* The "estimate nearest index" rule of spec 4.4 step 4: of the two        *)
(* candidates built from the current ROC and from ROC + 1 (a 32-bit        *)
(* counter, hence mod RocSpace), take the one nearer to the high-water     *)
(* mark hi; on a tie prefer the non-incrementing one (spec 9).             *)
(***************************************************************************)
\* Mutant: the ROC + 1 candidate computed without the 32-bit wrap.
EstimateIndexNoWrap(hi, seq) ==
    LET c0 == RocOf(hi) * SeqSpace + seq
        c1 == (RocOf(hi) + 1) * SeqSpace + seq
    IN  IF Dist(c1, hi) < Dist(c0, hi) THEN c1 ELSE c0

EstimateIndex(hi, seq) ==
    LET c0 == RocOf(hi) * SeqSpace + seq
        c1 == ((RocOf(hi) + 1) % RocSpace) * SeqSpace + seq
    IN  IF Dist(c1, hi) < Dist(c0, hi) THEN c1 ELSE c0

\* The skew constraint: an index 2^15 or more away from the high-water
\* mark is ambiguous and the call fails with SequenceOutOfRange.
\* Mutant: the skew check left out.
InRangeUnchecked(hi, i) == TRUE

InRange(hi, i) == Dist(i, hi) < Half

(***************************************************************************)
(* ReplayWindow.check (spec 4.3).  The window is the high-water mark hi    *)
(* and the set seen of indices marked in the bitmap, all of them in        *)
(* (hi - WindowSize, hi].                                                  *)
(***************************************************************************)
ReplayCheck(hi, seen, i) ==
    IF i <= hi - WindowSize THEN "too_old"
    ELSE IF i \in seen THEN "duplicate"
    ELSE "accept"

\* ReplayWindow.update: slide the window forward when i is above the
\* high-water mark, dropping the bits that fall out of it, and mark i.
ReplayHigh(hi, i) == IF i > hi THEN i ELSE hi

\* Mutant: the slide drops one bit too many.
ReplaySeenShort(hi, seen, i) ==
    IF i > hi THEN {j \in seen \cup {i} : j > i - WindowSize + 1}
    ELSE seen \cup {i}

ReplaySeen(hi, seen, i) ==
    IF i > hi THEN {j \in seen \cup {i} : j > i - WindowSize}
    ELSE seen \cup {i}
=============================================================================
