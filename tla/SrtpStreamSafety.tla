--------------------------- MODULE SrtpStreamSafety ---------------------------
(***************************************************************************)
(* Proofs of the stream invariants that hold whatever the security        *)
(* services: no keystream reuse, every packet protected at the index the  *)
(* application meant, windows that mark only processed indices, and the   *)
(* key-usage bound.  They rest on one inductive invariant, SafetyInv,     *)
(* which extends the replay invariant with the sender's memory of used    *)
(* indices and with the two usage counters counting what they stand for. *)
(***************************************************************************)
EXTENDS SrtpStreamRefinement

USE SeqSpaceAssumption, RocSpaceAssumption, LimitAssumption

\* The sender's counter counts the packets on the wire.
NetCounted == IsFiniteSet(net) /\ Cardinality(net) = used["sender"]

\* The receiver's counter counts the indices it accepted.
DeliveredCounted == Cardinality(ChanDelivered) = used["receiver"]

SafetyInv ==
    /\ ReplayInv
    /\ SentRemembered
    /\ NetCounted
    /\ DeliveredCounted
    /\ NoKeystreamReuse
    /\ ProtectedAtOwnIndex
    /\ WindowMarksOnlyProcessed

-----------------------------------------------------------------------------
(* Facts about single calls. *)

\* Index reconstruction at the sender: a packet presented within the skew
\* bound that protect accepts is protected under the index the application
\* meant.  Both that index and the estimate carry its sequence number and
\* lie within half a sequence space of the high-water mark, so they agree.
LEMMA ProtectOkOwnIndex ==
    ASSUME TypeOK, NEW t \in Indices, NEW d \in Data,
           Presentable(t), ProtectOk(t, d)
    PROVE  Estimate("sender", SeqOf(t)) = t
<1> DEFINE h == hi["sender"]
           i == Estimate("sender", SeqOf(t))
<1>1. SeqOf(t) \in 0 .. (SeqSpace - 1)
  BY RocSeqInRange
<1>2. CASE fresh["sender"]
  <2>1. t \in 0 .. (SeqSpace - 1)
    BY <1>2 DEF Presentable
  <2>2. QED
    BY <1>2, <2>1, SMT DEF Estimate, SeqOf
<1>3. CASE ~fresh["sender"]
  <2>1. h \in Indices
    BY DEF TypeOK, Sides
  <2>2. i = EstimateIndex(h, SeqOf(t))
    BY <1>3 DEF Estimate
  <2>3. i % SeqSpace = t % SeqSpace
    BY <1>1, <2>1, <2>2, EstimateResidue DEF SeqOf
  <2>4. InRange(h, i)
    BY <1>3 DEF ProtectOk, ProtectResult, OutOfRange
  <2>5. InRange(h, t)
    BY <1>3 DEF Presentable, InRange
  <2>6. i \in Indices
    BY <1>1, <2>1, <2>2, EstimateInIndices
  <2>7. QED
    BY <2>1, <2>3, <2>4, <2>5, <2>6, ResidueClose DEF Indices
<1>4. QED
  BY <1>2, <1>3

\* The index a received packet is reconstructed at is an index.
LEMMA ReceivedIndexTyped ==
    ASSUME TypeOK, NEW m \in net \cup Forgeries
    PROVE  Estimate("receiver", m.seq) \in Indices
<1>1. m.seq \in 0 .. (SeqSpace - 1)
  BY DEF TypeOK, Packets, Forgeries
<1>2. QED
  BY <1>1, EstimateTyped DEF Sides

-----------------------------------------------------------------------------
(* The inductive invariant. *)

\* The initial state satisfies SafetyInv.
LEMMA SafetyInit == Init => SafetyInv
<1> SUFFICES ASSUME Init PROVE SafetyInv
  OBVIOUS
<1>1. ReplayInv /\ SentRemembered
  BY RefInit DEF RefInv
<1>2. net = {} /\ ChanDelivered = {}
  BY DEF Init, ChanDelivered
<1>3. NetCounted /\ DeliveredCounted
  BY <1>2, FS_EmptySet DEF NetCounted, DeliveredCounted, Init, Sides
<1>4. QED
  BY <1>1, <1>2, <1>3
     DEF SafetyInv, NoKeystreamReuse, ProtectedAtOwnIndex,
         WindowMarksOnlyProcessed, Init, Sides

\* A successful protect of a presentable packet keeps SafetyInv.
LEMMA SafetyProtectOk ==
    ASSUME SafetyInv, [Next]_vars, NEW t \in Indices, NEW d \in Data,
           Presentable(t), ProtectOk(t, d)
    PROVE  SafetyInv'
<1> USE DEF SafetyInv, ReplayInv
<1> DEFINE h == hi["sender"]
           S == seen["sender"]
           i == Estimate("sender", SeqOf(t))
           m0 == [seq |-> SeqOf(t), mac |-> i, data |-> d, app |-> t]
<1>1. ReplayInv'
  BY StreamTypeStep, ReplayStep
<1>2. /\ i \in Indices
      /\ \A m \in net : m.mac # i
  BY ProtectOkNewIndex
<1>3. /\ net' = net \cup {m0}
      /\ accepted' = accepted
      /\ fresh'["receiver"] = fresh["receiver"]
      /\ hi'["receiver"] = hi["receiver"]
      /\ seen'["receiver"] = seen["receiver"]
      /\ fresh'["sender"] = FALSE
      /\ hi'["sender"] = ReplayHigh(h, i)
      /\ seen'["sender"] = ReplaySeen(h, S, i)
      /\ used'["sender"] = used["sender"] + 1
      /\ used'["receiver"] = used["receiver"]
  BY DEF ProtectOk, AdvanceWindow, CountPacket, TypeOK, Sides
<1>4. h \in Indices /\ S \in SUBSET Indices
  BY DEF TypeOK, Sides
<1>5. i = t
  BY ProtectOkOwnIndex
<1>6. SentRemembered'
  <2> SUFFICES ASSUME NEW m \in net'
               PROVE  /\ m.mac \in Indices
                      /\ ~fresh'["sender"]
                      /\ m.mac \in seen'["sender"]
                         \/ m.mac <= hi'["sender"] - WindowSize
    BY DEF SentRemembered
  <2>1. m.mac \in Indices /\ (m.mac \in S \/ m.mac <= h - WindowSize \/ m.mac = i)
    BY <1>2, <1>3 DEF SentRemembered
  <2>2. QED
    BY <2>1, <1>2, <1>3, <1>4, WindowUpdateRemembers
<1>7. NetCounted'
  <2>1. m0 \notin net
    BY <1>2
  <2>2. IsFiniteSet(net') /\ Cardinality(net') = Cardinality(net) + 1
    BY <1>3, <2>1, FS_AddElement DEF NetCounted
  <2>3. QED
    BY <2>2, <1>3 DEF NetCounted
<1>8. DeliveredCounted'
  BY <1>3 DEF DeliveredCounted, ChanDelivered
<1>9. NoKeystreamReuse'
  BY <1>2, <1>3 DEF NoKeystreamReuse
<1>10. ProtectedAtOwnIndex'
  BY <1>3, <1>5 DEF ProtectedAtOwnIndex
<1>11. WindowMarksOnlyProcessed'
  <2>1. \A j \in seen'["sender"] : \E m \in net' : m.mac = j
    <3>1. seen'["sender"] \subseteq S \cup {i}
      BY <1>3, ReplaySeenSubset
    <3>2. m0 \in net' /\ m0.mac = i
      BY <1>3
    <3>3. \A j \in S : \E m \in net' : m.mac = j
      BY <1>3 DEF WindowMarksOnlyProcessed
    <3>4. QED
      BY <3>1, <3>2, <3>3
  <2>2. QED
    BY <2>1, <1>3 DEF WindowMarksOnlyProcessed
<1>12. QED
  BY <1>1, <1>6, <1>7, <1>8, <1>9, <1>10, <1>11
\* A successful unprotect keeps SafetyInv: it touches only the receiver's
\* window and counts, and marks only the index it accepts.
LEMMA SafetyUnprotectOk ==
    ASSUME SafetyInv, [Next]_vars, NEW m \in net \cup Forgeries, UnprotectOk(m)
    PROVE  SafetyInv'
<1> USE DEF SafetyInv, ReplayInv
<1> DEFINE h == hi["receiver"]
           S == seen["receiver"]
           i == Estimate("receiver", m.seq)
<1>1. ReplayInv'
  BY StreamTypeStep, ReplayStep
<1>2. i \in Indices /\ accepted[i] = 0
  BY ReceivedIndexTyped, UnprotectOkUnseen
<1>3. /\ net' = net
      /\ accepted' = [accepted EXCEPT ![i] = @ + 1]
      /\ fresh'["sender"] = fresh["sender"]
      /\ hi'["sender"] = hi["sender"]
      /\ seen'["sender"] = seen["sender"]
      /\ seen'["receiver"] = ReplaySeen(h, S, i)
      /\ used'["sender"] = used["sender"]
      /\ used'["receiver"] = used["receiver"] + 1
  BY DEF UnprotectOk, AdvanceWindow, CountPacket, TypeOK, Sides
<1>4. SentRemembered' /\ NetCounted' /\ NoKeystreamReuse' /\ ProtectedAtOwnIndex'
  BY <1>3 DEF SentRemembered, NetCounted, NoKeystreamReuse, ProtectedAtOwnIndex
<1>5. DeliveredCounted'
  <2>1. ChanDelivered' = ChanDelivered \cup {i}
    BY <1>2, <1>3 DEF ChanDelivered, TypeOK
  <2>2. i \notin ChanDelivered
    BY <1>2 DEF ChanDelivered
  <2>3. IsFiniteSet(ChanDelivered)
    BY IndicesFinite DEF ChanDelivered
  <2>4. Cardinality(ChanDelivered') = Cardinality(ChanDelivered) + 1
    BY <2>1, <2>2, <2>3, FS_AddElement
  <2>5. QED
    BY <2>4, <1>3 DEF DeliveredCounted
<1>6. WindowMarksOnlyProcessed'
  <2>1. seen'["receiver"] \subseteq S \cup {i}
    BY <1>3, ReplaySeenSubset
  <2>2. \A j \in S \cup {i} : accepted'[j] >= 1
    BY <1>2, <1>3 DEF WindowMarksOnlyProcessed, TypeOK
  <2>3. QED
    BY <2>1, <2>2, <1>3 DEF WindowMarksOnlyProcessed
<1>7. QED
  BY <1>1, <1>4, <1>5, <1>6

\* Every step keeps SafetyInv.
LEMMA SafetyStep == SafetyInv /\ [Next]_vars => SafetyInv'
<1> SUFFICES ASSUME SafetyInv, [Next]_vars PROVE SafetyInv'
  OBVIOUS
<1>1. ASSUME NEW t \in Indices, NEW d \in Data, Presentable(t), ProtectOk(t, d)
      PROVE  SafetyInv'
  BY <1>1, SafetyProtectOk
<1>2. ASSUME NEW m \in net \cup Forgeries, UnprotectOk(m) PROVE SafetyInv'
  BY <1>2, SafetyUnprotectOk
<1>3. CASE UNCHANGED <<net, accepted, fresh, hi, seen, used>>
  <2>1. ReplayInv'
    BY StreamTypeStep, ReplayStep DEF SafetyInv, ReplayInv
  <2>2. ChanDelivered' = ChanDelivered
    BY <1>3 DEF ChanDelivered
  <2>3. QED
    BY <1>3, <2>1, <2>2
       DEF SafetyInv, SentRemembered, NetCounted, DeliveredCounted,
           NoKeystreamReuse, ProtectedAtOwnIndex, WindowMarksOnlyProcessed
<1>4. QED
  BY <1>1, <1>2, <1>3
     DEF Next, Protect, Unprotect, RejectExpired, ProtectFail,
         UnprotectFail, vars

\* SafetyInv holds in every reachable state.
LEMMA SafetyInvariant == Spec => []SafetyInv
BY SafetyInit, SafetyStep, PTL DEF Spec

-----------------------------------------------------------------------------
(* The invariants of the stream_safety run, for every instance. *)

\* No keystream reuse (asrtpa_protect's replay check): two different
\* packets are never protected under one index, with or without
\* authentication.
THEOREM StreamNoKeystreamReuse == Spec => []NoKeystreamReuse
BY SafetyInvariant, PTL DEF SafetyInv

\* Index reconstruction at the sender (asrtpa_protect, srtp.h:272-274):
\* every packet presented within the 2^15 reordering contract is protected
\* under the index the application meant, across any ROC wrap.
THEOREM StreamProtectedAtOwnIndex == Spec => []ProtectedAtOwnIndex
BY SafetyInvariant, PTL DEF SafetyInv

\* No poisoning (asrtpa_unprotect updates the window only after the MAC
\* check): every index marked in the receiver's window was accepted, and
\* every index marked in the sender's window was used.
THEOREM StreamWindowMarksOnlyProcessed == Spec => []WindowMarksOnlyProcessed
BY SafetyInvariant, PTL DEF SafetyInv

\* The key-usage limit (spec 4.4 steps 3 and 7): neither the packets on the
\* wire nor the indices accepted ever exceed the hard limit.
THEOREM StreamKeyUsageBounded == Spec => []KeyUsageBounded
<1>1. SafetyInv => KeyUsageBounded
  <2> SUFFICES ASSUME SafetyInv PROVE KeyUsageBounded
    OBVIOUS
  <2>1. used["sender"] \in 0 .. HardLimit /\ used["receiver"] \in 0 .. HardLimit
    BY DEF SafetyInv, ReplayInv, TypeOK, Sides
  <2>2. QED
    BY <2>1 DEF SafetyInv, NetCounted, DeliveredCounted, ChanDelivered,
                KeyUsageBounded
<1>2. QED
  BY <1>1, SafetyInvariant, PTL
=============================================================================
