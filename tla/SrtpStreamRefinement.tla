------------------------- MODULE SrtpStreamRefinement -------------------------
(***************************************************************************)
(* Proof that an SRTP stream with authentication implements the secure    *)
(* channel SrtpChannel, for every value of the constants: the initial     *)
(* state maps to the channel's, every successful protect to a Send, every *)
(* successful unprotect to a Deliver, and every other call to a stutter.  *)
(***************************************************************************)
EXTENDS SrtpStreamProofs, FiniteSetTheorems

USE SeqSpaceAssumption, RocSpaceAssumption, LimitAssumption

\* The channel's variables, as the refinement mapping computes them.
ChanSent == {<<m.mac, m.data>> : m \in net}
ChanDelivered == {i \in Indices : accepted[i] >= 1}

\* The sender's window remembers every index it protected under: each is
\* still marked, or too far behind the high-water mark to pass the skew
\* check again (the sender-side twin of AcceptedRemembered).
SentRemembered ==
    \A m \in net :
        /\ m.mac \in Indices
        /\ ~fresh["sender"]
        /\ m.mac \in seen["sender"] \/ m.mac <= hi["sender"] - WindowSize

\* The channel's sets hold as many packets as the key-usage counters
\* record: one Send per counted protect, one Deliver per counted unprotect.
Counted ==
    /\ IsFiniteSet(ChanSent) /\ Cardinality(ChanSent) = used["sender"]
    /\ Cardinality(ChanDelivered) = used["receiver"]

\* Every accepted index is one the sender protected a packet under.
AcceptedSent == \A i \in Indices : accepted[i] >= 1 => \E m \in net : m.mac = i

RefInv ==
    /\ ReplayInv
    /\ SentRemembered
    /\ Counted
    /\ AcceptedSent

-----------------------------------------------------------------------------
(* Facts about single calls. *)

\* The index space is finite, so is every set of indices.
LEMMA IndicesFinite ==
    ASSUME NEW T \in SUBSET Indices
    PROVE  IsFiniteSet(T)
<1>1. IsFiniteSet(Indices)
  BY FS_Interval DEF Indices
<1>2. QED
  BY <1>1, FS_Subset

\* A call that protect accepts on a sender that already has a high-water
\* mark passed the skew check and the replay check (the sender-side twin
\* of UnprotectOkChecks).
LEMMA ProtectOkChecks ==
    ASSUME TypeOK, ~fresh["sender"], NEW t \in Indices, ProtectResult(t) = "ok"
    PROVE  LET i == Estimate("sender", SeqOf(t))
           IN  /\ i \in Indices
               /\ i > hi["sender"] - WindowSize
               /\ i \notin seen["sender"]
<1> DEFINE h == hi["sender"]
           i == Estimate("sender", SeqOf(t))
<1>1. InRange(h, i) /\ ReplayCheck(h, seen["sender"], i) = "accept"
  BY DEF ProtectResult, OutOfRange
<1>2. i \in Indices /\ h \in Indices
  BY RocSeqInRange, EstimateTyped DEF TypeOK, Sides
<1>3. i > h - WindowSize
  BY <1>1, <1>2, InRangeInWindow DEF Indices
<1>4. QED
  BY <1>1, <1>2, <1>3 DEF ReplayCheck

\* protect never puts a second packet on the wire under an index it has
\* already used.
LEMMA ProtectOkNewIndex ==
    ASSUME TypeOK, SentRemembered, NEW t \in Indices, NEW d \in Data,
           ProtectOk(t, d)
    PROVE  LET i == Estimate("sender", SeqOf(t))
           IN  /\ i \in Indices
               /\ \A m \in net : m.mac # i
<1> DEFINE i == Estimate("sender", SeqOf(t))
<1>1. i \in Indices
  BY RocSeqInRange, EstimateTyped DEF TypeOK, Sides
<1>2. CASE fresh["sender"]
  BY <1>1, <1>2 DEF SentRemembered
<1>3. CASE ~fresh["sender"]
  <2>1. i > hi["sender"] - WindowSize /\ i \notin seen["sender"]
    BY <1>3, ProtectOkChecks DEF ProtectOk
  <2>2. hi["sender"] \in Indices
    BY DEF TypeOK, Sides
  <2>3. QED
    BY <1>1, <2>1, <2>2, WindowPositive, SMT DEF SentRemembered, Indices
<1>4. QED
  BY <1>1, <1>2, <1>3

\* With authentication on, unprotect accepts only a packet the sender
\* emitted, and only at the index its tag binds.
LEMMA UnprotectOkSent ==
    ASSUME TypeOK, AuthOn, NEW m \in net \cup Forgeries, UnprotectOk(m)
    PROVE  /\ m \in net
           /\ m.mac = Estimate("receiver", m.seq)
           /\ Estimate("receiver", m.seq) \in Indices
<1> DEFINE i == Estimate("receiver", m.seq)
<1>1. i \in Indices
  <2>1. m.seq \in 0 .. (SeqSpace - 1)
    BY DEF TypeOK, Packets, Forgeries
  <2>2. QED
    BY <2>1, EstimateTyped DEF TypeOK, Sides
<1>2. m.mac = i
  BY DEF UnprotectOk, UnprotectResult, Authentic
<1>3. m \notin Forgeries \/ m \in net
  BY <1>1, <1>2, SMT DEF Forgeries, NoMac, Indices
<1>4. QED
  BY <1>1, <1>2, <1>3

\* What a successful protect adds to the channel: its index and payload.
LEMMA ProtectOkChanSent ==
    ASSUME NEW t \in Indices, NEW d \in Data, ProtectOk(t, d)
    PROVE  ChanSent' = ChanSent \cup {<<Estimate("sender", SeqOf(t)), d>>}
<1> DEFINE i == Estimate("sender", SeqOf(t))
           m0 == [seq |-> SeqOf(t), mac |-> i, data |-> d, app |-> t]
<1>1. net' = net \cup {m0}
  BY DEF ProtectOk
<1>2. <<m0.mac, m0.data>> = <<i, d>>
  OBVIOUS
<1>3. QED
  BY <1>1, <1>2, Zenon DEF ChanSent

-----------------------------------------------------------------------------
(* The refinement invariant. *)

\* The initial state satisfies the refinement invariant.
LEMMA RefInit == Init => RefInv
<1> SUFFICES ASSUME Init PROVE RefInv
  OBVIOUS
<1>1. ReplayInv
  BY ZeroIndex DEF Init, ReplayInv, TypeOK, Results, ReplayProtection,
                   AcceptedRemembered
<1>2. ChanSent = {} /\ ChanDelivered = {}
  BY DEF Init, ChanSent, ChanDelivered
<1>3. Counted
  BY <1>2, FS_EmptySet DEF Counted, Init, Sides
<1>4. QED
  BY <1>1, <1>3 DEF RefInv, SentRemembered, AcceptedSent, Init

\* With authentication on, every step keeps the refinement invariant.
LEMMA RefStep ==
    ASSUME AuthOn, RefInv, [Next]_vars
    PROVE  RefInv'
<1> USE DEF RefInv, ReplayInv
<1>1. ReplayInv'
  BY StreamTypeStep, ReplayStep
<1>2. ASSUME NEW t \in Indices, NEW d \in Data, ProtectOk(t, d) PROVE RefInv'
  <2> DEFINE h == hi["sender"]
             S == seen["sender"]
             i == Estimate("sender", SeqOf(t))
             m0 == [seq |-> SeqOf(t), mac |-> i, data |-> d, app |-> t]
  <2>1. /\ i \in Indices
        /\ \A m \in net : m.mac # i
    BY <1>2, ProtectOkNewIndex
  <2>2. /\ net' = net \cup {m0}
        /\ accepted' = accepted
        /\ fresh'["sender"] = FALSE
        /\ hi'["sender"] = ReplayHigh(h, i)
        /\ seen'["sender"] = ReplaySeen(h, S, i)
        /\ used'["sender"] = used["sender"] + 1
        /\ used'["receiver"] = used["receiver"]
    BY <1>2 DEF ProtectOk, AdvanceWindow, CountPacket, TypeOK, Sides
  <2>3. h \in Indices /\ S \in SUBSET Indices
    BY DEF TypeOK, Sides
  <2>4. SentRemembered'
    <3> SUFFICES ASSUME NEW m \in net'
                 PROVE  /\ m.mac \in Indices
                        /\ ~fresh'["sender"]
                        /\ m.mac \in seen'["sender"]
                           \/ m.mac <= hi'["sender"] - WindowSize
      BY DEF SentRemembered
    <3>1. m.mac \in Indices /\ (m.mac \in S \/ m.mac <= h - WindowSize \/ m.mac = i)
      BY <2>1, <2>2 DEF SentRemembered
    <3>2. QED
      BY <3>1, <2>1, <2>2, <2>3, WindowUpdateRemembers
  <2>5. Counted'
    <3>1. ChanSent' = ChanSent \cup {<<i, d>>}
      BY <1>2, ProtectOkChanSent
    <3>2. <<i, d>> \notin ChanSent
      BY <2>1 DEF ChanSent
    <3>3. IsFiniteSet(ChanSent') /\ Cardinality(ChanSent') = Cardinality(ChanSent) + 1
      BY <3>1, <3>2, FS_AddElement DEF Counted
    <3>4. ChanDelivered' = ChanDelivered
      BY <2>2 DEF ChanDelivered
    <3>5. QED
      BY <3>3, <3>4, <2>2 DEF Counted
  <2>6. AcceptedSent'
    BY <2>2 DEF AcceptedSent
  <2>7. QED
    BY <1>1, <2>4, <2>5, <2>6
<1>3. ASSUME NEW m \in net \cup Forgeries, UnprotectOk(m) PROVE RefInv'
  <2> DEFINE i == Estimate("receiver", m.seq)
  <2>1. m \in net /\ m.mac = i /\ i \in Indices
    BY <1>3, UnprotectOkSent
  <2>2. accepted[i] = 0
    BY <1>3, UnprotectOkUnseen
  <2>3. /\ net' = net
        /\ accepted' = [accepted EXCEPT ![i] = @ + 1]
        /\ fresh'["sender"] = fresh["sender"]
        /\ hi'["sender"] = hi["sender"]
        /\ seen'["sender"] = seen["sender"]
        /\ used'["sender"] = used["sender"]
        /\ used'["receiver"] = used["receiver"] + 1
    BY <1>3 DEF UnprotectOk, AdvanceWindow, CountPacket, TypeOK, Sides
  <2>4. SentRemembered'
    BY <2>3 DEF SentRemembered
  <2>5. Counted'
    <3>1. ChanSent' = ChanSent
      BY <2>3 DEF ChanSent
    <3>2. ChanDelivered' = ChanDelivered \cup {i}
      BY <2>1, <2>2, <2>3 DEF ChanDelivered, TypeOK
    <3>3. i \notin ChanDelivered
      BY <2>2 DEF ChanDelivered
    <3>4. IsFiniteSet(ChanDelivered)
      BY IndicesFinite DEF ChanDelivered
    <3>5. Cardinality(ChanDelivered') = Cardinality(ChanDelivered) + 1
      BY <3>2, <3>3, <3>4, FS_AddElement
    <3>6. QED
      BY <3>1, <3>5, <2>3 DEF Counted
  <2>6. AcceptedSent'
    BY <2>1, <2>3 DEF AcceptedSent, TypeOK
  <2>7. QED
    BY <1>1, <2>4, <2>5, <2>6
<1>4. CASE UNCHANGED <<net, accepted, fresh, hi, seen, used>>
  <2>1. ChanSent' = ChanSent /\ ChanDelivered' = ChanDelivered
    BY <1>4 DEF ChanSent, ChanDelivered
  <2>2. QED
    BY <1>1, <1>4, <2>1 DEF SentRemembered, Counted, AcceptedSent
<1>5. QED
  BY <1>2, <1>3, <1>4
     DEF Next, Protect, Unprotect, RejectExpired, ProtectFail,
         UnprotectFail, vars

-----------------------------------------------------------------------------
(* The refinement. *)

\* The channel's state is the image of the stream's under the mapping.
LEMMA MappedVars ==
    /\ {<<m.mac, m.data>> : m \in net} = ChanSent
    /\ Channel!DeliveredIndices = ChanDelivered
BY DEF ChanSent, ChanDelivered, Channel!DeliveredIndices

\* The channel counts its sets with the same Cardinality as the stream.
LEMMA ChannelCardinality ==
    ASSUME NEW T
    PROVE  Channel!Cardinality(T) = Cardinality(T)
BY DEF Channel!Cardinality, Cardinality

\* Every stream step is a channel step or leaves what the channel sees
\* unchanged.
LEMMA MapStep ==
    ASSUME AuthOn, RefInv, [Next]_vars
    PROVE  [Channel!Next]_Channel!chanVars
<1> USE DEF RefInv, ReplayInv
<1>1. ASSUME NEW t \in Indices, NEW d \in Data, ProtectOk(t, d)
      PROVE  Channel!Send(Estimate("sender", SeqOf(t)), d)
  <2> DEFINE i == Estimate("sender", SeqOf(t))
  <2>1. i \in Indices /\ \A m \in net : m.mac # i
    BY <1>1, ProtectOkNewIndex
  <2>2. i \notin {p[1] : p \in ChanSent}
    BY <2>1 DEF ChanSent
  <2>3. Cardinality(ChanSent) < HardLimit
    <3>1. used["sender"] \in 0 .. HardLimit /\ used["sender"] < HardLimit
      BY <1>1 DEF ProtectOk, Expired, TypeOK, Sides
    <3>2. QED
      BY <3>1 DEF Counted
  <2>4. ChanSent' = ChanSent \cup {<<i, d>>} /\ accepted' = accepted
    BY <1>1, ProtectOkChanSent DEF ProtectOk
  <2>5. i \notin Channel!SentIndices
    BY <2>2 DEF Channel!SentIndices, ChanSent
  <2>6. Channel!Cardinality({<<m.mac, m.data>> : m \in net}) < HardLimit
    BY <2>3, ChannelCardinality DEF ChanSent
  <2>7. {<<m.mac, m.data>> : m \in net}' = {<<m.mac, m.data>> : m \in net} \cup {<<i, d>>}
    BY <2>4 DEF ChanSent
  <2>8. QED
    BY <2>4, <2>5, <2>6, <2>7 DEF Channel!Send
<1>2. ASSUME NEW m \in net \cup Forgeries, UnprotectOk(m)
      PROVE  Channel!Deliver(Estimate("receiver", m.seq))
  <2> DEFINE i == Estimate("receiver", m.seq)
  <2>1. m \in net /\ m.mac = i /\ i \in Indices
    BY <1>2, UnprotectOkSent
  <2>2. i \in Channel!SentIndices
    <3>1. <<i, m.data>> \in ChanSent
      BY <2>1 DEF ChanSent
    <3>2. <<i, m.data>>[1] = i
      OBVIOUS
    <3>3. QED
      BY <3>1, <3>2 DEF Channel!SentIndices, ChanSent
  <2>3. accepted[i] = 0
    BY <1>2, UnprotectOkUnseen
  <2>4. Cardinality(ChanDelivered) < HardLimit
    <3>1. used["receiver"] \in 0 .. HardLimit /\ used["receiver"] < HardLimit
      BY <1>2 DEF UnprotectOk, Expired, TypeOK, Sides
    <3>2. QED
      BY <3>1 DEF Counted
  <2>5. accepted' = [accepted EXCEPT ![i] = 1] /\ net' = net
    BY <1>2, <2>3 DEF UnprotectOk
  <2>6. Channel!Cardinality(Channel!DeliveredIndices) < HardLimit
    BY <2>4, MappedVars, ChannelCardinality
  <2>7. UNCHANGED {<<q.mac, q.data>> : q \in net}
    BY <2>5
  <2>8. QED
    BY <2>1, <2>2, <2>3, <2>5, <2>6, <2>7 DEF Channel!Deliver
<1>3. CASE UNCHANGED <<net, accepted>>
  BY <1>3 DEF Channel!chanVars
<1>4. ASSUME NEW t \in Indices, NEW d \in Data, ProtectOk(t, d)
      PROVE  Channel!Next
  <2>1. Estimate("sender", SeqOf(t)) \in Indices
    BY <1>4, ProtectOkNewIndex
  <2>2. QED
    BY <1>1, <1>4, <2>1 DEF Channel!Next
<1>5. ASSUME NEW m \in net \cup Forgeries, UnprotectOk(m)
      PROVE  Channel!Next
  <2>1. Estimate("receiver", m.seq) \in Indices
    BY <1>5, UnprotectOkSent
  <2>2. QED
    BY <1>2, <1>5, <2>1 DEF Channel!Next
<1>6. QED
  BY <1>3, <1>4, <1>5
     DEF Next, Protect, Unprotect, RejectExpired, ProtectFail,
         UnprotectFail, vars

\* Refinement (asrtpa_protect / asrtpa_unprotect with an authenticating
\* policy): for every index space, window and key limit, the stream
\* implements the secure channel.  Under any attacker, the receiver
\* delivers only indices the sender protected a packet under, each at most
\* once; the sender never reuses an index; and neither side gets past the
\* hard key-usage limit.
THEOREM StreamImplementsChannel ==
    ASSUME AuthOn
    PROVE  Spec => ChannelRefinement
<1>1. Init => Channel!Init
  BY DEF Init, Channel!Init
<1>2. Spec => []RefInv
  <2>1. RefInv /\ [Next]_vars => RefInv'
    BY RefStep
  <2>2. QED
    BY RefInit, <2>1, PTL DEF Spec
<1>3. RefInv /\ [Next]_vars => [Channel!Next]_Channel!chanVars
  BY MapStep
<1>4. QED
  BY <1>1, <1>2, <1>3, PTL DEF Spec, ChannelRefinement, Channel!Spec
=============================================================================
