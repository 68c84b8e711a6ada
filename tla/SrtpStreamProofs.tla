-------------------------- MODULE SrtpStreamProofs --------------------------
(***************************************************************************)
(* Proofs about SrtpStream for every value of the constants: the type     *)
(* invariant, and the anti-replay guarantee of asrtpa_unprotect().        *)
(***************************************************************************)
EXTENDS SrtpStream, SrtpIndexProofs, TLAPS

USE SeqSpaceAssumption, RocSpaceAssumption

-----------------------------------------------------------------------------
(* The type invariant. *)

\* The index a side reconstructs for a sequence number is an index.
LEMMA EstimateTyped ==
    ASSUME TypeOK, NEW s \in Sides, NEW q \in 0 .. (SeqSpace - 1)
    PROVE  Estimate(s, q) \in Indices
<1>1. CASE fresh[s]
  BY <1>1, SeqInIndices DEF Estimate
<1>2. CASE ~fresh[s]
  BY <1>2, EstimateInIndices DEF Estimate, TypeOK
<1>3. QED
  BY <1>1, <1>2

\* A step that counts a packet on side s keeps the counters typed, as long
\* as the side had not expired.
LEMMA CountPacketTyped ==
    ASSUME TypeOK, NEW s \in Sides, ~Expired(s), CountPacket(s)
    PROVE  /\ used' \in [Sides -> 0 .. HardLimit]
           /\ events' \in [Sides -> [EventKinds -> Nat]]
<1>1. used[s] + 1 \in 0 .. HardLimit
  BY LimitAssumption, SMT DEF TypeOK, Expired
<1>2. HardEvent(used[s] + 1) \in EventKinds
  BY DEF HardEvent, EventKinds
<1>3. used' \in [Sides -> 0 .. HardLimit]
  BY <1>1 DEF CountPacket, TypeOK
<1>4. events' \in [Sides -> [EventKinds -> Nat]]
  <2> DEFINE n == used[s] + 1
  <2>1. events[s] \in [EventKinds -> Nat]
    BY DEF TypeOK
  <2>2. /\ events[s]["event_key_soft_limit"] + (IF n = SoftLimit THEN 1 ELSE 0) \in Nat
        /\ events[s][HardEvent(n)] + (IF n = HardLimit THEN 1 ELSE 0) \in Nat
    BY <1>2, <2>1 DEF EventKinds
  <2>3. QED
    BY <2>2, <1>2 DEF CountPacket, TypeOK
<1>5. QED
  BY <1>3, <1>4

\* Every step from a well-typed state leads to one.
LEMMA StreamTypeStep == TypeOK /\ [Next]_vars => TypeOK'
  <2> SUFFICES ASSUME TypeOK, [Next]_vars PROVE TypeOK'
    OBVIOUS
  <2>1. ASSUME NEW s \in Sides, RejectExpired(s) PROVE TypeOK'
    <3>1. HardEvent(used[s]) \in EventKinds
      BY DEF HardEvent, EventKinds
    <3>2. QED
      BY <2>1, <3>1 DEF RejectExpired, TypeOK, Results
  <2>2. ASSUME NEW t \in Indices, NEW d \in Data, ProtectOk(t, d)
        PROVE  TypeOK'
    <3> DEFINE i == Estimate("sender", SeqOf(t))
    <3>1. SeqOf(t) \in 0 .. (SeqSpace - 1)
      BY RocSeqInRange
    <3>2. i \in Indices
      BY <3>1, EstimateTyped DEF Sides
    <3>3. /\ fresh' \in [Sides -> BOOLEAN]
          /\ hi' \in [Sides -> Indices]
          /\ seen' \in [Sides -> SUBSET Indices]
      BY <2>2, <3>2, ReplayUpdateTyped DEF ProtectOk, AdvanceWindow, TypeOK
    <3>4. /\ used' \in [Sides -> 0 .. HardLimit]
          /\ events' \in [Sides -> [EventKinds -> Nat]]
      BY <2>2, CountPacketTyped DEF ProtectOk, Sides
    <3>5. net' \subseteq Packets
      BY <2>2, <3>1, <3>2 DEF ProtectOk, TypeOK, Packets
    <3>6. QED
      BY <2>2, <3>3, <3>4, <3>5 DEF ProtectOk, TypeOK, Results
  <2>3. ASSUME NEW t \in Indices, ProtectFail(t) PROVE TypeOK'
    BY <2>3 DEF ProtectFail, ProtectResult, TypeOK, Results
  <2>4. ASSUME NEW m \in net \cup Forgeries, UnprotectOk(m) PROVE TypeOK'
    <3> DEFINE i == Estimate("receiver", m.seq)
    <3>1. m.seq \in 0 .. (SeqSpace - 1)
      BY DEF TypeOK, Packets, Forgeries
    <3>2. i \in Indices
      BY <3>1, EstimateTyped DEF Sides
    <3>3. /\ fresh' \in [Sides -> BOOLEAN]
          /\ hi' \in [Sides -> Indices]
          /\ seen' \in [Sides -> SUBSET Indices]
      BY <2>4, <3>2, ReplayUpdateTyped DEF UnprotectOk, AdvanceWindow, TypeOK
    <3>4. /\ used' \in [Sides -> 0 .. HardLimit]
          /\ events' \in [Sides -> [EventKinds -> Nat]]
      BY <2>4, CountPacketTyped DEF UnprotectOk, Sides
    <3>5. accepted' \in [Indices -> Nat]
      BY <2>4, <3>2 DEF UnprotectOk, TypeOK
    <3>6. QED
      BY <2>4, <3>3, <3>4, <3>5 DEF UnprotectOk, TypeOK, Results
  <2>5. ASSUME NEW m \in net \cup Forgeries, UnprotectFail(m) PROVE TypeOK'
    BY <2>5 DEF UnprotectFail, UnprotectResult, TypeOK, Results
  <2>6. CASE UNCHANGED vars
    BY <2>6 DEF vars, TypeOK
  <2>7. CASE Protect
    BY <2>7, <2>1, <2>2, <2>3 DEF Protect, Sides
  <2>8. CASE Unprotect
    BY <2>8, <2>1, <2>4, <2>5 DEF Unprotect, Sides
  <2>9. QED
    BY <2>6, <2>7, <2>8 DEF Next

\* Every reachable state of a stream is well typed.
THEOREM TypeCorrect == Spec => []TypeOK
<1>1. Init => TypeOK
  BY ZeroIndex, LimitAssumption DEF Init, TypeOK, Results
<1>2. QED
  BY <1>1, StreamTypeStep, PTL DEF Spec

-----------------------------------------------------------------------------
(* Anti-replay. *)

\* A call that unprotect accepts on a receiver that already has a
\* high-water mark passed the skew check and the replay check: its index
\* is inside the window and not marked.
LEMMA UnprotectOkChecks ==
    ASSUME TypeOK, ~fresh["receiver"],
           NEW m \in net \cup Forgeries, UnprotectResult(m) = "ok"
    PROVE  LET i == Estimate("receiver", m.seq)
           IN  /\ i > hi["receiver"] - WindowSize
               /\ i \notin seen["receiver"]
<1> DEFINE h == hi["receiver"]
           i == Estimate("receiver", m.seq)
<1>1. InRange(h, i) /\ ReplayCheck(h, seen["receiver"], i) = "accept"
  BY DEF UnprotectResult, OutOfRange
<1>2. m.seq \in 0 .. (SeqSpace - 1)
  BY DEF TypeOK, Packets, Forgeries
<1>3. i \in Indices /\ h \in Indices
  BY <1>2, EstimateTyped DEF TypeOK, Sides
<1>4. i > h - WindowSize
  BY <1>1, <1>3, InRangeInWindow DEF Indices
<1>5. i \notin seen["receiver"]
  BY <1>1 DEF ReplayCheck
<1>6. QED
  BY <1>4, <1>5

\* The index of a packet unprotect accepts was never accepted before.
LEMMA UnprotectOkUnseen ==
    ASSUME TypeOK, AcceptedRemembered,
           NEW m \in net \cup Forgeries, UnprotectOk(m)
    PROVE  accepted[Estimate("receiver", m.seq)] = 0
<1> DEFINE h == hi["receiver"]
           S == seen["receiver"]
           i == Estimate("receiver", m.seq)
<1>1. i \in Indices /\ h \in Indices /\ S \in SUBSET Indices
  <2>1. m.seq \in 0 .. (SeqSpace - 1)
    BY DEF TypeOK, Packets, Forgeries
  <2>2. QED
    BY <2>1, EstimateTyped DEF TypeOK, Sides
<1>2. QED
  <2>1. accepted[i] \in Nat
    BY <1>1 DEF TypeOK
  <2>2. accepted[i] >= 1 => ~fresh["receiver"] /\ (i \in S \/ i <= h - WindowSize)
    BY <1>1 DEF AcceptedRemembered
  <2>3. CASE fresh["receiver"]
    BY <2>1, <2>2, <2>3, SMT
  <2>4. CASE ~fresh["receiver"]
    <3>1. i > h - WindowSize /\ i \notin S
      BY <2>4, UnprotectOkChecks DEF UnprotectOk
    <3>2. ~(i <= h - WindowSize)
      BY <1>1, <3>1, WindowPositive, SMT DEF Indices
    <3>3. QED
      BY <3>1, <3>2, <2>1, <2>2, SMT
  <2>5. QED
    BY <2>3, <2>4

\* A step keeps the receiver's acceptance counts at most one, and keeps
\* every accepted index remembered by its window.
LEMMA ReplayStep ==
    ASSUME TypeOK, ReplayProtection, AcceptedRemembered, [Next]_vars
    PROVE  ReplayProtection' /\ AcceptedRemembered'
<1> DEFINE Inv == ReplayProtection /\ AcceptedRemembered
<1> USE DEF Inv
\* Steps that leave the receiver's window and the acceptance count alone.
<1>1. CASE UNCHANGED <<accepted, fresh["receiver"], hi["receiver"], seen["receiver"]>>
  BY <1>1 DEF Inv, ReplayProtection, AcceptedRemembered
<1>2. ASSUME NEW t \in Indices, NEW d \in Data, ProtectOk(t, d)
      PROVE  UNCHANGED <<accepted, fresh["receiver"], hi["receiver"], seen["receiver"]>>
  BY <1>2 DEF ProtectOk, AdvanceWindow, TypeOK, Sides
<1>3. ASSUME NEW m \in net \cup Forgeries, UnprotectOk(m) PROVE Inv'
  <2> DEFINE h == hi["receiver"]
             S == seen["receiver"]
             i == Estimate("receiver", m.seq)
  <2>1. i \in Indices /\ h \in Indices /\ S \in SUBSET Indices
    <3>1. m.seq \in 0 .. (SeqSpace - 1)
      BY DEF TypeOK, Packets, Forgeries
    <3>2. QED
      BY <3>1, EstimateTyped DEF TypeOK, Sides
  <2>2. accepted[i] = 0
    BY <1>3, UnprotectOkUnseen DEF Inv
  <2>3. /\ accepted' = [accepted EXCEPT ![i] = @ + 1]
        /\ fresh'["receiver"] = FALSE
        /\ hi'["receiver"] = ReplayHigh(h, i)
        /\ seen'["receiver"] = ReplaySeen(h, S, i)
    BY <1>3 DEF UnprotectOk, AdvanceWindow, TypeOK, Sides
  <2>4. ReplayProtection'
    BY <2>1, <2>2, <2>3 DEF Inv, ReplayProtection, TypeOK
  <2>5. AcceptedRemembered'
    <3> SUFFICES ASSUME NEW j \in Indices, accepted'[j] >= 1
                 PROVE  /\ ~fresh'["receiver"]
                        /\ j \in seen'["receiver"] \/ j <= hi'["receiver"] - WindowSize
      BY DEF AcceptedRemembered
    <3>1. j \in S \/ j <= h - WindowSize \/ j = i
      BY <2>1, <2>3, SMT DEF Inv, AcceptedRemembered, TypeOK
    <3>2. QED
      BY <3>1, <2>1, <2>3, WindowUpdateRemembers
  <2>6. QED
    BY <2>4, <2>5 DEF Inv
<1>4. QED
  BY <1>1, <1>2, <1>3
     DEF Next, Protect, Unprotect, RejectExpired, ProtectFail,
         UnprotectFail, vars, Sides

\* Anti-replay: the receiver accepts each packet index at most once.
THEOREM ReplayProtected == Spec => []ReplayProtection
<1> DEFINE Inv == ReplayProtection /\ AcceptedRemembered
<1>1. Init => Inv
  BY DEF Init, Inv, ReplayProtection, AcceptedRemembered
<1>2. TypeOK /\ Inv /\ [Next]_vars => Inv'
  BY ReplayStep DEF Inv
<1>3. QED
  BY <1>1, <1>2, TypeCorrect, PTL DEF Spec, Inv
=============================================================================
