--------------------------- MODULE SrtcpStreamProofs ---------------------------
(***************************************************************************)
(* Proofs about SrtcpStream for every index space, window, key limit and  *)
(* security service: the type invariant, SRTCP replay protection, the     *)
(* E-bit integrity of accepted packets, and -- when the key expires before *)
(* the 31-bit index wraps -- that no SRTCP index is used twice.           *)
(***************************************************************************)
EXTENDS SrtcpStream, TLAPS

USE SrtcpAssumption

\* The index packet n of the sender is protected under: its number, masked.
IndexOfN(n) == n % IndexSpace

\* The index word the sender writes for an index.
WordOf(i) == (IF Encrypts THEN EBit ELSE 0) + i

\* The sender's index counter is its packet count under the mask.
SenderCounted == sndIndex = IndexOfN(used["sender"])

\* Every packet on the wire is the one the sender built for its number:
\* the masked index, the E bit of the policy, a tag over the word when
\* the policy authenticates.
SentWellFormed ==
    \A p \in net :
        /\ p.n < used["sender"]
        /\ p.word = WordOf(IndexOfN(p.n))
        /\ p.mac = (IF AuthOn THEN p.word ELSE NoMac)
        /\ p.enc = Encrypts

\* Every sender packet the receiver accepted has its index remembered by
\* the window: still marked, or too old to pass the replay check again.
RtcpAcceptedRemembered ==
    \A n \in 0 .. Forged - 1 :
        accepted[n] >= 1 =>
            /\ ~rcvFresh
            /\ \/ IndexOfN(n) \in rcvSeen
               \/ IndexOfN(n) <= rcvHi - Win!WindowSize

RtcpInv ==
    /\ TypeOK
    /\ SenderCounted
    /\ SentWellFormed
    /\ RtcpAcceptedRemembered
    /\ RtcpReplayProtected
    /\ RtcpAcceptedAsSent
-----------------------------------------------------------------------------
(* The SRTCP index word. *)

\* The masked index is an index.
LEMMA IndexOfNTyped ==
    ASSUME NEW n \in Int
    PROVE  IndexOfN(n) \in 0 .. IndexMask
BY SMT DEF IndexOfN, IndexMask

\* The word the sender writes carries the index under SRTCP_INDEX_MASK and
\* the policy's E bit in SRTCP_E_BIT.
LEMMA WordFields ==
    ASSUME NEW i \in 0 .. IndexMask
    PROVE  /\ WordOf(i) \in Words
           /\ IndexOf(WordOf(i)) = i
           /\ EOf(WordOf(i)) = Encrypts
<1>1. CASE Encrypts
  <2>1. WordOf(i) = IndexSpace + i
    BY <1>1 DEF WordOf, EBit
  <2>2. /\ IndexSpace + i \in Words
        /\ (IndexSpace + i) % IndexSpace = i
        /\ (IndexSpace + i) \div IndexSpace = 1
    BY SMT DEF IndexMask, Words
  <2>3. EOf(WordOf(i)) = TRUE
    BY <2>1, <2>2 DEF EOf, EBit
  <2>4. EOf(WordOf(i)) = Encrypts
    BY <1>1, <2>3 DEF Encrypts, EOf
  <2>5. QED
    BY <2>1, <2>2, <2>4 DEF IndexOf
<1>2. CASE ~Encrypts
  <2>1. WordOf(i) = i
    BY <1>2 DEF WordOf
  <2>2. /\ i \in Words
        /\ i % IndexSpace = i
        /\ i \div IndexSpace = 0
    BY SMT DEF IndexMask, Words
  <2>3. EOf(WordOf(i)) = FALSE
    BY <2>1, <2>2 DEF EOf, EBit
  <2>4. EOf(WordOf(i)) = Encrypts
    BY <1>2, <2>3 DEF Encrypts, EOf
  <2>5. QED
    BY <2>1, <2>2, <2>4 DEF IndexOf
<1>3. QED
  BY <1>1, <1>2

\* Flipping SRTCP_E_BIT changes the word and keeps its index.
LEMMA FlipFields ==
    ASSUME NEW w \in Words
    PROVE  LET v == (w + EBit) % (2 * EBit)
           IN  /\ v \in Words
               /\ v # w
               /\ IndexOf(v) = IndexOf(w)
<1>1. CASE w < IndexSpace
  <2>1. (w + IndexSpace) % (2 * IndexSpace) = w + IndexSpace
    BY <1>1, SMT DEF Words
  <2>2. (w + IndexSpace) % IndexSpace = w % IndexSpace
    BY <1>1, SMT DEF Words
  <2>3. QED
    BY <2>1, <2>2, SMT DEF Words, IndexOf, EBit
<1>2. CASE w >= IndexSpace
  <2>1. (w + IndexSpace) % (2 * IndexSpace) = w - IndexSpace
    BY <1>2, SMT DEF Words
  <2>2. (w - IndexSpace) % IndexSpace = w % IndexSpace
    BY <1>2, SMT DEF Words
  <2>3. QED
    BY <2>1, <2>2, SMT DEF Words, IndexOf, EBit
<1>3. QED
  BY <1>1, <1>2, SMT DEF Words
\* The next index under the mask is the masked next packet number.
LEMMA NextIndexCounts ==
    ASSUME NEW u \in Nat
    PROVE  NextIndex(IndexOfN(u)) = IndexOfN(u + 1)
<1> DEFINE q == u \div IndexSpace
           r == u % IndexSpace
<1>1. ASSUME NEW k \in Nat, NEW x \in 0 .. IndexSpace - 1
      PROVE  (k * IndexSpace + x) % IndexSpace = x
  BY SMT
<1>2. q \in Nat /\ r \in 0 .. IndexSpace - 1 /\ u = q * IndexSpace + r
  BY SMT
<1>3. CASE r + 1 < IndexSpace
  <2>1. (r + 1) % IndexSpace = r + 1
    BY <1>3, <1>2, SMT
  <2>0. r + 1 \in 0 .. IndexSpace - 1
    BY <1>3, <1>2, SMT
  <2>2. (q * IndexSpace + (r + 1)) % IndexSpace = r + 1
    BY <2>0, <1>2, <1>1, Zenon
  <2>3. QED
    BY <1>2, <2>1, <2>2, SMT DEF NextIndex, IndexOfN
<1>4. CASE r + 1 = IndexSpace
  <2>1. (r + 1) % IndexSpace = 0
    BY <1>4, SMT
  <2>2. ((q + 1) * IndexSpace + 0) % IndexSpace = 0
    BY <1>2, <1>1
  <2>3. u + 1 = (q + 1) * IndexSpace + 0
    BY <1>2, <1>4, SMT
  <2>4. QED
    BY <2>1, <2>2, <2>3 DEF NextIndex, IndexOfN
<1>5. QED
  BY <1>2, <1>3, <1>4, SMT

-----------------------------------------------------------------------------
(* The SRTCP replay window. *)

\* SrtpIndex instantiated for SRTCP has a window of RtcpWindow indices.
LEMMA RtcpWindowSize == Win!WindowSize = RtcpWindow
BY SMT DEF Win!WindowSize, Win!Half

\* The window update keeps the receiver's bitmap in the index space and
\* marks nothing but what was marked and the new index.
LEMMA RtcpWindowTyped ==
    ASSUME NEW h \in 0 .. IndexMask, NEW S \in SUBSET (0 .. IndexMask),
           NEW i \in 0 .. IndexMask
    PROVE  /\ Win!ReplayHigh(h, i) \in 0 .. IndexMask
           /\ Win!ReplaySeen(h, S, i) \subseteq S \cup {i}
BY DEF Win!ReplayHigh, Win!ReplaySeen

\* Updating the window with i forgets nothing it must remember.
LEMMA RtcpWindowRemembers ==
    ASSUME NEW h \in Int, NEW S \in SUBSET Int, NEW i \in Int, NEW j \in Int,
           j \in S \/ j <= h - RtcpWindow \/ j = i
    PROVE  j \in Win!ReplaySeen(h, S, i) \/ j <= Win!ReplayHigh(h, i) - RtcpWindow
<1>1. CASE i > h
  BY <1>1, RtcpWindowSize, SMT DEF Win!ReplaySeen, Win!ReplayHigh
<1>2. CASE ~(i > h)
  BY <1>2 DEF Win!ReplaySeen, Win!ReplayHigh
<1>3. QED
  BY <1>1, <1>2

\* An index the replay check accepts is inside the window and unmarked.
LEMMA RtcpReplayAccept ==
    ASSUME NEW h, NEW S, NEW i, Win!ReplayCheck(h, S, i) = "accept"
    PROVE  ~(i <= h - RtcpWindow) /\ i \notin S
BY RtcpWindowSize DEF Win!ReplayCheck

-----------------------------------------------------------------------------
(* Steps. *)

\* The initial state satisfies RtcpInv.
LEMMA RtcpInit == Init => RtcpInv
<1> SUFFICES ASSUME Init PROVE RtcpInv
  OBVIOUS
<1>1. 0 \in 0 .. IndexMask /\ Forged \in Nat /\ IndexOfN(0) = 0
  BY SMT DEF IndexMask, Forged, IndexOfN
<1>2. TypeOK
  BY <1>1 DEF Init, TypeOK, Sides
<1>3. QED
  BY <1>1, <1>2
     DEF Init, Sides, RtcpInv, SenderCounted, SentWellFormed, RtcpAcceptedRemembered,
         RtcpReplayProtected, RtcpAcceptedAsSent

\* asrtpa_protect_rtcp keeps RtcpInv: the new packet is built for the
\* sender's count, which then goes up by one with the masked index.
LEMMA RtcpProtectStep ==
    ASSUME RtcpInv, ProtectRtcp
    PROVE  RtcpInv'
<1> USE DEF RtcpInv
<1> DEFINE u == used["sender"]
           w == (IF Encrypts THEN EBit ELSE 0) + sndIndex
           p0 == [word |-> w, mac |-> IF AuthOn THEN w ELSE NoMac,
                  n |-> u, enc |-> Encrypts]
<1>1. /\ net' = net \cup {p0}
      /\ sndIndex' = NextIndex(sndIndex)
      /\ used' = [used EXCEPT !["sender"] = u + 1]
      /\ UNCHANGED <<rcvFresh, rcvHi, rcvSeen, accepted, delivered>>
  BY DEF ProtectRtcp
<1>2. u \in 0 .. HardLimit /\ u < HardLimit
  BY DEF ProtectRtcp, RtcpExpired, TypeOK, Sides
<1>3. sndIndex = IndexOfN(u) /\ sndIndex \in 0 .. IndexMask
  BY DEF SenderCounted, TypeOK
<1>4. w = WordOf(IndexOfN(u)) /\ w \in Words
  BY <1>3, WordFields DEF WordOf
<1>5. sndIndex' = IndexOfN(u + 1) /\ IndexOfN(u + 1) \in 0 .. IndexMask
  BY <1>1, <1>2, <1>3, NextIndexCounts, IndexOfNTyped
<1>6. used'["sender"] = u + 1 /\ used'["receiver"] = used["receiver"]
  BY <1>1 DEF TypeOK, Sides
<1>7. TypeOK'
  <2>1. p0 \in RtcpPackets
    <3>1. p0.word \in Words /\ p0.mac \in Words \cup {NoMac}
      BY <1>4
    <3>2. p0.n \in 0 .. Forged /\ p0.enc \in BOOLEAN
      BY <1>2 DEF Forged, Encrypts
    <3>3. QED
      BY <3>1, <3>2 DEF RtcpPackets
  <2>2. used' \in [Sides -> 0 .. HardLimit]
    BY <1>1, <1>2, SMT DEF TypeOK, Sides
  <2>3. QED
    BY <1>1, <1>5, <2>1, <2>2 DEF TypeOK, ProtectRtcp
<1>8. SenderCounted'
  BY <1>5, <1>6 DEF SenderCounted
<1>9. SentWellFormed'
  <2>1. \A p \in net : p.n < u + 1
    BY <1>2, SMT DEF SentWellFormed, TypeOK, RtcpPackets
  <2>2. /\ p0.n < u + 1
        /\ p0.word = WordOf(IndexOfN(p0.n))
        /\ p0.mac = (IF AuthOn THEN p0.word ELSE NoMac)
        /\ p0.enc = Encrypts
    BY <1>2, <1>4, SMT
  <2>3. QED
    BY <1>1, <1>6, <2>1, <2>2 DEF SentWellFormed
<1>10. QED
  BY <1>1, <1>7, <1>8, <1>9
     DEF RtcpAcceptedRemembered, RtcpReplayProtected, RtcpAcceptedAsSent
\* A refused call changes only the caller's result.
LEMMA RtcpRejectStep ==
    ASSUME RtcpInv, NEW s \in Sides, RejectExpired(s)
    PROVE  RtcpInv'
BY DEF RtcpInv, RejectExpired, TypeOK, SenderCounted, SentWellFormed,
       RtcpAcceptedRemembered, RtcpReplayProtected, RtcpAcceptedAsSent

\* A packet of the sender, as it reaches the receiver with or without its
\* E bit flipped: the same number, tag and policy bit, the same index, and
\* a different word exactly when the bit was flipped.
LEMMA SentArrival ==
    ASSUME TypeOK, NEW p \in net, NEW f \in BOOLEAN
    PROVE  LET m == FlipE(p, f)
           IN  /\ m.n = p.n /\ m.mac = p.mac /\ m.enc = p.enc
               /\ m.word \in Words
               /\ IndexOf(m.word) = IndexOf(p.word)
               /\ f => m.word # p.word
<1> DEFINE m == FlipE(p, f)
<1>1. p \in RtcpPackets
  BY DEF TypeOK
<1>2. p.word \in Words
  BY <1>1 DEF RtcpPackets
<1>3. m.n = p.n /\ m.mac = p.mac /\ m.enc = p.enc
      /\ m.word = IF f THEN (p.word + EBit) % (2 * EBit) ELSE p.word
  BY <1>1 DEF RtcpPackets, FlipE
<1>4. QED
  BY <1>2, <1>3, FlipFields

\* What arrives at the receiver: a forgery, with no valid tag and the
\* forged number, or a sender packet possibly with its E bit flipped.
LEMMA ArrivalCases ==
    ASSUME TypeOK, NEW m \in Arrivals
    PROVE  \/ /\ m.n = Forged /\ m.mac = NoMac /\ m.word \in Words
              /\ m.enc = FALSE
           \/ \E p \in net, f \in BOOLEAN :
                 m = FlipE(p, f)
<1>1. m \in Passed \/ m \in Forgeries
  BY DEF Arrivals
<1>2. CASE m \in Forgeries
  BY <1>2 DEF Forgeries
<1>3. CASE m \in Passed
  BY <1>3 DEF Passed
<1>4. QED
  BY <1>1, <1>2, <1>3

\* asrtpa_unprotect_rtcp keeps RtcpInv.
LEMMA RtcpUnprotectStep ==
    ASSUME RtcpInv, NEW m \in Arrivals, UnprotectRtcp(m)
    PROVE  RtcpInv'
<1> USE DEF RtcpInv
<1> DEFINE i == IndexOf(m.word)
<1>1. CASE UnprotectRtcpResult(m) # "ok"
  <2>1. UNCHANGED <<sndIndex, used, net, rcvFresh, rcvHi, rcvSeen, accepted, delivered>>
    BY <1>1 DEF UnprotectRtcp
  <2>2. result' \in [Sides -> {"none", "ok", "key_expired", "replay_fail", "auth_fail"}]
    BY DEF UnprotectRtcp, UnprotectRtcpResult, TypeOK
  <2>3. QED
    BY <2>1, <2>2 DEF TypeOK, SenderCounted, SentWellFormed,
                      RtcpAcceptedRemembered, RtcpReplayProtected,
                      RtcpAcceptedAsSent
<1>2. CASE UnprotectRtcpResult(m) = "ok"
  <2>1. /\ rcvFresh' = FALSE
        /\ rcvHi' = IF rcvFresh THEN i ELSE Win!ReplayHigh(rcvHi, i)
        /\ rcvSeen' = IF rcvFresh THEN {i} ELSE Win!ReplaySeen(rcvHi, rcvSeen, i)
        /\ used' = [used EXCEPT !["receiver"] = @ + 1]
        /\ accepted' = [accepted EXCEPT ![m.n] = @ + 1]
        /\ delivered' = delivered \cup {<<m.n, m.enc, EOf(m.word)>>}
        /\ result' = [result EXCEPT !["receiver"] = "ok"]
        /\ UNCHANGED <<sndIndex, net>>
    BY <1>2 DEF UnprotectRtcp
  <2>2. m.word \in Words /\ m.n \in 0 .. Forged /\ m.enc \in BOOLEAN
    <3>1. CASE m.n = Forged /\ m.mac = NoMac /\ m.word \in Words /\ m.enc = FALSE
      <4>1. Forged \in 0 .. Forged
        BY SMT DEF Forged
      <4>2. QED
        BY <3>1, <4>1
    <3>2. CASE \E p \in net, f \in BOOLEAN :
                 m = FlipE(p, f)
      BY <3>2, SentArrival DEF TypeOK, RtcpPackets
    <3>3. QED
      BY <3>1, <3>2, ArrivalCases
  <2>3. i \in 0 .. IndexMask
    BY <2>2, SMT DEF IndexOf, IndexMask, Words
  <2>4. ~rcvFresh => Win!ReplayCheck(rcvHi, rcvSeen, i) = "accept"
    BY <1>2 DEF UnprotectRtcpResult
  <2>5. RtcpAuthentic(m)
    BY <1>2 DEF UnprotectRtcpResult
  \* The receiver's window after the call remembers what it remembered,
  \* and i.
  <2>6. ASSUME NEW j \in Int,
               \/ j = i
               \/ ~rcvFresh /\ (j \in rcvSeen \/ j <= rcvHi - RtcpWindow)
        PROVE  j \in rcvSeen' \/ j <= rcvHi' - RtcpWindow
    <3>1. CASE rcvFresh
      BY <3>1, <2>1, <2>6
    <3>2. CASE ~rcvFresh
      <4>1. rcvHi \in Int /\ rcvSeen \subseteq Int /\ i \in Int
        BY <2>3 DEF TypeOK
      <4>2. j \in rcvSeen \/ j <= rcvHi - RtcpWindow \/ j = i
        BY <3>2, <2>6
      <4>3. QED
        BY <3>2, <2>1, <4>1, <4>2, RtcpWindowRemembers
    <3>3. QED
      BY <3>1, <3>2
  <2>7. TypeOK'
    <3>1. used["receiver"] < HardLimit
      BY DEF UnprotectRtcp, RtcpExpired, TypeOK, Sides
    <3>2. used' \in [Sides -> 0 .. HardLimit]
      BY <2>1, <3>1, SMT DEF TypeOK, Sides
    <3>3. rcvHi' \in 0 .. IndexMask /\ rcvSeen' \subseteq 0 .. IndexMask
      <4>1. CASE rcvFresh
        BY <4>1, <2>1, <2>3
      <4>2. CASE ~rcvFresh
        <5>1. /\ Win!ReplayHigh(rcvHi, i) \in 0 .. IndexMask
              /\ Win!ReplaySeen(rcvHi, rcvSeen, i) \subseteq rcvSeen \cup {i}
          BY <2>3, RtcpWindowTyped DEF TypeOK
        <5>2. QED
          BY <4>2, <5>1, <2>1, <2>3 DEF TypeOK
      <4>3. QED
        BY <4>1, <4>2
    <3>4. accepted' \in [0 .. Forged -> Nat]
      BY <2>1, <2>2 DEF TypeOK
    <3>5. <<m.n, m.enc, EOf(m.word)>> \in (0 .. Forged) \X BOOLEAN \X BOOLEAN
      BY <2>2 DEF EOf
    <3>6. QED
      BY <2>1, <3>2, <3>3, <3>4, <3>5 DEF TypeOK, Sides
  <2>8. SenderCounted' /\ SentWellFormed'
    BY <2>1, <2>7 DEF SenderCounted, SentWellFormed, TypeOK, Sides
  <2>9. CASE m.n = Forged /\ m.mac = NoMac /\ m.word \in Words /\ m.enc = FALSE
    <3>1. \A n \in 0 .. Forged - 1 : accepted'[n] = accepted[n]
      BY <2>1, <2>9, SMT DEF TypeOK, Forged
    <3>2. RtcpAcceptedRemembered'
      <4> SUFFICES ASSUME NEW n \in 0 .. Forged - 1, accepted'[n] >= 1
                   PROVE  IndexOfN(n) \in rcvSeen' \/ IndexOfN(n) <= rcvHi' - RtcpWindow
        BY <2>1, RtcpWindowSize DEF RtcpAcceptedRemembered
      <4>1. ~rcvFresh /\ (IndexOfN(n) \in rcvSeen \/ IndexOfN(n) <= rcvHi - RtcpWindow)
        BY <3>1, RtcpWindowSize DEF RtcpAcceptedRemembered
      <4>2. IndexOfN(n) \in Int
        BY IndexOfNTyped
      <4>3. QED
        BY <4>1, <4>2, <2>6
    <3>3. RtcpReplayProtected'
      BY <3>1 DEF RtcpReplayProtected
    <3>4. ~AuthOn
      BY <2>5, <2>9, SMT DEF RtcpAuthentic, NoMac, Words
    <3>5. QED
      BY <2>7, <2>8, <3>2, <3>3, <3>4 DEF RtcpAcceptedAsSent
  <2>10. CASE \E p \in net, f \in BOOLEAN :
                 m = FlipE(p, f)
    <3>1. PICK p \in net, f \in BOOLEAN :
                 m = FlipE(p, f)
      BY <2>10
    <3>2. /\ m.n = p.n /\ m.mac = p.mac /\ m.enc = p.enc
          /\ IndexOf(m.word) = IndexOf(p.word)
          /\ f => m.word # p.word
      BY <3>1, SentArrival
    <3>3. /\ p.n < used["sender"]
          /\ p.word = WordOf(IndexOfN(p.n))
          /\ p.mac = (IF AuthOn THEN p.word ELSE NoMac)
          /\ p.enc = Encrypts
      BY DEF SentWellFormed
    <3>4. p.n \in 0 .. Forged - 1
      BY <3>3, SMT DEF TypeOK, Sides, RtcpPackets, Forged
    <3>5. i = IndexOfN(p.n) /\ EOf(p.word) = Encrypts
      <4>1. IndexOfN(p.n) \in 0 .. IndexMask
        BY <3>4, IndexOfNTyped
      <4>2. /\ IndexOf(WordOf(IndexOfN(p.n))) = IndexOfN(p.n)
            /\ EOf(WordOf(IndexOfN(p.n))) = Encrypts
        BY <4>1, WordFields
      <4>3. QED
        BY <3>2, <3>3, <4>2
    <3>6. accepted[p.n] = 0
      <4>0. accepted[p.n] \in Nat
        BY <3>4, SMT DEF TypeOK, Forged
      <4>1. SUFFICES ASSUME accepted[p.n] >= 1 PROVE FALSE
        BY <4>0, SMT
      <4>2. ~rcvFresh /\ (i \in rcvSeen \/ i <= rcvHi - RtcpWindow)
        BY <4>1, <3>4, <3>5, RtcpWindowSize DEF RtcpAcceptedRemembered
      <4>3. QED
        BY <4>2, <2>4, RtcpReplayAccept
    <3>7. RtcpReplayProtected' /\ RtcpAcceptedRemembered'
      <4>1. accepted' = [accepted EXCEPT ![p.n] = 1]
        BY <2>1, <3>2, <3>6
      <4>2. RtcpReplayProtected'
        BY <4>1, <3>4 DEF RtcpReplayProtected, TypeOK
      <4>3. RtcpAcceptedRemembered'
        <5> SUFFICES ASSUME NEW n \in 0 .. Forged - 1, accepted'[n] >= 1
                     PROVE  IndexOfN(n) \in rcvSeen' \/ IndexOfN(n) <= rcvHi' - RtcpWindow
          BY <2>1, RtcpWindowSize DEF RtcpAcceptedRemembered
        <5>1. IndexOfN(n) \in Int
          BY IndexOfNTyped
        <5>2. CASE n = p.n
          <6>1. IndexOfN(n) = i
            BY <5>2, <3>5
          <6>2. QED
            BY <5>1, <6>1, <2>6
        <5>3. CASE n # p.n
          <6>1. accepted[n] >= 1
            BY <5>3, <4>1
          <6>2. ~rcvFresh /\ (IndexOfN(n) \in rcvSeen \/ IndexOfN(n) <= rcvHi - RtcpWindow)
            BY <6>1, RtcpWindowSize DEF RtcpAcceptedRemembered
          <6>3. QED
            BY <5>1, <6>2, <2>6
        <5>4. QED
          BY <5>2, <5>3
      <4>4. QED
        BY <4>2, <4>3
    <3>8. RtcpAcceptedAsSent'
      <4>1. SUFFICES ASSUME AuthOn
                     PROVE  /\ m.n # Forged
                            /\ EOf(m.word) = m.enc
        BY <2>1 DEF RtcpAcceptedAsSent
      <4>2. m.mac = m.word
        BY <4>1, <2>5 DEF RtcpAuthentic
      <4>3. m.word = p.word
        BY <4>1, <4>2, <3>2, <3>3
      <4>4. EOf(p.word) = Encrypts
        BY <3>5
      <4>5. QED
        BY <4>3, <4>4, <3>2, <3>3, <3>4, SMT
    <3>9. QED
      BY <2>7, <2>8, <3>7, <3>8
  <2>11. QED
    BY <2>9, <2>10, ArrivalCases DEF TypeOK
<1>3. QED
  BY <1>1, <1>2
-----------------------------------------------------------------------------
(* The invariant and the theorems. *)

\* Every step of the SRTCP stream keeps RtcpInv.
LEMMA RtcpStep == RtcpInv /\ [Next]_rtcpVars => RtcpInv'
<1> SUFFICES ASSUME RtcpInv, [Next]_rtcpVars PROVE RtcpInv'
  OBVIOUS
<1>1. CASE ProtectRtcp
  BY <1>1, RtcpProtectStep
<1>2. CASE RejectExpired("sender")
  BY <1>2, RtcpRejectStep DEF Sides
<1>3. CASE RejectExpired("receiver")
  BY <1>3, RtcpRejectStep DEF Sides
<1>4. CASE \E m \in Arrivals : UnprotectRtcp(m)
  BY <1>4, RtcpUnprotectStep
<1>5. CASE UNCHANGED rtcpVars
  BY <1>5 DEF rtcpVars, RtcpInv, TypeOK, SenderCounted, SentWellFormed,
              RtcpAcceptedRemembered, RtcpReplayProtected, RtcpAcceptedAsSent,
              IndexOfN, WordOf, Encrypts, AuthOn
<1>6. QED
  BY <1>1, <1>2, <1>3, <1>4, <1>5 DEF Next

LEMMA RtcpInvariant == Spec => []RtcpInv
BY RtcpInit, RtcpStep, PTL DEF Spec

\* Type correctness of the SRTCP stream: the sender's masked index, the
\* counters under the hard limit, the packets on the wire and the
\* receiver's window keep their types through every call of
\* asrtpa_protect_rtcp and asrtpa_unprotect_rtcp, for every index space,
\* window, policy and limit.
THEOREM RtcpTypeCorrect == Spec => []TypeOK
BY RtcpInvariant, PTL DEF RtcpInv

\* SRTCP replay protection for every index space, window size, policy and
\* hard limit: asrtpa_unprotect_rtcp accepts each packet the sender
\* protected at most once, however the attacker replays, reorders, forges
\* or flips the E bit.
THEOREM RtcpReplayProtection == Spec => []RtcpReplayProtected
BY RtcpInvariant, PTL DEF RtcpInv

\* With authentication on, asrtpa_unprotect_rtcp never accepts a forgery
\* and decrypts an accepted packet exactly when its sender encrypted it,
\* whatever the attacker does to SRTCP_E_BIT.
THEOREM RtcpEBitIntegrity == Spec => []RtcpAcceptedAsSent
BY RtcpInvariant, PTL DEF RtcpInv

\* The index a sender packet carries is its number, masked.
LEMMA SentIndex ==
    ASSUME RtcpInv, NEW p \in net
    PROVE  /\ p.n \in 0 .. used["sender"] - 1
           /\ IndexOf(p.word) = IndexOfN(p.n)
<1>1. p \in RtcpPackets /\ used["sender"] \in 0 .. HardLimit
  BY DEF RtcpInv, TypeOK, Sides
<1>2. p.n \in 0 .. used["sender"] - 1
  BY <1>1 DEF RtcpInv, SentWellFormed, RtcpPackets, Forged
<1>3. IndexOfN(p.n) \in 0 .. IndexMask
  BY <1>2, IndexOfNTyped
<1>4. p.word = WordOf(IndexOfN(p.n))
  BY DEF RtcpInv, SentWellFormed
<1>5. QED
  BY <1>2, <1>3, <1>4, WordFields

\* SRTCP index reuse is exactly the wrap of the masked counter: two packets
\* protected under one key carry the same SRTCP index if and only if their
\* packet numbers agree modulo the index space.  It holds for every hard
\* limit.  The header's only limit is 2^48 packets, so with
\* SRTCP_INDEX_MASK's 2^31 indices the index does repeat under one key, at
\* packet 2^31 and no earlier; srtcp_index_wrap shows that repeat.
IndexReuseOnlyAtWrap ==
    \A p, q \in net :
        IndexOf(p.word) = IndexOf(q.word) <=> p.n % IndexSpace = q.n % IndexSpace

THEOREM RtcpIndexReuseIsWrap == Spec => []IndexReuseOnlyAtWrap
<1>1. RtcpInv => IndexReuseOnlyAtWrap
  <2> SUFFICES ASSUME RtcpInv, NEW p \in net, NEW q \in net
               PROVE  IndexOf(p.word) = IndexOf(q.word)
                          <=> p.n % IndexSpace = q.n % IndexSpace
    BY DEF IndexReuseOnlyAtWrap
  <2>1. IndexOf(p.word) = IndexOfN(p.n) /\ IndexOf(q.word) = IndexOfN(q.n)
    BY SentIndex
  <2>2. QED
    BY <2>1 DEF IndexOfN
<1>2. QED
  BY <1>1, RtcpInvariant, PTL
=====
