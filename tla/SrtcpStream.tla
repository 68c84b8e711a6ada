---------------------------- MODULE SrtcpStream ----------------------------
(***************************************************************************)
(* The RTCP half of one stream: asrtpa_protect_rtcp at the sender and     *)
(* asrtpa_unprotect_rtcp at the receiver, over a network an attacker      *)
(* controls (replays, reordering, forged tags, and flipped bits in the    *)
(* clear SRTCP index word).                                                *)
(*                                                                         *)
(* Unlike RTP, the SRTCP packet index is explicit: the sender keeps a     *)
(* 31-bit counter and writes it into the packet under SRTCP_INDEX_MASK,   *)
(* with SRTCP_E_BIT set when the packet is encrypted.  The receiver takes *)
(* the index from that word, checks its replay window, checks the tag     *)
(* (computed over the packet and the whole word), and decrypts when the   *)
(* E bit says so.  IndexSpace stands for 2^31 and the E bit is the bit    *)
(* above the mask; RtcpWindow is the receiver's window size.  Both sides  *)
(* count packets against the key's hard limit (spec 4.4 steps 3 and 7).   *)
(***************************************************************************)
EXTENDS Integers, FiniteSets

CONSTANTS IndexSpace,  \* 2^31: SRTCP index values (SRTCP_INDEX_MASK + 1)
          RtcpWindow,  \* receiver's replay window, in indices
          SecServ,     \* sec_serv of the stream's RTCP crypto policy
          HardLimit    \* hard key-usage limit (packets)

ASSUME SrtcpAssumption ==
    /\ IndexSpace \in Nat \ {0}
    /\ RtcpWindow \in Nat \ {0}
    /\ SecServ \in {"sec_serv_none", "sec_serv_conf", "sec_serv_auth",
                    "sec_serv_conf_and_auth"}
    /\ HardLimit \in Nat

\* The replay window of SrtpIndex, sized for SRTCP.
Win == INSTANCE SrtpIndex WITH SeqSpace <- 2 * RtcpWindow, RocSpace <- 1

EBit == IndexSpace                  \* SRTCP_E_BIT
IndexMask == IndexSpace - 1         \* SRTCP_INDEX_MASK
Words == 0 .. (2 * IndexSpace - 1)  \* the 32-bit E || index word

IndexOf(w) == w % IndexSpace        \* word & SRTCP_INDEX_MASK
EOf(w) == w \div EBit = 1           \* word & SRTCP_E_BIT

Encrypts == SecServ \in {"sec_serv_conf", "sec_serv_conf_and_auth"}
AuthOn == SecServ \in {"sec_serv_auth", "sec_serv_conf_and_auth"}

NoMac == -1

\* The history number of a forged packet: no protect call has it, since
\* the sender makes fewer than HardLimit calls.
Forged == HardLimit

\* An SRTCP packet: its index word, the word its tag was computed over
\* (NoMac for a forged tag), and (history fields) the number n of the
\* sender's protect call that produced it and whether it encrypted it.
RtcpPackets == [word : Words, mac : Words \cup {NoMac}, n : 0 .. Forged, enc : BOOLEAN]

Sides == {"sender", "receiver"}

VARIABLES sndIndex,  \* the sender's next SRTCP index
          used,      \* used[s]: packets processed under side s's key
          net,       \* every packet the sender emitted
          rcvFresh,  \* the receiver has accepted no packet yet
          rcvHi,     \* the receiver's highest accepted index
          rcvSeen,   \* indices marked in the receiver's bitmap
          accepted,  \* accepted[n]: times the receiver accepted packet n
          delivered, \* <<n, sent encrypted, decrypted>> of each accepted packet
          result     \* result[s]: err_status of side s's last call

rtcpVars == <<sndIndex, used, net, rcvFresh, rcvHi, rcvSeen, accepted, delivered, result>>

TypeOK ==
    /\ sndIndex \in 0 .. IndexMask
    /\ used \in [Sides -> 0 .. HardLimit]
    /\ net \subseteq RtcpPackets
    /\ rcvFresh \in BOOLEAN
    /\ rcvHi \in 0 .. IndexMask
    /\ rcvSeen \subseteq 0 .. IndexMask
    /\ accepted \in [0 .. Forged -> Nat]
    /\ delivered \subseteq ((0 .. Forged) \X BOOLEAN \X BOOLEAN)
    /\ result \in [Sides -> {"none", "ok", "key_expired", "replay_fail", "auth_fail"}]

Init ==
    /\ sndIndex = 0
    /\ used = [s \in Sides |-> 0]
    /\ net = {}
    /\ rcvFresh = TRUE
    /\ rcvHi = 0
    /\ rcvSeen = {}
    /\ accepted = [n \in 0 .. Forged |-> 0]
    /\ delivered = {}
    /\ result = [s \in Sides |-> "none"]

\* Mutant: the hard limit tested with > instead of >=.
RtcpExpiredLate(s) == used[s] > HardLimit

RtcpExpired(s) == used[s] >= HardLimit

\* A call on an expired stream fails with key_expired and changes nothing
\* else.
RejectExpired(s) ==
    /\ RtcpExpired(s)
    /\ result' = [result EXCEPT ![s] = "key_expired"]
    /\ UNCHANGED <<sndIndex, used, net, rcvFresh, rcvHi, rcvSeen, accepted, delivered>>

\* Mutant: the index counter incremented without the 31-bit mask.
NextIndexUnmasked(i) == i + 1

\* The sender's index after a packet: incremented under SRTCP_INDEX_MASK.
NextIndex(i) == (i + 1) % IndexSpace

\* asrtpa_protect_rtcp: the packet gets the current index, the E bit if
\* the policy encrypts, and a tag over the word if it authenticates.
ProtectRtcp ==
    LET w == (IF Encrypts THEN EBit ELSE 0) + sndIndex
    IN  /\ ~RtcpExpired("sender")
        /\ net' = net \cup {[word |-> w, mac |-> IF AuthOn THEN w ELSE NoMac,
                             n |-> used["sender"], enc |-> Encrypts]}
        /\ sndIndex' = NextIndex(sndIndex)
        /\ used' = [used EXCEPT !["sender"] = @ + 1]
        /\ result' = [result EXCEPT !["sender"] = "ok"]
        /\ UNCHANGED <<rcvFresh, rcvHi, rcvSeen, accepted, delivered>>

\* A packet as the attacker passes it on: with SRTCP_E_BIT of its word
\* flipped when f holds.
FlipE(m, f) == [m EXCEPT !.word = IF f THEN (@ + EBit) % (2 * EBit) ELSE @]

\* A packet the sender emitted, possibly with the E bit of its word flipped.
Passed == {FlipE(p, f) : p \in net, f \in BOOLEAN}

\* A packet the attacker made up: any word, no valid tag.
Forgeries == [word : Words, mac : {NoMac}, n : {Forged}, enc : {FALSE}]

\* What reaches the receiver.
Arrivals == Passed \cup Forgeries

\* Mutant: the tag covers the index but not the E bit.
RtcpAuthenticIndexOnly(m) ==
    ~AuthOn \/ (m.mac # NoMac /\ IndexOf(m.mac) = IndexOf(m.word))

\* The tag verifies only if it was computed over this very word.
RtcpAuthentic(m) == ~AuthOn \/ m.mac = m.word

UnprotectRtcpResult(m) ==
    IF ~rcvFresh /\ Win!ReplayCheck(rcvHi, rcvSeen, IndexOf(m.word)) # "accept"
    THEN "replay_fail"
    ELSE IF ~RtcpAuthentic(m) THEN "auth_fail"
    ELSE "ok"

\* asrtpa_unprotect_rtcp: replay check on the index of the word, then the
\* tag; on success the window takes the index and the payload is
\* decrypted if the word's E bit is set.
UnprotectRtcp(m) ==
    LET i == IndexOf(m.word)
    IN  /\ ~RtcpExpired("receiver")
        /\ result' = [result EXCEPT !["receiver"] = UnprotectRtcpResult(m)]
        /\ \/ /\ UnprotectRtcpResult(m) = "ok"
              /\ rcvFresh' = FALSE
              /\ rcvHi' = IF rcvFresh THEN i ELSE Win!ReplayHigh(rcvHi, i)
              /\ rcvSeen' = IF rcvFresh THEN {i} ELSE Win!ReplaySeen(rcvHi, rcvSeen, i)
              /\ used' = [used EXCEPT !["receiver"] = @ + 1]
              /\ accepted' = [accepted EXCEPT ![m.n] = @ + 1]
              /\ delivered' = delivered \cup {<<m.n, m.enc, EOf(m.word)>>}
           \/ /\ UnprotectRtcpResult(m) # "ok"
              /\ UNCHANGED <<rcvFresh, rcvHi, rcvSeen, used, accepted, delivered>>
        /\ UNCHANGED <<sndIndex, net>>

Next ==
    \/ ProtectRtcp
    \/ RejectExpired("sender")
    \/ \E m \in Arrivals : UnprotectRtcp(m)
    \/ RejectExpired("receiver")

Spec == Init /\ [][Next]_rtcpVars

-----------------------------------------------------------------------------
\* SRTCP replay protection (asrtpa_unprotect_rtcp returns replay_fail for
\* a packet "already processed and accepted"): whatever the attacker
\* replays or reorders, the receiver accepts each SRTCP packet the sender
\* protected at most once.  It rests on the index written under
\* SRTCP_INDEX_MASK being unique and on the window sliding correctly.
RtcpReplayProtected == \A n \in 0 .. Forged - 1 : accepted[n] <= 1

\* Spec 8 tamper detection, for SRTCP's clear E bit: with authentication
\* on, no forged packet is accepted, and every accepted packet is
\* decrypted exactly when its sender encrypted it -- an attacker who flips
\* SRTCP_E_BIT cannot make the receiver skip or add a decryption.
RtcpAcceptedAsSent ==
    AuthOn => \A d \in delivered : d[1] # Forged /\ d[3] = d[2]

\* No two packets protected under one key carry the same SRTCP index
\* (the keystream position and the replay index): the sender's key
\* expires before its masked 31-bit counter wraps.
NoRtcpIndexReuse ==
    \A p, q \in net : p.n # q.n => IndexOf(p.word) # IndexOf(q.word)
=============================================================================
