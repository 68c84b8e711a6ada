----------------------------- MODULE SrtpStream -----------------------------
(***************************************************************************)
(* One SRTP stream (one SSRC) between a sending session, which calls       *)
(* asrtpa_protect(), and a receiving session, which calls                  *)
(* asrtpa_unprotect(), over a network controlled by an attacker: every     *)
(* packet ever sent stays available to be delivered again, in any order,  *)
(* and packets with a forged or tampered tag can be injected at will.     *)
(*                                                                         *)
(* Each side keeps the StreamContext state that protect/unprotect mutate: *)
(* the high-water index and replay window, the key-usage counter and the  *)
(* expired flag, and the events raised for the stream.  Cryptography is   *)
(* abstract: a packet records the index its tag was computed over (the    *)
(* MAC covers header, payload and ROC), or NoMac when its tag is not one  *)
(* the sender produced.                                                    *)
(***************************************************************************)
EXTENDS SrtpIndex, FiniteSets

CONSTANTS SecServ,      \* sec_serv of the stream's RTP crypto policy
          SoftLimit,    \* soft key-usage limit (packets)
          HardLimit,    \* hard key-usage limit (packets), at most 2^48
          Data,         \* payloads the application sends
          MaxPackets    \* bound: packets the application protects

SecServices == {"sec_serv_none", "sec_serv_conf", "sec_serv_auth",
                "sec_serv_conf_and_auth"}

ASSUME SecServAssumption == SecServ \in SecServices
ASSUME LimitAssumption ==
    /\ SoftLimit \in Nat /\ HardLimit \in Nat
    /\ 0 < SoftLimit /\ SoftLimit < HardLimit
    /\ HardLimit <= SeqSpace * RocSpace
ASSUME MaxPacketsAssumption == MaxPackets \in Nat

Sides == {"sender", "receiver"}

EventKinds == {"event_ssrc_collision", "event_key_soft_limit",
               "event_key_hard_limit", "event_packet_index_limit"}

Results == {"none", "ok", "key_expired", "seq_out_of_range",
            "replay_fail", "auth_fail"}

NoMac == -1

AuthOn == SecServ \in {"sec_serv_auth", "sec_serv_conf_and_auth"}

\* A packet on the wire: its sequence number, the index its tag binds it
\* to (NoMac if the tag is forged), its payload, and (a history field) the
\* index the application meant it to have.
Packets == [seq : 0 .. (SeqSpace - 1), mac : Indices \cup {NoMac},
            data : Data, app : Indices \cup {NoMac}]

\* What an attacker can inject without the session keys.
Forgeries == {[seq |-> s, mac |-> NoMac, data |-> d, app |-> NoMac] :
                s \in 0 .. (SeqSpace - 1), d \in Data}

VARIABLES fresh,     \* fresh[s]: side s has processed no packet yet
          hi,        \* hi[s]: highest index processed by side s
          seen,      \* seen[s]: indices marked in side s's replay bitmap
          used,      \* used[s]: packets processed under side s's key
          rejected,  \* rejected[s]: a call was refused as key_expired
          events,    \* events[s][k]: events of kind k raised for side s
          result,    \* result[s]: err_status of side s's last call
          net,       \* every packet the sender has emitted
          accepted   \* accepted[i]: times the receiver accepted index i

vars == <<fresh, hi, seen, used, rejected, events, result, net, accepted>>

TypeOK ==
    /\ fresh \in [Sides -> BOOLEAN]
    /\ hi \in [Sides -> Indices]
    /\ seen \in [Sides -> SUBSET Indices]
    /\ used \in [Sides -> 0 .. HardLimit]
    /\ rejected \in [Sides -> BOOLEAN]
    /\ events \in [Sides -> [EventKinds -> Nat]]
    /\ result \in [Sides -> Results]
    /\ net \subseteq Packets
    /\ accepted \in [Indices -> Nat]

Init ==
    /\ fresh = [s \in Sides |-> TRUE]
    /\ hi = [s \in Sides |-> 0]
    /\ seen = [s \in Sides |-> {}]
    /\ used = [s \in Sides |-> 0]
    /\ rejected = [s \in Sides |-> FALSE]
    /\ events = [s \in Sides |-> [k \in EventKinds |-> 0]]
    /\ result = [s \in Sides |-> "none"]
    /\ net = {}
    /\ accepted = [i \in Indices |-> 0]

-----------------------------------------------------------------------------
(***************************************************************************)
(* Key-usage limit (spec 4.4 steps 3 and 7).                               *)
(***************************************************************************)
\* Mutant: the hard limit tested with > instead of >=.
ExpiredLate(s) == used[s] > HardLimit

Expired(s) == used[s] >= HardLimit

\* The event that reports the hard limit: the packet-index limit when the
\* 2^48 packets of the index space are used up, the key limit otherwise.
HardEvent(n) == IF n = SeqSpace * RocSpace THEN "event_packet_index_limit"
                ELSE "event_key_hard_limit"

\* Step 7: count the packet; crossing the soft limit raises
\* key_soft_limit, reaching the hard limit raises the hard event and the
\* stream is expired from then on.
\* Mutant: the usage counter is not updated.
CountPacketSkipped(s) == UNCHANGED <<used, events>>

CountPacket(s) ==
    LET n == used[s] + 1
    IN  /\ used' = [used EXCEPT ![s] = n]
        /\ events' = [events EXCEPT
                        ![s]["event_key_soft_limit"] =
                            @ + (IF n = SoftLimit THEN 1 ELSE 0),
                        ![s][HardEvent(n)] =
                            @ + (IF n = HardLimit THEN 1 ELSE 0)]

\* Step 3: a call on an expired stream fails with key_expired; the first
\* such rejection raises the hard event.
RejectExpired(s) ==
    /\ Expired(s)
    /\ result' = [result EXCEPT ![s] = "key_expired"]
    /\ rejected' = [rejected EXCEPT ![s] = TRUE]
    /\ events' = IF rejected[s] THEN events
                 ELSE [events EXCEPT ![s][HardEvent(used[s])] = @ + 1]
    /\ UNCHANGED <<fresh, hi, seen, used, net, accepted>>

\* Step 4: the packet index of sequence number seq.  The first packet of
\* a stream anchors it: its index is its sequence number with ROC 0.
Estimate(s, seq) == IF fresh[s] THEN seq ELSE EstimateIndex(hi[s], seq)

\* The skew check of spec 4.4 (SequenceOutOfRange), against the
\* high-water mark once there is one.
OutOfRange(s, i) == ~fresh[s] /\ ~InRange(hi[s], i)

\* Step 7 of unprotect and the replay-window update: slide and mark i.
AdvanceWindow(s, i) ==
    /\ fresh' = [fresh EXCEPT ![s] = FALSE]
    /\ hi' = [hi EXCEPT ![s] = ReplayHigh(hi[s], i)]
    /\ seen' = [seen EXCEPT ![s] = ReplaySeen(hi[s], seen[s], i)]

-----------------------------------------------------------------------------
(***************************************************************************)
(* asrtpa_protect(): the application hands over a packet it means to have *)
(* index t; it carries sequence number SeqOf(t).  The header's contract   *)
(* is that presented packets are out of order by less than 2^15.          *)
(***************************************************************************)
Presentable(t) ==
    IF fresh["sender"] THEN t \in 0 .. (SeqSpace - 1)
    ELSE t \in Indices /\ Dist(t, hi["sender"]) < Half

\* Mutant: protect without the sender-side replay check.
ProtectResultNoReplay(t) ==
    LET i == Estimate("sender", SeqOf(t))
    IN  IF OutOfRange("sender", i) THEN "seq_out_of_range" ELSE "ok"

ProtectResult(t) ==
    LET i == Estimate("sender", SeqOf(t))
    IN  IF OutOfRange("sender", i) THEN "seq_out_of_range"
        ELSE IF ReplayCheck(hi["sender"], seen["sender"], i) # "accept"
             THEN "replay_fail"
        ELSE "ok"

ProtectOk(t, d) ==
    LET i == Estimate("sender", SeqOf(t))
    IN  /\ ~Expired("sender")
        /\ ProtectResult(t) = "ok"
        /\ AdvanceWindow("sender", i)
        /\ CountPacket("sender")
        /\ net' = net \cup {[seq |-> SeqOf(t), mac |-> i, data |-> d, app |-> t]}
        /\ result' = [result EXCEPT !["sender"] = "ok"]
        /\ UNCHANGED <<rejected, accepted>>

ProtectFail(t) ==
    /\ ~Expired("sender")
    /\ ProtectResult(t) # "ok"
    /\ result' = [result EXCEPT !["sender"] = ProtectResult(t)]
    /\ UNCHANGED <<fresh, hi, seen, used, rejected, events, net, accepted>>

Protect ==
    /\ Cardinality(net) < MaxPackets
    /\ \/ RejectExpired("sender")
       \/ \E t \in Indices, d \in Data :
             /\ Presentable(t)
             /\ ProtectOk(t, d) \/ ProtectFail(t)

(***************************************************************************)
(* asrtpa_unprotect(): the receiver is handed packet m.  The replay check *)
(* comes before the MAC; the window is updated only after the MAC holds.  *)
(***************************************************************************)
\* The MAC check: the tag verifies only if it was computed by the sender
\* over the index the receiver reconstructed.
\* Mutant: a genuine tag is accepted whatever index it was computed over.
AuthenticUnbound(m, i) == ~AuthOn \/ m.mac # NoMac

Authentic(m, i) == ~AuthOn \/ m.mac = i

UnprotectResult(m) ==
    LET i == Estimate("receiver", m.seq)
    IN  IF OutOfRange("receiver", i) THEN "seq_out_of_range"
        ELSE IF ReplayCheck(hi["receiver"], seen["receiver"], i) # "accept"
             THEN "replay_fail"
        ELSE IF ~Authentic(m, i) THEN "auth_fail"
        ELSE "ok"

UnprotectOk(m) ==
    LET i == Estimate("receiver", m.seq)
    IN  /\ ~Expired("receiver")
        /\ UnprotectResult(m) = "ok"
        /\ AdvanceWindow("receiver", i)
        /\ CountPacket("receiver")
        /\ accepted' = [accepted EXCEPT ![i] = @ + 1]
        /\ result' = [result EXCEPT !["receiver"] = "ok"]
        /\ UNCHANGED <<rejected, net>>

\* Mutant: the replay window is updated before the MAC is checked, so a
\* packet that fails authentication still marks its index.
UnprotectFailMarking(m) ==
    LET i == Estimate("receiver", m.seq)
    IN  /\ ~Expired("receiver")
        /\ UnprotectResult(m) # "ok"
        /\ result' = [result EXCEPT !["receiver"] = UnprotectResult(m)]
        /\ IF UnprotectResult(m) = "auth_fail" THEN AdvanceWindow("receiver", i)
           ELSE UNCHANGED <<fresh, hi, seen>>
        /\ UNCHANGED <<used, rejected, events, net, accepted>>

UnprotectFail(m) ==
    /\ ~Expired("receiver")
    /\ UnprotectResult(m) # "ok"
    /\ result' = [result EXCEPT !["receiver"] = UnprotectResult(m)]
    /\ UNCHANGED <<fresh, hi, seen, used, rejected, events, net, accepted>>

Unprotect ==
    \/ RejectExpired("receiver")
    \/ \E m \in net \cup Forgeries : UnprotectOk(m) \/ UnprotectFail(m)

Next == Protect \/ Unprotect

Spec == Init /\ [][Next]_vars

-----------------------------------------------------------------------------
(***************************************************************************)
(* Properties.                                                             *)
(***************************************************************************)

\* Anti-replay (asrtpa_unprotect, "err_status_replay_fail if the packet
\* has already been processed and accepted"): whatever the attacker
\* replays, reorders or forges, the receiver accepts each packet index at
\* most once.  Depends on the window slide keeping exactly the bits that
\* can still come back in range.
ReplayProtection == \A i \in Indices : accepted[i] <= 1

\* No poisoning (spec 7 and 8: an authentication failure must not mutate
\* the replay state): every index marked in the receiver's window is one it
\* accepted, and every index marked in the sender's window is one it used.
WindowMarksOnlyProcessed ==
    /\ \A i \in seen["receiver"] : accepted[i] >= 1
    /\ \A i \in seen["sender"] : \E m \in net : m.mac = i

\* No keystream reuse (asrtpa_protect returns err_status_replay_fail for a
\* repeated sequence number): two different packets are never protected
\* under the same index, so the AES-CM keystream is never used twice.
NoKeystreamReuse ==
    \A m1, m2 \in net : m1.mac = m2.mac => m1 = m2

\* Index reconstruction at the sender: a packet presented within the
\* 2^15 reordering contract is protected under the index the application
\* meant, never under a neighbouring rollover.
ProtectedAtOwnIndex == \A m \in net : m.mac = m.app

\* Key-usage limit: neither side processes more than HardLimit packets
\* under the key, counting what actually left the sender and what the
\* receiver actually accepted.
KeyUsageBounded ==
    /\ Cardinality(net) <= HardLimit
    /\ Cardinality({i \in Indices : accepted[i] >= 1}) <= HardLimit

\* The inductive strengthening of ReplayProtection used by the proof: an
\* index the receiver accepted is either still marked in its window or
\* too far behind the high-water mark ever to pass the skew check again
\* (and a receiver that accepted something is no longer fresh).
AcceptedRemembered ==
    \A i \in Indices :
        accepted[i] >= 1 =>
            /\ ~fresh["receiver"]
            /\ i \in seen["receiver"] \/ i <= hi["receiver"] - WindowSize

ReplayInv == TypeOK /\ ReplayProtection /\ AcceptedRemembered

\* Spec 8 (window boundary): an index behind the high-water mark but
\* inside the window, never accepted before, is accepted when its genuine
\* packet arrives.
InWindowAccepted ==
    \A m \in net :
        (/\ ~Expired("receiver")
         /\ accepted[m.mac] = 0
         /\ m.mac > hi["receiver"] - WindowSize
         /\ m.mac <= hi["receiver"])
        => UnprotectResult(m) = "ok"

\* The stream as the secure channel it promises to be (SrtpChannel): what
\* the sender put on the wire is its set of <<index, payload>> pairs, what
\* the receiver delivered is its acceptance count per index.
Channel == INSTANCE SrtpChannel
               WITH Slots <- Indices, Limit <- HardLimit,
                    sent <- {<<m.mac, m.data>> : m \in net},
                    delivered <- accepted

\* protect and unprotect implement the channel: every protect that puts a
\* packet on the wire is a Send under a fresh index within the key limit,
\* every unprotect that accepts is a Deliver of an index sent and not yet
\* delivered, and every other call (a refusal, a replay, a forgery, an
\* expired key) changes nothing the channel can see.
ChannelRefinement == Channel!Spec

\* Spec 8 (expiry): exactly one key_hard_limit event is raised for a
\* stream that reaches its hard limit.
OneHardLimitEvent ==
    \A s \in Sides : events[s]["event_key_hard_limit"] <= 1
=============================================================================
