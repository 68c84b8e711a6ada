---------------------------- MODULE SrtpChannel -----------------------------
(***************************************************************************)
(* What one SRTP stream promises its two ends, with the cryptography and  *)
(* the network left out: a secure channel of numbered packets.             *)
(*                                                                         *)
(* The sender puts a payload on the channel under a packet index it has   *)
(* never used before (one keystream per index), and the receiver delivers *)
(* an index only if a packet was sent under it, and at most once.  A key  *)
(* protects at most Limit packets and admits at most Limit packets.       *)
(* Loss, delay, reordering and refusals are stuttering steps: the channel *)
(* promises safety only.                                                   *)
(***************************************************************************)
EXTENDS Naturals, FiniteSets

CONSTANTS Slots,   \* packet indices
          Data,    \* payloads
          Limit    \* packets a key may protect, and may admit

VARIABLES sent,       \* <<index, payload>> of every packet put on the channel
          delivered   \* delivered[i]: times the receiver delivered index i

chanVars == <<sent, delivered>>

SentIndices == {p[1] : p \in sent}

DeliveredIndices == {i \in Slots : delivered[i] >= 1}

Init ==
    /\ sent = {}
    /\ delivered = [i \in Slots |-> 0]

\* The sender uses index i once, while its key is still within its limit.
Send(i, d) ==
    /\ i \notin SentIndices
    /\ Cardinality(sent) < Limit
    /\ sent' = sent \cup {<<i, d>>}
    /\ UNCHANGED delivered

\* The receiver delivers a sent index it has not delivered yet, while its
\* key is still within its limit.
Deliver(i) ==
    /\ i \in SentIndices
    /\ delivered[i] = 0
    /\ Cardinality(DeliveredIndices) < Limit
    /\ delivered' = [delivered EXCEPT ![i] = 1]
    /\ UNCHANGED sent

Next ==
    \/ \E i \in Slots, d \in Data : Send(i, d)
    \/ \E i \in Slots : Deliver(i)

Spec == Init /\ [][Next]_chanVars
=============================================================================
