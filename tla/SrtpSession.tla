---------------------------- MODULE SrtpSession -----------------------------
(***************************************************************************)
(* An SRTP session (asrtpa_t) and the streams it owns.                     *)
(*                                                                         *)
(* A session is created from a policy list whose elements select either   *)
(* a specific SSRC or one of the wildcards ssrc_any_inbound and            *)
(* ssrc_any_outbound.  A specific element becomes a stream at once; a      *)
(* wildcard element becomes a template, from which protect (outbound) or   *)
(* unprotect (inbound) clones a stream the first time an SSRC without a    *)
(* stream is seen.  Clones share the template's key and its usage limit    *)
(* ("key sharing", srtp.h:204, 804-806).  Streams are added with           *)
(* asrtpa_add_stream, removed with asrtpa_remove_stream, and all of them   *)
(* released with asrtpa_dealloc, which zeroes their key material.          *)
(*                                                                         *)
(* Keys are numbered in allocation order; MaxKeys is the number of keys   *)
(* the allocator can hold, beyond which creation fails with alloc_fail.    *)
(* Each stream keeps the window state of SrtpIndex.  A packet on the wire *)
(* is <<ssrc, key, index>>: the key and index its tag was computed with   *)
(* (NoKey for a forged tag).  The peer and an attacker may deliver any     *)
(* such packet at any time, any number of times.                           *)
(***************************************************************************)
EXTENDS SrtpIndex, Sequences, FiniteSets

CONSTANTS Ssrcs,        \* SSRC values used on the wire
          KeyLimit,     \* hard key-usage limit of every master key
          MaxKeys,      \* keys the allocator can hold
          MaxPolicies   \* bound: length of a policy list given to create

Wild == {"any_inbound", "any_outbound"}

\* An SSRC is a 32-bit value; the wildcards are distinct ssrc_type_t tags.
ASSUME SessionAssumption ==
    /\ Ssrcs \cap Wild = {}
    /\ KeyLimit \in Nat \ {0}
    /\ MaxKeys \in Nat
    /\ MaxPolicies \in Nat

\* An element's ssrc_t: a specific SSRC value or a wildcard.
Selectors == Ssrcs \cup Wild

Dirs == {"in", "out"}

WildOf(d) == IF d = "in" THEN "any_inbound" ELSE "any_outbound"

KeyIds == 1 .. MaxKeys
NoKey == 0

StreamRecs == [key : KeyIds \cup {NoKey}, dir : Dirs \cup {"unknown"},
               cloned : BOOLEAN, fresh : BOOLEAN, hi : Indices,
               seen : SUBSET Indices]

\* The value of an SSRC that has no stream in the session.
NoStream == [key |-> NoKey, dir |-> "unknown", cloned |-> FALSE,
             fresh |-> TRUE, hi |-> 0, seen |-> {}]

WirePackets == Ssrcs \X (KeyIds \cup {NoKey}) \X Indices

Results == {"none", "ok", "alloc_fail", "bad_param", "duplicate_stream",
            "not_found", "dealloc_fail", "no_such_stream", "key_expired",
            "seq_out_of_range", "replay_fail", "auth_fail"}

VARIABLES sess,        \* "none", "live" or "freed"
          tmpl,        \* tmpl[w]: key of the template for wildcard w, or NoKey
          strm,        \* strm[x]: the stream of SSRC x, or NoStream
          used,        \* used[k]: packets processed under master key k
          nextKey,     \* the next key the allocator hands out
          zeroed,      \* keys whose material has been zeroed
          sent,        \* history: packets this session protected
          acc,         \* history: how often unprotect accepted a packet (capped at 2)
          collisions,  \* SSRCs for which event_ssrc_collision was raised
          result       \* err_status_t of the last call

vars == <<sess, tmpl, strm, used, nextKey, zeroed, sent, acc, collisions, result>>

TypeOK ==
    /\ sess \in {"none", "live", "freed"}
    /\ tmpl \in [Wild -> KeyIds \cup {NoKey}]
    /\ strm \in [Ssrcs -> StreamRecs]
    /\ used \in [KeyIds -> 0 .. KeyLimit]
    /\ nextKey \in 1 .. (MaxKeys + 1)
    /\ zeroed \subseteq KeyIds
    /\ sent \subseteq WirePackets
    /\ acc \in [Ssrcs \X KeyIds \X Indices -> 0 .. 2]
    /\ collisions \subseteq Ssrcs
    /\ result \in Results

Init ==
    /\ sess = "none"
    /\ tmpl = [w \in Wild |-> NoKey]
    /\ strm = [x \in Ssrcs |-> NoStream]
    /\ used = [k \in KeyIds |-> 0]
    /\ nextKey = 1
    /\ zeroed = {}
    /\ sent = {}
    /\ acc = [p \in Ssrcs \X KeyIds \X Indices |-> 0]
    /\ collisions = {}
    /\ result = "none"

(***************************************************************************)
(* Session management.                                                     *)
(***************************************************************************)
PolicyLists == UNION {[1 .. n -> Selectors] : n \in 0 .. MaxPolicies}

Repeated(pl, S) == \E a, b \in DOMAIN pl : a # b /\ pl[a] = pl[b] /\ pl[a] \in S

\* Mutant: the allocator's capacity test off by one.
KeyAvailableLoose(n) == nextKey + n - 1 <= MaxKeys + 1

KeyAvailable(n) == nextKey + n - 1 <= MaxKeys

\* The key element j of the list receives.
EntryKey(pl, sel) == nextKey + (CHOOSE j \in DOMAIN pl : pl[j] = sel) - 1

Listed(pl, sel) == \E j \in DOMAIN pl : pl[j] = sel

\* asrtpa_create: all of the list or nothing (spec 7: a failed creation
\* leaves prior state untouched).
Create(pl) ==
    /\ sess \in {"none", "freed"}
    /\ \/ /\ Repeated(pl, Wild)
          /\ result' = "bad_param"
          /\ UNCHANGED <<sess, tmpl, strm, used, nextKey, zeroed>>
       \/ /\ ~Repeated(pl, Wild) /\ Repeated(pl, Ssrcs)
          /\ result' = "duplicate_stream"
          /\ UNCHANGED <<sess, tmpl, strm, used, nextKey, zeroed>>
       \/ /\ ~Repeated(pl, Selectors)
          /\ ~KeyAvailable(Len(pl))
          /\ result' = "alloc_fail"
          /\ UNCHANGED <<sess, tmpl, strm, used, nextKey, zeroed>>
       \/ /\ ~Repeated(pl, Selectors)
          /\ KeyAvailable(Len(pl))
          /\ sess' = "live"
          /\ tmpl' = [w \in Wild |-> IF Listed(pl, w) THEN EntryKey(pl, w) ELSE NoKey]
          /\ strm' = [x \in Ssrcs |-> IF Listed(pl, x)
                                      THEN [NoStream EXCEPT !.key = EntryKey(pl, x)]
                                      ELSE NoStream]
          /\ nextKey' = nextKey + Len(pl)
          /\ result' = "ok"
          /\ UNCHANGED <<used, zeroed>>
    /\ UNCHANGED <<sent, acc, collisions>>

\* asrtpa_add_stream.
AddStream(sel) ==
    /\ sess = "live"
    /\ \/ /\ sel \in Wild /\ tmpl[sel] # NoKey
          /\ result' = "bad_param"
          /\ UNCHANGED <<tmpl, strm, nextKey>>
       \/ /\ sel \in Ssrcs /\ strm[sel].key # NoKey
          /\ result' = "duplicate_stream"
          /\ UNCHANGED <<tmpl, strm, nextKey>>
       \/ /\ sel \in Wild /\ tmpl[sel] = NoKey
          /\ KeyAvailable(1)
          /\ tmpl' = [tmpl EXCEPT ![sel] = nextKey]
          /\ nextKey' = nextKey + 1
          /\ result' = "ok"
          /\ UNCHANGED strm
       \/ /\ sel \in Ssrcs /\ strm[sel].key = NoKey
          /\ KeyAvailable(1)
          /\ strm' = [strm EXCEPT ![sel] = [NoStream EXCEPT !.key = nextKey]]
          /\ nextKey' = nextKey + 1
          /\ result' = "ok"
          /\ UNCHANGED tmpl
       \/ /\ (sel \in Wild => tmpl[sel] = NoKey)
          /\ (sel \in Ssrcs => strm[sel].key = NoKey)
          /\ ~KeyAvailable(1)
          /\ result' = "alloc_fail"
          /\ UNCHANGED <<tmpl, strm, nextKey>>
    /\ UNCHANGED <<sess, used, zeroed, sent, acc, collisions>>

\* Mutant: removing a stream zeroes its key even when it is the key of the
\* template the stream was cloned from.
OwnedKeysShared(st) == {st.key}

\* The key material a stream's destruction zeroes: its own key, not the
\* one it shares with a template.
OwnedKeys(st) == IF st.cloned THEN {} ELSE {st.key}

\* asrtpa_remove_stream.  A wildcard is not an SSRC value and cannot be
\* removed; a stream cloned from it can.
RemoveStream(x) ==
    /\ sess = "live"
    /\ \/ /\ strm[x].key # NoKey
          /\ strm' = [strm EXCEPT ![x] = NoStream]
          /\ zeroed' = zeroed \cup OwnedKeys(strm[x])
          /\ result' = "ok"
       \/ /\ strm[x].key = NoKey
          /\ result' = "not_found"
          /\ UNCHANGED <<strm, zeroed>>
    /\ UNCHANGED <<sess, tmpl, used, nextKey, sent, acc, collisions>>

HeldKeys == {strm[x].key : x \in Ssrcs} \cup {tmpl[w] : w \in Wild}

\* asrtpa_dealloc: release every stream and template and zero their keys;
\* a second call on the same session fails rather than freeing twice.
Dealloc ==
    \/ /\ sess = "live"
       /\ sess' = "freed"
       /\ tmpl' = [w \in Wild |-> NoKey]
       /\ strm' = [x \in Ssrcs |-> NoStream]
       /\ zeroed' = zeroed \cup (HeldKeys \ {NoKey})
       /\ result' = "ok"
       /\ UNCHANGED <<used, nextKey, sent, acc, collisions>>
    \/ /\ sess = "freed"
       /\ result' = "dealloc_fail"
       /\ UNCHANGED <<sess, tmpl, strm, used, nextKey, zeroed, sent, acc, collisions>>

(***************************************************************************)
(* Stream resolution (spec 4.2): the stream of the SSRC if there is one,   *)
(* else a clone of the template for the call's direction, else none.       *)
(***************************************************************************)
Clone(k, d) == [NoStream EXCEPT !.key = k, !.dir = d, !.cloned = TRUE]

Resolve(x, d) ==
    IF strm[x].key # NoKey THEN strm[x]
    ELSE IF tmpl[WildOf(d)] # NoKey THEN Clone(tmpl[WildOf(d)], d)
    ELSE NoStream

\* A stream's direction is fixed by its first call.  A call in the other
\* direction raises event_ssrc_collision and carries on: the event is
\* dispatched inline (spec 4.5) and no error kind reports it (spec 7).
Bind(st, d) == IF st.dir = "unknown" THEN [st EXCEPT !.dir = d] ELSE st

CollisionsAfter(x, d) ==
    IF strm[x].key # NoKey /\ strm[x].dir \notin {"unknown", d}
    THEN collisions \cup {x} ELSE collisions

\* Mutant: the usage limit checked only on streams that own their key.
ExpiredUnshared(st) == ~st.cloned /\ used[st.key] >= KeyLimit

\* The limit belongs to the master key, shared by the template's clones.
Expired(st) == used[st.key] >= KeyLimit

Index(st, seq) == IF st.fresh THEN seq ELSE EstimateIndex(st.hi, seq)

\* Steps 3-5 of protect and unprotect (spec 4.4), in their order.
CallResult(st, i, authentic) ==
    IF Expired(st) THEN "key_expired"
    ELSE IF ~st.fresh /\ ~InRange(st.hi, i) THEN "seq_out_of_range"
    ELSE IF ReplayCheck(st.hi, st.seen, i) # "accept" THEN "replay_fail"
    ELSE IF ~authentic THEN "auth_fail"
    ELSE "ok"

Advance(st, i) ==
    [st EXCEPT !.fresh = FALSE, !.hi = ReplayHigh(st.hi, i),
               !.seen = ReplaySeen(st.hi, st.seen, i)]

\* asrtpa_protect of an RTP packet with SSRC x and sequence number seq.
\* A stream cloned during resolution stays registered whatever the
\* outcome of the call.
Protect(x, seq) ==
    LET st == Bind(Resolve(x, "out"), "out")
        i  == Index(st, seq)
        r  == CallResult(st, i, TRUE)
    IN  /\ sess = "live"
        /\ \/ /\ st.key = NoKey
              /\ result' = "no_such_stream"
              /\ UNCHANGED <<strm, used, sent, collisions>>
           \/ /\ st.key # NoKey /\ r = "ok"
              /\ strm' = [strm EXCEPT ![x] = Advance(st, i)]
              /\ used' = [used EXCEPT ![st.key] = @ + 1]
              /\ sent' = sent \cup {<<x, st.key, i>>}
              /\ collisions' = CollisionsAfter(x, "out")
              /\ result' = r
           \/ /\ st.key # NoKey /\ r # "ok"
              /\ strm' = [strm EXCEPT ![x] = st]
              /\ collisions' = CollisionsAfter(x, "out")
              /\ result' = r
              /\ UNCHANGED <<used, sent>>
        /\ UNCHANGED <<sess, tmpl, nextKey, zeroed, acc>>

\* The packets that can reach unprotect: forgeries; replays of packets the
\* session accepted and reflections of packets it sent; and the peer's
\* packets, tagged under a key the peer sends with, the key of the
\* inbound wildcard or of a specific SSRC's policy.
Deliverable(p) ==
    \/ p[2] = NoKey
    \/ p \in sent
    \/ p \in DOMAIN acc /\ acc[p] >= 1
    \/ p[2] = tmpl["any_inbound"]
    \/ ~strm[p[1]].cloned /\ p[2] = strm[p[1]].key

\* asrtpa_unprotect of the wire packet p = <<x, k, j>>: its tag verifies
\* only under key k at index j.
Unprotect(p) ==
    LET x  == p[1]
        st == Bind(Resolve(x, "in"), "in")
        i  == Index(st, SeqOf(p[3]))
        r  == CallResult(st, i, p[2] = st.key /\ p[3] = i)
    IN  /\ sess = "live"
        /\ Deliverable(p)
        /\ \/ /\ st.key = NoKey
              /\ result' = "no_such_stream"
              /\ UNCHANGED <<strm, used, acc, collisions>>
           \/ /\ st.key # NoKey /\ r = "ok"
              /\ strm' = [strm EXCEPT ![x] = Advance(st, i)]
              /\ used' = [used EXCEPT ![st.key] = @ + 1]
              /\ acc' = [acc EXCEPT ![p] = IF @ < 2 THEN @ + 1 ELSE 2]
              /\ collisions' = CollisionsAfter(x, "in")
              /\ result' = r
           \/ /\ st.key # NoKey /\ r # "ok"
              /\ strm' = [strm EXCEPT ![x] = st]
              /\ collisions' = CollisionsAfter(x, "in")
              /\ result' = r
              /\ UNCHANGED <<used, acc>>
        /\ UNCHANGED <<sess, tmpl, nextKey, zeroed, sent>>

Next ==
    \/ \E pl \in PolicyLists : Create(pl)
    \/ \E sel \in Selectors : AddStream(sel)
    \/ \E x \in Ssrcs : RemoveStream(x)
    \/ Dealloc
    \/ \E x \in Ssrcs, seq \in 0 .. (SeqSpace - 1) : Protect(x, seq)
    \/ \E p \in WirePackets : Unprotect(p)

Spec == Init /\ [][Next]_vars

-----------------------------------------------------------------------------
(***************************************************************************)
(* Properties.                                                             *)
(***************************************************************************)

\* Key sharing (srtp.h:804-806): all the packets a session protects or
\* accepts under one master key, over every stream that shares it and
\* every stream ever cloned with it, stay within the key's hard limit.
SharedKeyBounded ==
    \A k \in KeyIds :
        Cardinality({q \in sent : q[2] = k}
                    \cup {q \in DOMAIN acc : q[2] = k /\ acc[q] >= 1})
            <= KeyLimit

\* Removing a stream (asrtpa_remove_stream) or a session (asrtpa_dealloc)
\* zeroes key material; no stream or template that is still in the
\* session holds a key that has been zeroed.
KeysIntact ==
    /\ \A x \in Ssrcs : strm[x].key # NoKey => strm[x].key \notin zeroed
    /\ \A w \in Wild : tmpl[w] # NoKey => tmpl[w] \notin zeroed

\* Spec 3: a wildcard serves one direction only ("to prevent SSRC-reuse
\* key-sharing attacks"): the key of a wildcard template never both
\* protects an outbound packet of the session and admits an inbound one.
WildcardKeyOneDirection ==
    \A w \in Wild :
        tmpl[w] # NoKey =>
            ~ /\ \E q \in sent : q[2] = tmpl[w]
              /\ \E q \in DOMAIN acc : q[2] = tmpl[w] /\ acc[q] >= 1

\* Spec 8: unprotect of the same protected packet a second time fails with
\* ReplayFail; no wire packet is accepted twice by the session.
SessionReplayProtection == \A q \in DOMAIN acc : acc[q] <= 1
=============================================================================
