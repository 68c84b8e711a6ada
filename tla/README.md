# TLA+ verification of the ASRTPA (SRTP) library interface

This directory holds TLA+ models of the SRTP library whose interface is
`src/jsr-api/jni/testsrtp/include/srtp.h`. It is the libSRTP 1.x API with the
prefix `asrtpa_`, used by the IMS stack's JNI layer. The header is the only
file of the library in the repository. It gives types, prototypes and the
contract comments of every call, but no implementation. So the models take
their control from two places:

- the header's contracts, which every mapped definition cites by line;
- `spec.md`, which describes the algorithms the header only names: index
  estimation, the replay window and the key-usage accounting.

Definitions taken from `spec.md` are marked `spec_modelled` in `PROJECT.json`.

## The system

| Part | Header | State | Operations |
|---|---|---|---|
| Crypto policy and profiles | 99-138, 407-646 | `crypto_policy_t` (cipher, key and tag lengths, `sec_serv`) | `crypto_policy_set_*`, profile lookups |
| Key material | 648-661 | master key and salt bytes | `append_salt_to_key` |
| Session manager | 140-241, 343-405, 554-570 | per session: a stream list plus at most one wildcard template per direction | `asrtpa_create`, `asrtpa_add_stream`, `asrtpa_remove_stream`, `asrtpa_dealloc` |
| Stream context | 261-341, 795-806 | per SSRC: ROC, highest index, replay bitmap, key-usage counters, expired flag | created by the session, or cloned lazily from a wildcard |
| Protection pipeline | 261-341, 667-761 | none of its own; updates the stream | `asrtpa_protect`, `asrtpa_unprotect`, `asrtpa_protect_rtcp`, `asrtpa_unprotect_rtcp` |
| Event sink | 763-865 | one global handler | `asrtpa_install_event_handler`; events `ssrc_collision`, `key_soft_limit`, `key_hard_limit`, `packet_index_limit` |
| Library lifecycle | 243-259 | initialised flag | `asrtpa_init`, `asrtpa_deinit` |

How the parts interact:

- A session owns streams.
- `asrtpa_unprotect` may create a stream from the `ssrc_any_inbound` template
  the first time an SSRC is seen. The first `asrtpa_protect` may do the same
  from `ssrc_any_outbound`.
- Streams cloned from one template share the key and its usage limit
  (srtp.h:804-806).
- Every pipeline call checks expiry first. It then estimates the packet
  index, checks for replay, authenticates, updates the window and counts the
  packet against the key limits.
- Crossing a key limit raises an event through the global handler.

## Modules

**`SrtpIndex`** holds pure operators, with no state:

- `EstimateIndex`: the nearest of the current and the next rollover, as
  `spec.md` §4.4 step 4 states it.
- `InRange`: the skew check. The distance to the highest index must stay
  below half the sequence space, which is the header's "out of order by less
  than 2^15".
- The replay window of spec §4.3: `ReplayCheck`, `ReplayHigh` and
  `ReplaySeen`.

The sizes are scaled down:

| Real value | Constant |
|---|---|
| 2^16 sequence numbers | `SeqSpace` |
| 2^32 rollover values | `RocSpace` |
| window of 2^15 | `SeqSpace \div 2` |

An index is `ROC * SeqSpace + SEQ`.

**`SrtpStream`** models one SSRC with its two stream contexts: the sender's,
used by `asrtpa_protect`, and the receiver's, used by `asrtpa_unprotect`.

State:

| Variable | Meaning |
|---|---|
| `fresh` | no packet has been processed yet; the first one anchors the stream |
| `hi` | highest index |
| `seen` | replay bitmap, as the set of marked indices |
| `used` | key-usage counter |
| `rejected` | a key-expired refusal has already happened |
| `events` | count of each raised event |
| `result` | the last `err_status_t` |
| `net` | every SRTP packet ever sent |
| `accepted` | how often the receiver delivered each index |

The network is an attacker's:

- `net` only grows, so any packet can be delivered, dropped, reordered or
  replayed any number of times.
- `Forgeries` are packets with no valid tag, injected at any time.

The cipher and the MAC are abstract. A packet carries `mac`, the index its
tag was computed over, or `NoMac`. With authentication on, the receiver
accepts a packet only if `mac` equals the index it estimated.

Each action is one whole call:

- `ProtectOk`: index estimation, skew check, replay check, window update,
  usage count and events, then the packet is sent.
- `ProtectFail`: a call refused with `seq_out_of_range` or `replay_fail`.
- `UnprotectOk` and `UnprotectFail`: the same for the receiver, with the MAC
  check after the replay check.
- `RejectExpired`: a call on an expired stream, on either side.

The application may present any index within half the sequence space of the
sender's highest. That is the header's requirement on the caller
(srtp.h:272-274).

**`SrtpSession`** models one session handle (`asrtpa_t`) and the streams it
owns.

State:

| Variable | Meaning |
|---|---|
| `sess` | the handle's lifecycle: none, live or freed |
| `tmpl` | the key of each wildcard template, or `NoKey` |
| `strm` | the stream of each SSRC: key, direction, whether cloned, window state |
| `used` | the usage count of each master key |
| `nextKey` | the allocator's next key |
| `zeroed` | keys whose material was zeroed |
| `sent`, `acc` | histories of packets protected and accepted |
| `collisions` | the SSRCs for which `ssrc_collision` was raised |
| `result` | the last return code |

Keys are numbered in allocation order. `MaxKeys` is the allocator's
capacity; beyond it, `create` and `add_stream` fail with `alloc_fail`.

Actions, one per call:

- `Create`: atomic; a failure leaves the state as it was (spec §7).
- `AddStream`.
- `RemoveStream`: zeroes the stream's own key, but not a key it shares with
  its template.
- `Dealloc`: a second call fails with `dealloc_fail`.
- `Protect` and `Unprotect`: resolve the SSRC first (spec §4.2). That is the
  stream of the SSRC, or else a new clone of the wildcard for the call's
  direction, registered whatever the rest of the call does. Then they run
  steps 3-5 of §4.4 against the key's shared limit.

A stream takes its direction from its first call. A call in the other
direction raises `ssrc_collision` and carries on, since spec §7 has no error
for a collision.

Wire packets are `<<ssrc, key, index>>`. The packets `Unprotect` can receive
(`Deliverable`) are:

- forgeries;
- replays of accepted packets;
- reflections of packets the session sent;
- the peer's packets under keys the peer sends with: the inbound wildcard's
  key, or a specific SSRC's key.

**`MCSrtpSession`** sets the TLC instance: two SSRCs as model values and
`RocSpace = 1`.

**`SrtpIndexProofs`** holds the lemmas about the index and window
operators, used by the proof modules. **`SrtpStreamProofs`**,
**`SrtpStreamSafety`**, **`SrtpStreamRefinement`**, **`SrtpSessionProofs`**,
**`SrtcpStreamProofs`** and **`CryptoPolicyProofs`** hold the TLAPS proofs
about the components (see "Proofs").

**`MCSrtpStream`** sets the TLC instance: `SeqSpace = 8`, `RocSpace = 3`.
`RocSpace = 3` is needed to see a previous, current and next rollover
without the wrap-around of ROC arithmetic hiding it.

**`SrtpChannel`** is the abstract specification of what one stream promises
its two ends, with the cryptography and the network left out:

- `sent`: the `<<index, payload>>` pairs put on the channel;
  `delivered[i]`: how often index `i` was delivered.
- `Send(i, d)`: an index never used before, while the key is under its limit.
- `Deliver(i)`: a sent index not delivered yet, while the receiver's key is
  under its limit.

Loss, reordering, replays that are refused and failed calls are stuttering
steps. `SrtpStream` instantiates it as `Channel`, with the refinement
mapping `sent <- {<<m.mac, m.data>> : m \in net}` and
`delivered <- accepted`, and states `ChannelRefinement == Channel!Spec`.
`SrtpChannel` is not mapped to header lines: it is the promise, not the code.

**`CryptoPolicy`** models the crypto policies of one stream (RTP and RTCP,
`crypto_policy_t`, srtp.h:115-138) and the keying helpers:

- the five setters `crypto_policy_set_*` and the
  `aes_cm_128_hmac_sha1_80` macro, as record values (srtp.h:407-533);
- `crypto_policy_set_from_profile_for_rtp` and `_for_rtcp`, which fail with
  `bad_param` for the reserved profile 0 and for values past the enum
  (srtp.h:574-611);
- the lookups `asrtpa_profile_get_master_key_length` and
  `_salt_length` (srtp.h:613-646);
- `append_salt_to_key` (srtp.h:648-661), by octet counts: the key an
  application copies into a buffer of `KeyBufLen` octets, then the salt
  appended behind it. `overflow` records a write past the buffer's end.

`status` is the last call's return code. Bytes and cipher internals are not
modelled. **`MCCryptoPolicy`** gives `KeyBufLen` two values:
`ASRTPA_MAX_KEY_LEN` (64) and the nominal `ASRTPA_MASTER_KEY_LEN` (30).

**`SrtcpStream`** models the RTCP half of one stream:
`asrtpa_protect_rtcp` at the sender and `asrtpa_unprotect_rtcp` at the
receiver (srtp.h:686-761), with the defines `SRTCP_E_BIT` and
`SRTCP_INDEX_MASK` (srtp.h:867-874).

- The sender's index `sndIndex` goes up by one per packet under the mask
  (`NextIndex`). The packet's word is the E bit, when the policy encrypts,
  plus the index.
- The receiver takes the index from the word (`IndexOf`), checks it against
  the replay window of `SrtpIndex` (instantiated with a window of
  `RtcpWindow`), then checks the tag, which covers the whole word. On success
  it marks the window, counts the packet, and decrypts when the word's E bit
  is set.
- The attacker replays and reorders anything sent (`Passed`), flips the
  clear E bit (`FlipE`), and forges packets with no valid tag
  (`Forgeries`). `Arrivals` is the union of the two.
- Both sides count packets against `HardLimit`. An expired side refuses
  with `key_expired`.

`IndexSpace` stands for 2^31. **`MCSrtcpStream`** uses `IndexSpace = 8`,
`RtcpWindow = 4`, and a hard limit of 8 (the whole index space) or 9 (past
it).

## Runs

The three `SrtpStream` runs below use `SoftLimit = 2`, `HardLimit = 4`, two payloads and at
most five packets on the network, with `sec_serv_conf_and_auth`.

- **`stream_safety`** (pass, `MCSrtpStream.cfg`). It reaches about 277,000
  distinct states in about a minute. Five packets reach the hard limit and
  cross a sequence wrap. It checks:
  - `TypeOK`.
  - `ReplayProtection`: the receiver delivers no index twice, whatever the
    attacker replays.
  - `WindowMarksOnlyProcessed`: the receiver's window marks only delivered
    indices, so a forged packet cannot mark an index and lock out the genuine
    packet. The sender's window marks only indices it sent.
  - `NoKeystreamReuse`: no two different packets are protected under one
    index.
  - `ProtectedAtOwnIndex`: every packet protect accepts is protected at the
    index the application meant, even when the sender's sequence number has
    just wrapped. It holds partly because protect refuses what the skew and
    replay checks reject, including some late presentations from before a
    wrap that the header's reordering contract (srtp.h:272-274) allows. Such
    a packet fails rather than being protected at the wrong index.
  - `KeyUsageBounded`: no more packets than the hard limit are protected or
    delivered under one key.
- **`window_wrap_gap`** (violation, `MCSrtpStreamWrap.cfg`) checks
  `InWindowAccepted`: a genuine, not yet delivered packet inside the replay
  window is accepted. TLC finds this trace:
  - the receiver's highest index is at the start of a rollover (ROC 1,
    SEQ 0);
  - a packet from the previous rollover arrives late (ROC 0, SEQ 6, index 6,
    two behind);
  - the estimate takes the current ROC and gives index 14;
  - 14 is out of range, so the packet is rejected with `seq_out_of_range`.

  The header promises tolerance of any reordering below 2^15, and spec §8
  says index N-32767 is accepted. The spec's two-candidate estimate never
  tries ROC-1 (RFC 3711's estimate does).
- **`stream_refines_channel`** (pass, `MCSrtpStreamChannel.cfg`, one
  payload) checks `ChannelRefinement`: every behaviour of `SrtpStream` is,
  under the mapping, a behaviour of `SrtpChannel`. Each `ProtectOk` is a
  `Send` under a fresh index within the limit; each `UnprotectOk` is a
  `Deliver` of a sent, undelivered index; every other call stutters. It
  reaches about 20,000 distinct states.
- **`hard_limit_event_twice`** (violation, `MCSrtpStreamHardEvent.cfg`)
  checks `OneHardLimitEvent`. Spec §4.4 raises `key_hard_limit` when the
  count reaches the limit (step 7). It raises it again on the first
  `KeyExpired` refusal (step 3). Spec §8 says one event.

Also noted, with no run of its own: index hi-2^15 fails the skew check before
the replay check. So the spec's `ReplayFail (TooOld)` outcome for it (§8) is
never produced, and the too-old branch of the window cannot be reached.

The session runs use two SSRCs, `KeyLimit = 2`, `MaxKeys = 2` and policy
lists of up to two entries.

- **`session_key_sharing`** (pass, `MCSrtpSession.cfg`, `SeqSpace = 2`). It
  reaches about 54,000 distinct states in about 15 s. It checks:
  - `TypeOK`.
  - `SharedKeyBounded`: all packets protected or accepted under one master
    key stay within its limit. This covers every clone of a template and
    every re-clone after a removal.
  - `KeysIntact`: no stream or template still in the session holds a zeroed
    key. Removing a clone must not zero the key it shares.

  Two sequence numbers suffice here. These properties are about resolution,
  cloning, removal and sharing, not the window's geometry (that is
  `SrtpStream`'s). With `SeqSpace = 4` the run takes about four minutes.

  The run uses a VIEW that leaves out `result` and `collisions`. Neither
  feeds any later step, and no property of this run reads them.
- **`replay_after_reclone`** (violation, `MCSrtpSessionReplay.cfg`,
  `SeqSpace = 4`) checks `SessionReplayProtection`. TLC finds this trace:
  - the session has an `ssrc_any_inbound` template;
  - a peer packet clones a stream and is accepted;
  - `asrtpa_remove_stream` removes the clone;
  - the replayed packet clones a new stream with the same key and an empty
    window, and is accepted again.

  Spec §8 says a second `unprotect` of the same packet fails with
  `ReplayFail`.
- **`wildcard_key_both_directions`** (violation, `MCSrtpSessionCollision.cfg`)
  checks `WildcardKeyOneDirection`. TLC finds this trace:
  - a peer packet clones SSRC x from `ssrc_any_inbound`;
  - `asrtpa_protect` on x finds that clone;
  - the collision only raises `ssrc_collision`;
  - x's outbound packets are encrypted under the inbound wildcard's key.

  The header says wildcards "cannot be used to match both inbound and
  outbound traffic" so that key sharing cannot reuse SSRCs across
  directions (srtp.h:190-194).

The crypto policy runs:

- **`crypto_policy_keying`** (pass, `MCCryptoPolicy.cfg`, key buffer of
  `ASRTPA_MAX_KEY_LEN`). About 1,100 states cover every sequence of
  setters, profile calls (all eight profile values) and key assembly on both
  directions. It checks:
  - `TypeOK`;
  - `PolicyWellFormed`: tag and key lengths within the header's maxima, and
    `sec_serv` asking for exactly the services the cipher and MAC provide;
  - `ProfileLengthsAgree`: a policy set from a profile expects the key
    length that the profile's master key lookup reports;
  - `KeyBufferFits`: assembling key and salt never writes past the buffer.
- **`nominal_key_buffer_overflow`** (violation, `MCCryptoPolicyNominal.cfg`)
  checks `KeyBufferFits` with a buffer of `ASRTPA_MASTER_KEY_LEN` (30).
  TLC finds a three-state trace:
  - `crypto_policy_set_from_profile_for_rtp` sets profile 4
    (`aes256_cm_sha1_32`);
  - the application copies the 32-octet master key that
    `asrtpa_profile_get_master_key_length` reports into the buffer, which
    already writes 2 octets past its end, before any salt is appended.

  The header calls 30 the "nominal" master key length. That is exactly
  AES-128's 16 + 14, and the header never warns that AES-256 profiles need
  more.

The SRTCP runs use `sec_serv_conf_and_auth`:

- **`srtcp_stream_safety`** (pass, `MCSrtcpStream.cfg`) uses a hard limit
  equal to the index space. It reaches about 2,300 distinct states, with the
  window sliding past old indices and both sides reaching the limit. It
  checks:
  - `TypeOK`;
  - `RtcpReplayProtected`: no SRTCP packet is accepted twice;
  - `RtcpAcceptedAsSent`: no forged packet is accepted, and every accepted
    packet is decrypted exactly when its sender encrypted it, even though the
    E bit travels in the clear;
  - `NoRtcpIndexReuse`: no two packets share an SRTCP index under one key.
- **`srtcp_index_wrap`** (violation, `MCSrtcpStreamWrap.cfg`) checks
  `NoRtcpIndexReuse` with a hard limit one past the index space. The
  sender's masked index wraps to 0 and index 0 is reused under the same
  key. The header's only packet limit is the 2^48 of
  `event_packet_index_limit` (srtp.h:819-821). Spec §4.4 step 7 expires a
  stream only at its hard limit or 2^48. Neither says that SRTCP must
  expire the key at 2^31 packets.

Each property of a passing run has a mutant in `PROJECT.json`, a plausible
bug TLC catches:

| Property | Mutant |
|---|---|
| `TypeOK` | expiry tested one packet late |
| `ReplayProtection` | the window slides one index too far |
| `WindowMarksOnlyProcessed` | the window is updated before the MAC check |
| `NoKeystreamReuse` | protect skips its replay check |
| `ProtectedAtOwnIndex` | no skew check |
| `KeyUsageBounded` | the usage counter is not updated |
| session `TypeOK` | the allocator's capacity test off by one |
| `SharedKeyBounded` | the limit is checked only on streams that own their key |
| `KeysIntact` | removing a clone zeroes the template's shared key |
| `ChannelRefinement` | the MAC check ignores the estimated index |
| policy `TypeOK` | `from_profile` stores the profile before rejecting a reserved one |
| `PolicyWellFormed` | the null-auth setter keeps `sec_serv_conf_and_auth` |
| `ProfileLengthsAgree` | the master key lookup answers 16 for every profile |
| `KeyBufferFits` | the master key lookup answers in bits |
| SRTCP `TypeOK` | the index counter is incremented without the mask |
| `RtcpReplayProtected` | the window slides one index too far |
| `RtcpAcceptedAsSent` | the tag covers the index but not the E bit |
| `NoRtcpIndexReuse` | expiry tested one packet late |

## Proofs

`SrtpStreamProofs` proves, for every value of the constants that satisfies
the `ASSUME`s:

- **`TypeCorrect`**: `Spec => []TypeOK`. The proof has one step per action.
  The lemmas show that the index operators stay in `Indices`, and that the
  counter and event updates stay in their ranges.
- **`ReplayProtected`**: `Spec => []ReplayProtection`. `ReplayProtection`
  alone is not inductive. A step must know that an index already delivered
  cannot pass the checks again. The inductive invariant adds
  `AcceptedRemembered`: a delivered index is either still marked in the
  receiver's window, or at or below `hi - WindowSize`, where the skew check
  refuses it. The window update keeps this true (lemma
  `WindowUpdateRemembers`), and `InRange` excludes such an index (lemma
  `InRangeInWindow`). TLC also checks the strengthened invariant.

`SrtpSessionProofs` proves:

- **`SessionTypeCorrect`**: `Spec => []TypeOK` for the session. Two facts
  carry the proof:
  - a successful call found its key under `KeyLimit`, so the shared counter
    `used[k]` never leaves `0..KeyLimit`;
  - `create` succeeds only when `KeyAvailable(Len(pl))` holds, so the keys it
    hands out (`EntryKey`) stay within `1..MaxKeys`.
- **`SessionKeysIntact`**: `Spec => []KeysIntact`. `KeysIntact` alone is not
  inductive. Removing an owned stream zeroes its key, which is safe only if
  nobody else holds that key. Adding a stream is safe only if the new key
  was never zeroed. The inductive invariant `KeysInv` adds four facts:
  - `SessionEmpty`: outside a live session, nothing holds a key;
  - `KeysAllocated`: every held or zeroed key is below `nextKey`;
  - `OwnedKeyUnique`: a non-cloned stream's key is held by no other stream
    or template;
  - `ClonedKeyShared`: a clone's key is the key of a template still in the
    session.

  Two lemmas carry the protect and unprotect steps:
  - `ResolveKey`: a call works on the SSRC's own stream, or on a new clone
    of a template;
  - `StreamUpdateKeys`: storing such a stream keeps `KeysInv`.

  For create, distinct selectors receive distinct keys (`EntryKeyInjective`),
  and all of them are at or above `nextKey` (`EntryKeyRange`). Before the
  proof, `KeysInv` was checked with TLC on the `session_key_sharing`
  instance: all 54,154 states satisfy it.

  Every protect or unprotect works on a key that a stream or template
  holds (`ResolveKey`). So `KeysIntact` also means that no packet is
  protected or accepted under zeroed key material.

`SrtpStreamRefinement` proves that the stream implements the channel:

- **`StreamImplementsChannel`**: `AuthOn => (Spec => ChannelRefinement)`,
  for every sequence space, ROC space, payload set and pair of key limits.
  The hypothesis is needed: without authentication a forgery is delivered,
  and the channel delivers only what was sent. The proof has three steps:
  - the initial states map to `Channel!Init`;
  - `Spec => []RefInv`;
  - under `RefInv`, each step maps to a `Channel!Next` step or a stutter
    (lemma `MapStep`), with one case per action. The witness for `Send` is
    the estimated index of the protect call. The witness for `Deliver` is
    the receiver's estimated index.

  `RefInv` strengthens the replay invariant of `ReplayProtected` with three
  facts:
  - `SentRemembered`: every index the sender used is still marked in the
    sender's window, or too far behind for the skew check to pass. Without
    it, `Send`'s guard (a fresh index) cannot be shown.
  - `Counted`: the mapped `sent` and delivered sets have exactly as many
    elements as the usage counters record. This turns the key-limit checks
    into `Send`'s and `Deliver`'s cardinality guards.
  - `AcceptedSent`: every accepted index is one a packet was sent under.
    This is `Deliver`'s guard; a valid tag binds the packet to the index.

  The channel's `Cardinality`, reached through `INSTANCE`, is shown equal to
  the standard one by a lemma of its own (`ChannelCardinality`).

`SrtpStreamSafety` proves the other four stream invariants for every value
of the constants, with or without authentication:

- **`StreamNoKeystreamReuse`**, **`StreamProtectedAtOwnIndex`**,
  **`StreamWindowMarksOnlyProcessed`** and **`StreamKeyUsageBounded`**.
  They all follow from one inductive invariant `SafetyInv`. It is the
  replay invariant plus `SentRemembered` (from the refinement proof), plus
  two counting facts:
  - `NetCounted`: the packets on the wire are exactly as many as the
    sender's counter;
  - `DeliveredCounted`: the same for the delivered set and the receiver.

  `ProtectedAtOwnIndex` needs the index-arithmetic argument. The sender's
  estimate for a sequence number has the same residue as the sender's
  true index (lemma `EstimateResidue`). Two indices within the skew range of
  one another and with the same residue are equal (lemma `ResidueClose`).
  `NoKeystreamReuse` follows because the sender's window refuses an index
  it already used (`SentRemembered`). `KeyUsageBounded` follows from the
  counting facts and the typed counters. TLC checked `SafetyInv` before the
  proof: 277,202 states with `sec_serv_conf_and_auth`, and 340,465 with
  `sec_serv_conf`.

`SrtcpStreamProofs` proves the SRTCP properties for every index space,
window size, policy and hard limit:

- **`RtcpTypeCorrect`**, **`RtcpReplayProtection`** and
  **`RtcpEBitIntegrity`**. They rest on the inductive invariant `RtcpInv`,
  which adds three facts to the properties:
  - `SenderCounted`: `sndIndex` is the masked count of packets sent;
  - `SentWellFormed`: every packet on the wire carries the word, tag and
    policy bit the sender builds for its number. This is what makes a
    flipped E bit or a forged number fail the tag check;
  - `RtcpAcceptedRemembered`: the SRTCP form of `AcceptedRemembered`.

  The index lemmas are proved with the modulus taken apart into quotient
  and remainder (`NextIndexCounts`, `WordFields`, `FlipFields`), because
  the SMT solver does not reason about `%` by a symbolic divisor on its own.
- **`RtcpIndexReuseIsWrap`**: `Spec => []IndexReuseOnlyAtWrap`, for every
  hard limit. Two packets under one key carry the same SRTCP index exactly
  when their packet numbers agree modulo `IndexSpace`. So the index repeats
  precisely when the masked counter wraps, and never before. Neither the
  header nor the spec bounds the key below 2^31 packets; its only limit is
  2^48 (srtp.h:819-821). So the wrap is reachable, which is the finding of
  `srtcp_index_wrap`. `NoRtcpIndexReuse` itself is only model-checked: it
  holds only when the hard limit is at most `IndexSpace`, as in
  `srtcp_stream_safety`, and nothing in the code imposes that bound.

`SrtpSessionProofs` also proves **`SessionSharedKeyBounded`**:
`Spec => []SharedKeyBounded`. The inductive step is `UsesCounted`: for
every key `k`, the packets protected or accepted under `k` (`KeyUses(k)`)
form a finite set with at most `used[k]` elements. A protect or unprotect
that succeeds adds at most one packet under its stream's key and counts it
(lemma `CountOne`); an unprotect only succeeds on a packet tagged with that
key. `TypeOK` bounds `used[k]` by `KeyLimit`. TLC checked `UsesCounted` on
the `session_key_sharing` instance (54,154 states) before the proof.

`CryptoPolicyProofs` proves, for every key buffer size:

- **`PolicyTypeCorrect`**, **`PoliciesWellFormed`** and
  **`ProfileKeyLengthsAgree`**, from the invariant `CPInv`. Each value a
  setter writes is well formed (lemma `SetterValues`). Each profile's
  policy is well formed and expects the key length of the lookup (lemma
  `ProfilePolicyValues`). Setting a policy clears the recorded profile,
  and from_profile records the profile only with its own policy.
- **`KeyBufferNeverOverflows`**: for `KeyBufLen >= 46`, `Spec =>
  []KeyBufferFits`. 46 octets is the AES-256 key plus the 14-octet salt,
  and `CPInv` bounds the copied key by 32 octets. The hypothesis is needed:
  `nominal_key_buffer_overflow` shows a 30-octet buffer overflowing. TLC
  checked the invariant with a buffer of exactly 46 octets.

The assumptions are:

- `SeqSpace` is even and at least 2;
- `RocSpace` is at least 1;
- `0 < SoftLimit < HardLimit <= SeqSpace * RocSpace` (stream);
- `KeyLimit >= 1`, `MaxKeys` and `MaxPolicies` are naturals, and no SSRC
  value is one of the wildcard tags (session);
- `IndexSpace` and `RtcpWindow` are at least 1, and `HardLimit` is a
  natural (SRTCP);
- `KeyBufLen` is a natural (crypto policy).

The theorems' own hypotheses (`AuthOn`, `KeyBufLen >= 46`) are stated in
the theorems. Each is shown necessary by a run.

Only model-checked, for the instances above:

- `NoRtcpIndexReuse`. It holds only for a hard limit of at most
  `IndexSpace`, which the code does not impose. What holds for every limit
  is `RtcpIndexReuseIsWrap`.
- every property of the violation runs. They are counterexamples, and a
  counterexample needs no proof.

Some things are out of the prover's reach. TLAPS cannot reason about
`ENABLED` or liveness under fairness. It also cannot do induction over a
recursive operator. None of the proof modules reaches a `RECURSIVE`
definition.

## Not modelled

- In `SrtpSession`: soft-limit and hard-limit events. They are modelled per
  stream in `SrtpStream`; the session model keeps the shared limit only.
- Concurrent calls on one session. Spec §5 makes the callers serialise
  them, so every action is one whole call.
- A proof of `SharedKeyBounded` for every instance. This needs a counting
  argument: the packets recorded under a key are at most its `used`
  counter.
- `asrtpa_init` and `asrtpa_deinit` (srtp.h:243-259). Spec §6 makes any call
  outside them undefined behaviour that the caller must exclude, so the
  models start after `asrtpa_init`.
- `asrtpa_install_event_handler` (srtp.h:852-865). It installs one function
  pointer; the events themselves are recorded where they are raised.
- The cipher, MAC and key-derivation primitives (byte-level, and outside the
  repository). A tag is modelled by what it binds: the index, or the SRTCP
  word, it was computed over. The key material's bytes (the master key, and
  zeroing as more than a flag) are not modelled either.
- The SRTCP side of one stream and the RTP side are separate models:
  `SrtcpStream` and `SrtpStream`. Each counts its own packets against its
  own limit; how one master key's limit is shared between RTP and RTCP is
  not modelled.
- Packet formatting and alignment.
- The JNI bindings, which are not in `src/`.
- Liveness. Every call is synchronous and returns a result, with no waiting
  and no background work, so there is no fairness for the code to justify.
