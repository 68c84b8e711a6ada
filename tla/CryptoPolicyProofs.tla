------------------------- MODULE CryptoPolicyProofs -------------------------
(***************************************************************************)
(* Proofs about crypto_policy_t and DTLS-SRTP key assembly, for every key *)
(* buffer size.  The policy invariants hold because every value a setter  *)
(* or from_profile writes satisfies them; the key buffer bound needs the  *)
(* further fact that a copied master key is never longer than AES-256's,  *)
(* and a buffer that holds that key and its salt.                         *)
(***************************************************************************)
EXTENDS CryptoPolicy, TLAPS

USE KeyBufAssumption

\* A filled-in policy within the header's limits, its sec_serv matching its
\* algorithms (the body of PolicyWellFormed for one policy).
PolicyOK(q) ==
    /\ q.auth_tag_len <= MaxTagLen
    /\ q.cipher_key_len <= MaxKeyLen /\ q.auth_key_len <= MaxKeyLen
    /\ Authenticated(q.sec_serv) <=> (q.auth_type = "hmac_sha1" /\ q.auth_tag_len > 0)
    /\ Confidential(q.sec_serv) <=> (q.cipher_type = "aes_icm" /\ q.cipher_key_len > 0)

\* The longest master key a profile lookup reports (AES-256).
LongestKey == 32

CPInv ==
    /\ TypeOK
    /\ PolicyWellFormed
    /\ ProfileLengthsAgree
    /\ keyLen <= LongestKey

-----------------------------------------------------------------------------
(* The values the setters write. *)

\* A value a setter writes is a filled-in policy that is well formed.
LEMMA PolicyValue ==
    ASSUME NEW c, NEW ckl, NEW a, NEW akl, NEW tag, NEW ss,
           Policy(c, ckl, a, akl, tag, ss) \in Policies,
           PolicyOK(Policy(c, ckl, a, akl, tag, ss))
    PROVE  /\ Policy(c, ckl, a, akl, tag, ss) # Unset
           /\ Policy(c, ckl, a, akl, tag, ss) \in Policies
           /\ PolicyOK(Policy(c, ckl, a, akl, tag, ss))
<1>1. Policy(c, ckl, a, akl, tag, ss).cipher_type \in {"null_cipher", "aes_icm"}
  BY DEF Policies
<1>2. Unset.cipher_type = "unset"
  BY DEF Unset
<1>3. QED
  BY <1>1, <1>2

\* The five setters write well-formed policies.
LEMMA SetterValues ==
    \A val \in {RtpDefault, RtcpDefault, AesCm128HmacSha1_32, AesCm128NullAuth,
                NullCipherHmacSha1_80} :
        val # Unset /\ val \in Policies /\ PolicyOK(val)
<1>1. RtpDefault # Unset /\ RtpDefault \in Policies /\ PolicyOK(RtpDefault)
  <2>1. /\ Policy("aes_icm", 16, "hmac_sha1", 20, 10, "sec_serv_conf_and_auth") \in Policies
        /\ PolicyOK(Policy("aes_icm", 16, "hmac_sha1", 20, 10, "sec_serv_conf_and_auth"))
    BY DEF Policy, Policies, SecServices, PolicyOK, MaxTagLen, MaxKeyLen,
           Authenticated, Confidential
  <2>2. QED
    BY <2>1, PolicyValue DEF RtpDefault
<1>2. RtcpDefault = RtpDefault
  BY DEF RtcpDefault, RtpDefault
<1>3. AesCm128HmacSha1_32 # Unset /\ AesCm128HmacSha1_32 \in Policies
      /\ PolicyOK(AesCm128HmacSha1_32)
  <2>1. /\ Policy("aes_icm", 16, "hmac_sha1", 20, 4, "sec_serv_conf_and_auth") \in Policies
        /\ PolicyOK(Policy("aes_icm", 16, "hmac_sha1", 20, 4, "sec_serv_conf_and_auth"))
    BY DEF Policy, Policies, SecServices, PolicyOK, MaxTagLen, MaxKeyLen,
           Authenticated, Confidential
  <2>2. QED
    BY <2>1, PolicyValue DEF AesCm128HmacSha1_32
<1>4. AesCm128NullAuth # Unset /\ AesCm128NullAuth \in Policies
      /\ PolicyOK(AesCm128NullAuth)
  <2>1. /\ Policy("aes_icm", 16, "null_auth", 0, 0, "sec_serv_conf") \in Policies
        /\ PolicyOK(Policy("aes_icm", 16, "null_auth", 0, 0, "sec_serv_conf"))
    BY DEF Policy, Policies, SecServices, PolicyOK, MaxTagLen, MaxKeyLen,
           Authenticated, Confidential
  <2>2. QED
    BY <2>1, PolicyValue DEF AesCm128NullAuth
<1>5. NullCipherHmacSha1_80 # Unset /\ NullCipherHmacSha1_80 \in Policies
      /\ PolicyOK(NullCipherHmacSha1_80)
  <2>1. /\ Policy("null_cipher", 0, "hmac_sha1", 20, 10, "sec_serv_auth") \in Policies
        /\ PolicyOK(Policy("null_cipher", 0, "hmac_sha1", 20, 10, "sec_serv_auth"))
    BY DEF Policy, Policies, SecServices, PolicyOK, MaxTagLen, MaxKeyLen,
           Authenticated, Confidential
  <2>2. QED
    BY <2>1, PolicyValue DEF NullCipherHmacSha1_80
<1>6. QED
  BY <1>1, <1>2, <1>3, <1>4, <1>5

\* from_profile writes, for every supported profile, a well-formed policy
\* whose cipher key is the length the profile lookup reports.
LEMMA ProfilePolicyValues ==
    ASSUME NEW p \in Supported
    PROVE  /\ ProfilePolicy[p] # Unset /\ ProfilePolicy[p] \in Policies
           /\ PolicyOK(ProfilePolicy[p])
           /\ ProfilePolicy[p].cipher_type = "aes_icm" =>
                  ProfilePolicy[p].cipher_key_len = MasterKeyLength(p)
<1>1. p = 1 \/ p = 2 \/ p = 3 \/ p = 4 \/ p = 5 \/ p = 6
  BY DEF Supported
<1> USE DEF ProfilePolicy, MasterKeyLength, RtpDefault, AesCm128HmacSha1_32,
            NullCipherHmacSha1_80, Policy, Policies, SecServices, PolicyOK,
            MaxTagLen, MaxKeyLen, Authenticated, Confidential, Supported, Unset
<1>2. CASE p = 1
  BY <1>2
<1>3. CASE p = 2
  BY <1>3
<1>4. CASE p = 3
  BY <1>4
<1>5. CASE p = 4
  BY <1>5
<1>6. CASE p = 5
  BY <1>6
<1>7. CASE p = 6
  BY <1>7
<1>8. QED
  BY <1>1, <1>2, <1>3, <1>4, <1>5, <1>6, <1>7

\* A master key length the lookup reports is at most AES-256's.
LEMMA KeyLengthBound ==
    ASSUME NEW p
    PROVE  MasterKeyLength(p) \in Nat /\ MasterKeyLength(p) <= LongestKey
BY DEF MasterKeyLength, LongestKey
-----------------------------------------------------------------------------
(* The invariant. *)

\* PolicyWellFormed, one policy at a time.
LEMMA WellFormedIff ==
    PolicyWellFormed <=> \A d \in Dirs : policy[d] # Unset => PolicyOK(policy[d])
BY DEF PolicyWellFormed, PolicyOK

LEMMA CPInit == Init => CPInv
<1> SUFFICES ASSUME Init PROVE CPInv
  OBVIOUS
<1>1. TypeOK
  BY DEF Init, TypeOK, Dirs, Supported
<1>2. PolicyWellFormed /\ ProfileLengthsAgree
  BY DEF Init, PolicyWellFormed, ProfileLengthsAgree
<1>3. keyLen <= LongestKey
  BY DEF Init, LongestKey
<1>4. QED
  BY <1>1, <1>2, <1>3 DEF CPInv

\* A setter that writes a well-formed policy into d, and clears d's
\* profile, keeps CPInv.
LEMMA SetPolicyStep ==
    ASSUME CPInv, NEW d \in Dirs, NEW val, val # Unset, val \in Policies,
           PolicyOK(val), SetPolicy(d, val)
    PROVE  CPInv'
<1>1. TypeOK'
  BY DEF CPInv, TypeOK, SetPolicy
<1>2. \A e \in Dirs : policy'[e] # Unset => PolicyOK(policy'[e])
  BY WellFormedIff DEF CPInv, TypeOK, SetPolicy
<1>3. ProfileLengthsAgree'
  BY DEF CPInv, TypeOK, SetPolicy, ProfileLengthsAgree
<1>4. PolicyWellFormed'
  BY <1>2 DEF PolicyWellFormed, PolicyOK
<1>5. keyLen' <= LongestKey
  BY DEF CPInv, SetPolicy
<1>6. QED
  BY <1>1, <1>3, <1>4, <1>5 DEF CPInv

\* crypto_policy_set_from_profile_for_rtp / _for_rtcp keeps CPInv: a
\* supported profile writes its policy and records the profile together,
\* any other value writes nothing.
LEMMA SetFromProfileStep ==
    ASSUME CPInv, NEW d \in Dirs, NEW p \in ProfileValues, SetFromProfile(d, p)
    PROVE  CPInv'
<1>1. CASE p \in Supported
  <2>1. /\ policy' = [policy EXCEPT ![d] = ProfilePolicy[p]]
        /\ profile' = [profile EXCEPT ![d] = p]
        /\ status' = "ok"
        /\ UNCHANGED <<keyLen, saltLen, overflow>>
    BY <1>1 DEF SetFromProfile
  <2>2. /\ ProfilePolicy[p] # Unset /\ ProfilePolicy[p] \in Policies
        /\ PolicyOK(ProfilePolicy[p])
        /\ ProfilePolicy[p].cipher_type = "aes_icm" =>
               ProfilePolicy[p].cipher_key_len = MasterKeyLength(p)
    BY <1>1, ProfilePolicyValues
  <2>3. TypeOK'
    BY <1>1, <2>1, <2>2 DEF CPInv, TypeOK
  <2>4. \A e \in Dirs : policy'[e] # Unset => PolicyOK(policy'[e])
    BY <2>1, <2>2, WellFormedIff DEF CPInv, TypeOK
  <2>5. ProfileLengthsAgree'
    BY <2>1, <2>2 DEF CPInv, TypeOK, ProfileLengthsAgree
  <2>6. PolicyWellFormed'
    BY <2>4 DEF PolicyWellFormed, PolicyOK
  <2>7. keyLen' <= LongestKey
    BY <2>1 DEF CPInv
  <2>8. QED
    BY <2>3, <2>5, <2>6, <2>7 DEF CPInv
<1>2. CASE p \notin Supported
  <2>1. UNCHANGED <<policy, profile, keyLen, saltLen, overflow>>
        /\ status' = "bad_param"
    BY <1>2 DEF SetFromProfile
  <2>2. QED
    BY <2>1 DEF CPInv, TypeOK, PolicyWellFormed, ProfileLengthsAgree
<1>3. QED
  BY <1>1, <1>2

\* Copying the master key writes a key no longer than AES-256's.
LEMMA CopyMasterKeyStep ==
    ASSUME CPInv, CopyMasterKey
    PROVE  CPInv'
<1>1. MasterKeyLength(profile["rtp"]) \in Nat
      /\ MasterKeyLength(profile["rtp"]) <= LongestKey
  BY KeyLengthBound
<1>2. QED
  BY <1>1 DEF CPInv, CopyMasterKey, TypeOK, PolicyWellFormed, ProfileLengthsAgree

\* Appending the salt leaves the key where it was.
LEMMA AppendSaltStep ==
    ASSUME CPInv, AppendSaltToKey
    PROVE  CPInv'
BY DEF CPInv, AppendSaltToKey, TypeOK, PolicyWellFormed, ProfileLengthsAgree,
       MasterSaltLength

LEMMA CPStep == CPInv /\ [Next]_cpVars => CPInv'
<1> SUFFICES ASSUME CPInv, [Next]_cpVars PROVE CPInv'
  OBVIOUS
<1>1. ASSUME NEW d \in Dirs,
             \/ SetRtpDefault(d) \/ SetRtcpDefault(d)
             \/ SetAesCm128HmacSha1_32(d) \/ SetAesCm128NullAuth(d)
             \/ SetNullCipherHmacSha1_80(d)
      PROVE  CPInv'
  <2>1. \E val \in {RtpDefault, RtcpDefault, AesCm128HmacSha1_32,
                    AesCm128NullAuth, NullCipherHmacSha1_80} : SetPolicy(d, val)
    BY <1>1 DEF SetRtpDefault, SetRtcpDefault, SetAesCm128HmacSha1_32,
                SetAesCm128NullAuth, SetNullCipherHmacSha1_80
  <2>2. QED
    BY <2>1, SetterValues, SetPolicyStep
<1>2. CASE \E d \in Dirs, p \in ProfileValues : SetFromProfile(d, p)
  BY <1>2, SetFromProfileStep
<1>3. CASE CopyMasterKey
  BY <1>3, CopyMasterKeyStep
<1>4. CASE AppendSaltToKey
  BY <1>4, AppendSaltStep
<1>5. CASE UNCHANGED cpVars
  BY <1>5 DEF cpVars, CPInv, TypeOK, PolicyWellFormed, ProfileLengthsAgree
<1>6. QED
  BY <1>1, <1>2, <1>3, <1>4, <1>5 DEF Next

LEMMA CPInvariant == Spec => []CPInv
BY CPInit, CPStep, PTL DEF Spec

-----------------------------------------------------------------------------
(* The theorems. *)

\* Type correctness of the two policies of a stream, their profiles and the
\* key buffer, through any sequence of setters, from_profile calls and key
\* assembly, for every key buffer size.
THEOREM PolicyTypeCorrect == Spec => []TypeOK
BY CPInvariant, PTL DEF CPInv

\* Whatever sequence of crypto_policy_set_* and from_profile calls fills in
\* a stream's RTP and RTCP policies, each is within ASRTPA_MAX_TAG_LEN and
\* ASRTPA_MAX_KEY_LEN and announces authentication and confidentiality
\* exactly when it has the algorithms for them.
THEOREM PoliciesWellFormed == Spec => []PolicyWellFormed
BY CPInvariant, PTL DEF CPInv

\* A policy set by from_profile expects the cipher key length that
\* asrtpa_profile_get_master_key_length reports for the same profile.
THEOREM ProfileKeyLengthsAgree == Spec => []ProfileLengthsAgree
BY CPInvariant, PTL DEF CPInv

\* The key buffer an application assembles with append_salt_to_key never
\* takes a write past its end, provided it holds the longest master key a
\* profile lookup reports and its salt (46 octets).  The hypothesis is
\* needed: nominal_key_buffer_overflow shows a buffer of
\* ASRTPA_MASTER_KEY_LEN octets overflowing under an AES-256 profile.
THEOREM KeyBufferNeverOverflows ==
    ASSUME KeyBufLen >= LongestKey + MasterSaltLength(1)
    PROVE  Spec => []KeyBufferFits
<1> DEFINE KInv == CPInv /\ ~overflow
<1>0. KeyBufLen >= 46
  BY DEF LongestKey, MasterSaltLength
<1>1. Init => KInv
  BY CPInit DEF Init
<1>2. KInv /\ [Next]_cpVars => KInv'
  <2> SUFFICES ASSUME KInv, [Next]_cpVars PROVE KInv'
    OBVIOUS
  <2>1. CPInv'
    BY CPStep
  <2>2. CASE CopyMasterKey
    <3>1. MasterKeyLength(profile["rtp"]) \in Nat
          /\ MasterKeyLength(profile["rtp"]) <= LongestKey
      BY KeyLengthBound
    <3>2. overflow' = (overflow \/ MasterKeyLength(profile["rtp"]) > KeyBufLen)
      BY <2>2 DEF CopyMasterKey
    <3>3. ~(MasterKeyLength(profile["rtp"]) > KeyBufLen)
      BY <1>0, <3>1, SMT DEF LongestKey
    <3>4. QED
      BY <2>1, <3>2, <3>3
  <2>3. CASE AppendSaltToKey
    BY <1>0, <2>1, <2>3 DEF AppendSaltToKey, MasterSaltLength, CPInv, TypeOK,
                            LongestKey
  <2>4. CASE ~CopyMasterKey /\ ~AppendSaltToKey
    <3>1. UNCHANGED overflow
      BY <2>4 DEF Next, cpVars, SetRtpDefault, SetRtcpDefault,
                  SetAesCm128HmacSha1_32, SetAesCm128NullAuth,
                  SetNullCipherHmacSha1_80, SetPolicy, SetFromProfile
    <3>2. QED
      BY <2>1, <3>1
  <2>5. QED
    BY <2>2, <2>3, <2>4
<1>3. KInv => KeyBufferFits
  BY DEF KeyBufferFits
<1>4. QED
  BY <1>1, <1>2, <1>3, PTL DEF Spec
=============================================================================
