---------------------------- MODULE CryptoPolicy ----------------------------
(***************************************************************************)
(* crypto_policy_t and how an application fills it in: the five policy    *)
(* setters, the two profile translations of DTLS-SRTP keying, the profile *)
(* key and salt length lookups, and the key buffer the application        *)
(* assembles from a master key and append_salt_to_key before it hands the *)
(* buffer to asrtpa_create.                                                *)
(*                                                                         *)
(* Each setter fills in one of the two policies of a stream (RTP or        *)
(* RTCP), whichever the caller points it at.  The values are those the    *)
(* setters' names and RFC 3711 give them (AES-128 counter mode takes a 16 *)
(* octet key, HMAC-SHA1 a 20 octet key and an 80 or 32 bit tag), and the  *)
(* profile table of spec 4.1.  The key buffer is abstracted to the octets *)
(* written into it and whether a write went past its end.                  *)
(***************************************************************************)
EXTENDS Naturals

CONSTANTS KeyBufLen   \* octets the application allocated for key and salt

ASSUME KeyBufAssumption == KeyBufLen \in Nat

MasterKeyLen == 30      \* ASRTPA_MASTER_KEY_LEN, the nominal master key length
MaxKeyLen == 64         \* ASRTPA_MAX_KEY_LEN
MaxTagLen == 12         \* ASRTPA_MAX_TAG_LEN

SecServices == {"sec_serv_none", "sec_serv_conf", "sec_serv_auth",
                "sec_serv_conf_and_auth"}

Confidential(ss) == ss \in {"sec_serv_conf", "sec_serv_conf_and_auth"}
Authenticated(ss) == ss \in {"sec_serv_auth", "sec_serv_conf_and_auth"}

Policies == [cipher_type : {"null_cipher", "aes_icm"}, cipher_key_len : Nat,
             auth_type : {"null_auth", "hmac_sha1"}, auth_key_len : Nat,
             auth_tag_len : Nat, sec_serv : SecServices]

Policy(c, ckl, a, akl, tag, ss) ==
    [cipher_type |-> c, cipher_key_len |-> ckl, auth_type |-> a,
     auth_key_len |-> akl, auth_tag_len |-> tag, sec_serv |-> ss]

\* The contents of a crypto_policy_t no setter has filled in yet.
Unset == [cipher_type |-> "unset"]

\* The setters; aes_cm_128_hmac_sha1_80 is a macro for rtp_default.
RtpDefault == Policy("aes_icm", 16, "hmac_sha1", 20, 10, "sec_serv_conf_and_auth")
RtcpDefault == Policy("aes_icm", 16, "hmac_sha1", 20, 10, "sec_serv_conf_and_auth")

AesCm128HmacSha1_32 ==
    Policy("aes_icm", 16, "hmac_sha1", 20, 4, "sec_serv_conf_and_auth")

\* Mutant: the encryption-only policy keeps the default security services.
AesCm128NullAuthServices ==
    Policy("aes_icm", 16, "null_auth", 0, 0, "sec_serv_conf_and_auth")

AesCm128NullAuth == Policy("aes_icm", 16, "null_auth", 0, 0, "sec_serv_conf")

NullCipherHmacSha1_80 == Policy("null_cipher", 0, "hmac_sha1", 20, 10, "sec_serv_auth")

\* asrtpa_profile_t: 0 is reserved, 1 .. 6 are the DTLS-SRTP profiles, and
\* 7 stands for every other value the enum's int can hold.
ProfileValues == 0 .. 7
Supported == 1 .. 6

\* The policy from_profile sets for each supported profile (spec 4.1, 8).
ProfilePolicy ==
    [p \in Supported |->
        CASE p = 1 -> RtpDefault
          [] p = 2 -> AesCm128HmacSha1_32
          [] p = 3 -> Policy("aes_icm", 32, "hmac_sha1", 20, 10, "sec_serv_conf_and_auth")
          [] p = 4 -> Policy("aes_icm", 32, "hmac_sha1", 20, 4, "sec_serv_conf_and_auth")
          [] p = 5 -> NullCipherHmacSha1_80
          [] p = 6 -> Policy("null_cipher", 0, "hmac_sha1", 20, 4, "sec_serv_auth")]

\* Mutant: the key length of every profile taken as AES-128's.
MasterKeyLength128(p) == 16

\* Mutant: the lengths in bits, as the profile names give them.
MasterKeyLengthBits(p) == IF p \in {3, 4} THEN 256 ELSE 128

\* asrtpa_profile_get_master_key_length: 16 octets, 32 for AES-256.
MasterKeyLength(p) == IF p \in {3, 4} THEN 32 ELSE 16

\* asrtpa_profile_get_master_salt_length: 14 octets (RFC 3711).
MasterSaltLength(p) == 14

Dirs == {"rtp", "rtcp"}

VARIABLES policy,    \* policy[d]: the application's crypto_policy_t for d
          profile,   \* profile[d]: the profile policy[d] was set from, or 0
          keyLen,    \* octets of master key in the key buffer
          saltLen,   \* octets of salt appended after them
          overflow,  \* a write went past the end of the key buffer
          status     \* err_status_t of the last from_profile call

cpVars == <<policy, profile, keyLen, saltLen, overflow, status>>

TypeOK ==
    /\ DOMAIN policy = Dirs
    /\ \A d \in Dirs : policy[d] = Unset \/ policy[d] \in Policies
    /\ profile \in [Dirs -> {0} \cup Supported]
    /\ keyLen \in Nat /\ saltLen \in Nat
    /\ overflow \in BOOLEAN
    /\ status \in {"none", "ok", "bad_param"}

Init ==
    /\ policy = [d \in Dirs |-> Unset]
    /\ profile = [d \in Dirs |-> 0]
    /\ keyLen = 0 /\ saltLen = 0
    /\ overflow = FALSE
    /\ status = "none"

\* A crypto_policy_set_* call on the policy for d.
SetPolicy(d, val) ==
    /\ policy' = [policy EXCEPT ![d] = val]
    /\ profile' = [profile EXCEPT ![d] = 0]
    /\ UNCHANGED <<keyLen, saltLen, overflow, status>>

SetRtpDefault(d) == SetPolicy(d, RtpDefault)
SetRtcpDefault(d) == SetPolicy(d, RtcpDefault)
SetAesCm128HmacSha1_32(d) == SetPolicy(d, AesCm128HmacSha1_32)
SetAesCm128NullAuth(d) == SetPolicy(d, AesCm128NullAuth)
SetNullCipherHmacSha1_80(d) == SetPolicy(d, NullCipherHmacSha1_80)

\* Mutant: the profile is recorded before it is validated.
SetFromProfileEager(d, p) ==
    /\ \/ /\ p \in Supported
          /\ policy' = [policy EXCEPT ![d] = ProfilePolicy[p]]
          /\ status' = "ok"
       \/ /\ p \notin Supported
          /\ status' = "bad_param"
          /\ UNCHANGED policy
    /\ profile' = [profile EXCEPT ![d] = p]
    /\ UNCHANGED <<keyLen, saltLen, overflow>>

\* crypto_policy_set_from_profile_for_rtp / _for_rtcp: bad_param for the
\* reserved value and for values outside the enum, the policy untouched.
SetFromProfile(d, p) ==
    /\ \/ /\ p \in Supported
          /\ policy' = [policy EXCEPT ![d] = ProfilePolicy[p]]
          /\ profile' = [profile EXCEPT ![d] = p]
          /\ status' = "ok"
       \/ /\ p \notin Supported
          /\ status' = "bad_param"
          /\ UNCHANGED <<policy, profile>>
    /\ UNCHANGED <<keyLen, saltLen, overflow>>

\* The application copies the negotiated master key, of the length the
\* profile's lookup gives, to the start of its key buffer.
CopyMasterKey ==
    LET n == MasterKeyLength(profile["rtp"])
    IN  /\ profile["rtp"] # 0
        /\ keyLen' = n
        /\ saltLen' = 0
        /\ overflow' = (overflow \/ n > KeyBufLen)
        /\ UNCHANGED <<policy, profile, status>>

\* append_salt_to_key(key, keyLen, salt, slen): the salt is copied to the
\* slen octets that follow the keyLen octets of key; the header requires
\* the buffer to hold keyLen + slen octets, and nothing checks it.
AppendSaltToKey ==
    LET slen == MasterSaltLength(profile["rtp"])
    IN  /\ profile["rtp"] # 0
        /\ keyLen > 0 /\ saltLen = 0
        /\ saltLen' = slen
        /\ overflow' = (overflow \/ keyLen + slen > KeyBufLen)
        /\ UNCHANGED <<policy, profile, keyLen, status>>

Next ==
    \/ \E d \in Dirs :
          \/ SetRtpDefault(d) \/ SetRtcpDefault(d)
          \/ SetAesCm128HmacSha1_32(d) \/ SetAesCm128NullAuth(d)
          \/ SetNullCipherHmacSha1_80(d)
          \/ \E p \in ProfileValues : SetFromProfile(d, p)
    \/ CopyMasterKey
    \/ AppendSaltToKey

Spec == Init /\ [][Next]_cpVars

-----------------------------------------------------------------------------
(***************************************************************************)
(* Properties.                                                             *)
(***************************************************************************)

\* crypto_policy_t's limits and its sec_serv flag (spec 3; srtp.h:67-82,
\* 99-138): whatever sequence of setters and from_profile calls fills in
\* the two policies, each fits ASRTPA_MAX_TAG_LEN and ASRTPA_MAX_KEY_LEN,
\* and asks for authentication exactly when it has an HMAC with a tag and
\* for confidentiality exactly when it has a cipher with a key, so that
\* protect never appends a tag the policy did not announce, nor skips one
\* it did.
PolicyWellFormed ==
    \A d \in Dirs :
        policy[d] # Unset =>
            LET q == policy[d]
            IN  /\ q.auth_tag_len <= MaxTagLen
                /\ q.cipher_key_len <= MaxKeyLen /\ q.auth_key_len <= MaxKeyLen
                /\ Authenticated(q.sec_serv)
                       <=> (q.auth_type = "hmac_sha1" /\ q.auth_tag_len > 0)
                /\ Confidential(q.sec_serv)
                       <=> (q.cipher_type = "aes_icm" /\ q.cipher_key_len > 0)

\* DTLS-SRTP keying (spec 4.1): a policy set from a profile expects the
\* cipher key that asrtpa_profile_get_master_key_length reports for the
\* same profile, so the master key the application sizes by the lookup
\* is the key the policy's cipher is given.
ProfileLengthsAgree ==
    \A d \in Dirs :
        profile[d] # 0 /\ policy[d].cipher_type = "aes_icm" =>
            policy[d].cipher_key_len = MasterKeyLength(profile[d])

\* append_salt_to_key's precondition (srtp.h:655-656): the key buffer the
\* application assembles from the profile's master key and master salt
\* lengths never takes a write past its end.
KeyBufferFits == ~overflow
=============================================================================
