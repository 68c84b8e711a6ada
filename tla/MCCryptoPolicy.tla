--------------------------- MODULE MCCryptoPolicy ---------------------------
EXTENDS CryptoPolicy

\* A key buffer of ASRTPA_MAX_KEY_LEN octets, the largest key the library
\* supports.
MCMaxKeyBuf == MaxKeyLen

\* A key buffer of ASRTPA_MASTER_KEY_LEN octets, the nominal master key
\* length of the header.
MCNominalKeyBuf == MasterKeyLen
=============================================================================
