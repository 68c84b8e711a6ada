CONSTANTS
    KeyBufLen <- MCMaxKeyBuf

SPECIFICATION Spec

INVARIANTS
    TypeOK
    PolicyWellFormed
    ProfileLengthsAgree
    KeyBufferFits
