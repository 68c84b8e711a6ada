CONSTANTS
    KeyBufLen <- MCNominalKeyBuf

SPECIFICATION Spec

INVARIANT
    KeyBufferFits
