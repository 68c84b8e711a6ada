CONSTANTS
    x1 = x1
    x2 = x2
    Ssrcs <- MCSsrcs
    SeqSpace <- MCSeqSpace
    RocSpace <- MCRocSpace
    KeyLimit = 2
    MaxKeys = 2
    MaxPolicies = 2

SPECIFICATION Spec

INVARIANT SessionReplayProtection
