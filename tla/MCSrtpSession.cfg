CONSTANTS
    x1 = x1
    x2 = x2
    Ssrcs <- MCSsrcs
    SeqSpace <- MCSeqSpaceSmall
    RocSpace <- MCRocSpace
    KeyLimit = 2
    MaxKeys = 2
    MaxPolicies = 2

SPECIFICATION Spec
VIEW MCView

INVARIANTS
    TypeOK
    SharedKeyBounded
    KeysIntact
