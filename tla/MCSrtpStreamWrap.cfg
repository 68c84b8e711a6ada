CONSTANTS
    SeqSpace <- MCSeqSpace
    RocSpace <- MCRocSpace
    SecServ = "sec_serv_conf_and_auth"
    SoftLimit = 2
    HardLimit = 4
    Data = {d1, d2}
    MaxPackets = 5
SPECIFICATION Spec
INVARIANT
    InWindowAccepted
