CONSTANTS
    IndexSpace <- MCIndexSpace
    RtcpWindow <- MCRtcpWindow
    HardLimit <- MCLimit
    SecServ = "sec_serv_conf_and_auth"
SPECIFICATION Spec
INVARIANTS
    TypeOK
    RtcpReplayProtected
    RtcpAcceptedAsSent
    NoRtcpIndexReuse
