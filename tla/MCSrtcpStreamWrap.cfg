CONSTANTS
    IndexSpace <- MCIndexSpace
    RtcpWindow <- MCRtcpWindow
    HardLimit <- MCWrapLimit
    SecServ = "sec_serv_conf_and_auth"
SPECIFICATION Spec
INVARIANT
    NoRtcpIndexReuse
