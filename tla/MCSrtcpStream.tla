--------------------------- MODULE MCSrtcpStream ---------------------------
(* Small instances of SrtcpStream: a 3-bit index space with a window of 4, *)
(* so that old indices fall out of the window, and a hard limit either at  *)
(* the size of the index space or (as 2^48 is past 2^31) beyond it.        *)
EXTENDS SrtcpStream

MCIndexSpace == 8
MCRtcpWindow == 4
MCLimit == 8      \* the hard limit at the index space: the whole space used
MCWrapLimit == 9  \* a hard limit past the index space
=============================================================================
