---------------------------- MODULE MCSrtpStream ----------------------------
(* Small instances of SrtpStream for TLC. *)
EXTENDS SrtpStream

\* An RTP sequence space of 8 numbers (window 4) and 3 rollovers.
MCSeqSpace == 8
MCRocSpace == 3
=============================================================================
