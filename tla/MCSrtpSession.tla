---------------------------- MODULE MCSrtpSession ----------------------------
EXTENDS SrtpSession, TLC

CONSTANTS x1, x2

MCSsrcs == {x1, x2}
MCSeqSpace == 4

\* Two sequence numbers: each stream takes one packet per window, enough
\* for key sharing, removal and re-cloning, which the passing run is about.
MCSeqSpaceSmall == 2
MCRocSpace == 1

\* The two SSRCs play interchangeable roles in every call and property.
\* States that differ only in the return code of the last call or in the
\* collision events raised have the same successors, and no property of
\* the passing run reads either.
MCView == <<sess, tmpl, strm, used, nextKey, zeroed, sent, acc>>

MCSymmetry == Permutations(MCSsrcs)
=============================================================================
