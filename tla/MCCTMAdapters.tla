--------------------------- MODULE MCCTMAdapters ---------------------------
(* Model values for TLC: two adapters and two digests, manifests and       *)
(* preregistration documents alike.                                        *)
EXTENDS CTMAdapters

CONSTANTS h1, h2, a1, a2
MCDigest == {h1, h2}
MCAdapters == {a1, a2}
=============================================================================
