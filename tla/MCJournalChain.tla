--------------------------- MODULE MCJournalChain ---------------------------
(* Model values for TLC: two bodies tell an edited entry from the original.*)
EXTENDS JournalChain

CONSTANTS b1, b2
MCBodies == {b1, b2}
=============================================================================
