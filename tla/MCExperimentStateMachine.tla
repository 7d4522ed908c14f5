---------------------- MODULE MCExperimentStateMachine ----------------------
(* Model values for TLC: two digests are enough to present a digest other  *)
(* than the pinned one.                                                    *)
EXTENDS ExperimentStateMachine

CONSTANTS h1, h2
MCDigest == {h1, h2}
=============================================================================
