----------------------------- MODULE MCCaptureLab -----------------------------
(* Model values for TLC: two trials that start with different arms, two    *)
(* accepted profiles, three captures of which one may be a recording.      *)
EXTENDS CaptureLab

CONSTANTS t1, t2
MCTrials == {t1, t2}
MCFirstArm == [t \in MCTrials |-> IF t = t1 THEN "control" ELSE "candidate"]
MCProfiles == 1 .. 2
MCAccepted == 1 .. 2
MCMaxFrames == [k \in Kinds |-> IF k = "still" THEN 3 ELSE 1]
=============================================================================
