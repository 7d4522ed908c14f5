---------------------------- MODULE MCTrialStore ----------------------------
(* Model values for TLC: three frozen trials and two runs of the script.   *)
EXTENDS TrialStore, TLC

CONSTANTS t1, t2, t3, p1, p2
TwoTrials == {t1, t2}
MCTrials == {t1, t2, t3}
MCIngests == {p1, p2}
Symmetry == Permutations(MCTrials) \cup Permutations(MCIngests)
=============================================================================
