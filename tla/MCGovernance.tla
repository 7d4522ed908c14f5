---------------------------- MODULE MCGovernance ----------------------------
(* Model values for TLC: two machines of one experiment, one cohort of it, *)
(* and a second experiment that corrections might refer into.              *)
EXTENDS Governance, TLC

CONSTANTS x1, x2, m1, m2, c1, e1, e2, e3, e4
MCExperiments == {x1, x2}
MCMachines == {m1, m2}
MCCohorts == {c1}
MCEventNames == {e1, e2, e3, e4}
MCExperimentOf == [a \in MCMachines \cup MCCohorts |-> x1]
Symmetry == Permutations(MCMachines) \cup Permutations(MCEventNames)
=============================================================================
