--------------------------- MODULE MCReleaseIngest ---------------------------
(* Instances of ReleaseIngest for TLC: scripts, ids and dates interchange.  *)
EXTENDS ReleaseIngest, TLC

Symmetry ==
  Permutations(Scripts) \cup Permutations(Experiments) \cup Permutations(Dates)

=============================================================================
