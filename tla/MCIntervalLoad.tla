----------------------------- MODULE MCIntervalLoad -----------------------------
(* Bounds for checking IntervalLoad.                                       *)
EXTENDS IntervalLoad, TLC

(* Manifests are interchangeable, and so are jobs.                         *)
Symmetry == Permutations(Manifests) \cup Permutations(Jobs)
=============================================================================
