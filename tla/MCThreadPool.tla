---------------------------- MODULE MCThreadPool -----------------------------
(* Symmetry for the safety run: regions are interchangeable stack slots.    *)
EXTENDS ThreadPoolProofs
RegionSymmetry == Permutations(Regions)
=============================================================================
