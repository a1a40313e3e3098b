------------------------------ MODULE MCAshmem ------------------------------
(* Ashmem for TLC: areas and ranges are interchangeable. *)
EXTENDS Ashmem, TLC

Symmetry == Permutations(Area) \cup Permutations(RangeId)
=============================================================================
