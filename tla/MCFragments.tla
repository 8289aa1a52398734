----------------------------- MODULE MCFragments -----------------------------
(* Instances of Fragments for model checking. *)
EXTENDS Fragments, TLC

MCCoords == 0..1
OneCell == {{0}}
MixedCells == {{0}, {0, 1}}

Symmetry == Permutations(Consolidators) \cup Permutations(Vacuums)
=============================================================================
