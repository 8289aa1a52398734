--------------------------- MODULE MCArrayMetadata ---------------------------
(* Instances of ArrayMetadata. *)
EXTENDS ArrayMetadata, TLC

Symmetry == Permutations(Keys) \union Permutations(Values) \union Permutations(Vacuums)

=============================================================================
