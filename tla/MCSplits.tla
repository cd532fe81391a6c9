------------------------------ MODULE MCSplits ------------------------------
(* The resources are alike, and so are the images that compress alike. *)
EXTENDS Splits, TLC

Symmetry == Permutations(Resource)
                \cup Permutations(Compressible) \cup Permutations(Key \ Compressible)
=============================================================================
