------------------------------ MODULE MCRebuild ------------------------------
(* Rebuild for TLC.                                                        *)
EXTENDS Rebuild, TLC

Symmetry == Permutations(Workers) \cup Permutations(Raws) \cup Permutations(Concepts)
=============================================================================
