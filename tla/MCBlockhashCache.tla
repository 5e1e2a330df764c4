--------------------------- MODULE MCBlockhashCache ---------------------------
(* Instances of BlockhashCache for TLC.                                     *)
EXTENDS BlockhashCache, TLC

\* Readers are only compared for equality.
Symmetry == Permutations(Readers)
=============================================================================
