------------------------------ MODULE MCTtlCache ------------------------------
(* Instances of TtlCache for TLC.                                           *)
EXTENDS TtlCache, TLC

\* Accounts and tasks are only compared for equality.
Symmetry == Permutations(Keys) \cup Permutations(Tasks)
=============================================================================
