------------------------------ MODULE MCPosition ------------------------------
(* Instances of Position for TLC.                                           *)
EXTENDS Position
=============================================================================
