------------------------------ MODULE MCAccess ------------------------------
(***************************************************************************)
(* Instances of Access for TLC.                                            *)
(***************************************************************************)
EXTENDS Access, TLC

Symmetry == Permutations(Mac) \cup Permutations(Settings)

=============================================================================
