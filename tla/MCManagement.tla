---------------------------- MODULE MCManagement ----------------------------
(***************************************************************************)
(* An instance of Management for TLC.                                      *)
(***************************************************************************)
EXTENDS Management, TLC

Symmetry == Permutations(Client) \cup Permutations(Password)

=============================================================================
