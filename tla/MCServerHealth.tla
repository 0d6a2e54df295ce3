--------------------------- MODULE MCServerHealth ---------------------------
(***************************************************************************)
(* Instances of ServerHealth for TLC.                                      *)
(***************************************************************************)
EXTENDS ServerHealth, TLC

MCServers == <<"s1", "s2">>
MCDelay == <<1, 2>>

Symmetry == Permutations(Attempt) \cup Permutations(Signature)

=============================================================================
