---- MODULE MCCommands ----
(***************************************************************************)
(* Small instances of Commands.  A setting is one of two values; keys are  *)
(* interchangeable.                                                        *)
(***************************************************************************)
EXTENDS Commands, TLC

KeySymmetry == Permutations(Key)

====
