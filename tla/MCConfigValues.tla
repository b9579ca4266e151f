---------------------------- MODULE MCConfigValues ----------------------------
(***************************************************************************)
(* Small instances of ConfigValues.  Calls and paths are interchangeable.  *)
(***************************************************************************)
EXTENDS ConfigValues, TLC

Symmetry == Permutations(Calls) \cup Permutations(Paths)
=============================================================================
