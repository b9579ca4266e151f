--------------------------- MODULE MCConfigWatchers ---------------------------
(***************************************************************************)
(* Small instances of ConfigWatchers.                                      *)
(***************************************************************************)
EXTENDS ConfigWatchers
=============================================================================
