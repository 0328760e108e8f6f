---------------------------- MODULE MCConfigFile ----------------------------
(***************************************************************************)
(* Small instances of ConfigFile: versions 1 to 3, the first two with the  *)
(* same file, as when only the program changes.                            *)
(***************************************************************************)
EXTENDS ConfigFile

MCUpstream == [v \in Releases |-> IF v < 3 THEN "first" ELSE "second"]
=============================================================================
