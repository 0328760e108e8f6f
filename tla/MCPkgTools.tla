----------------------------- MODULE MCPkgTools -----------------------------
(***************************************************************************)
(* Small instances of PkgTools.  "A0", "A1" and "A2" are versions of a     *)
(* package A, "A1l" and "A2b" other builds under the file names of "A1"    *)
(* and "A2", "B" another package; they share "d" and "d/x".  "l" is a      *)
(* symbolic link to "d"; "[l]", as a regular expression, matches it and    *)
(* not itself.                                                             *)
(***************************************************************************)
EXTENDS PkgTools

OneRoot == {"/"}
TwoRoots == {"/", "/target"}

MCName == [p \in Packages |-> IF p = "B" THEN "B" ELSE "A"]
MCPkg == [a \in Archives |->
  CASE a = "A1l" -> "A1" [] a = "A2b" -> "A2" [] OTHER -> a]

MCShips == [a \in Archives |-> Paths \cap
  CASE a = "A0"  -> {"d", "d/x"}
    [] a = "A1"  -> {"d", "d/x", "d/y"}
    [] a = "A1l" -> {"d", "d/x", "l", "[l]"}
    [] a = "A2"  -> {"d", "d/s", "d/x", "d/s/z", "[l]"}
    [] a = "A2b" -> {"d", "d/x"}
    [] a = "B"   -> {"d", "d/x"}]

MCAnc == [p \in Paths |->
  CASE p \in {"d", "l", "[l]"} -> {}
    [] p = "d/s/z" -> {"d", "d/s"}
    [] OTHER -> {"d"}]

MCTarget == [l \in Links |-> "d"]
Exact == [p \in Paths |-> {p}]
ByPattern == [p \in Paths |-> IF p = "[l]" THEN {"l"} ELSE {p}]
=============================================================================
