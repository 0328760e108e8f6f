----------------------------- MODULE MCPkgBuild -----------------------------
(***************************************************************************)
(* Small instances of PkgBuild: libelf, a custom package, needs musl, an   *)
(* autoconf package.  Revisions 1 and 2 have one version, revision 3 the   *)
(* next.                                                                   *)
(***************************************************************************)
EXTENDS PkgBuild

MCVersionOf == [p \in Pkgs |-> [v \in Revs |-> IF v < 3 THEN 1 ELSE 2]]
OneDep == [p \in Pkgs |-> [v \in Revs |-> IF p = "libelf" THEN {"musl"} ELSE {}]]
NoDeps == [p \in Pkgs |-> [v \in Revs |-> {}]]
Forward == {<<1, 2>>, <<2, 3>>}
AnyWay == {e \in Revs \X Revs : e[1] # e[2]}
=============================================================================
