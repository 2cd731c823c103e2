-------------------------- MODULE MCRepositoryTabs --------------------------
(***************************************************************************)
(* Small instances of RepositoryTabs.                                      *)
(***************************************************************************)
EXTENDS RepositoryTabs, TLC

CONSTANTS t1, t2, t3, r1, r2, inside

TwoTabs == {t1, t2}
OneRoot == {r1}
TwoRoots == {r1, r2}
JustRoots == Roots
WithInside == Roots \cup {inside}
RootOfFolder == [f \in Folders |-> IF f = inside THEN r1 ELSE f]

OpenOnly == {"open"}
Everything == {"open", "clone", "create", "reopen"}

Symmetry == Permutations(Tabs)
=============================================================================
