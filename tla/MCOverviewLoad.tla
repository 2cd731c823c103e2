--------------------------- MODULE MCOverviewLoad ---------------------------
(***************************************************************************)
(* Small instances of OverviewLoad.                                        *)
(***************************************************************************)
EXTENDS OverviewLoad, TLC

CONSTANTS ra, rb, c1, c2

TwoRepos == {ra, rb}
OneRepo == {ra}
TwoClicks == {c1, c2}
NoClicks == {}

RepoSymmetry == Permutations(Repos) \cup Permutations(Clicks)
=============================================================================
