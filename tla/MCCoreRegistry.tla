--------------------------- MODULE MCCoreRegistry ---------------------------
(***************************************************************************)
(* Small instances of CoreRegistry: a repository with a linked worktree    *)
(* (one common directory) and, where wanted, an unrelated repository.      *)
(***************************************************************************)
EXTENDS CoreRegistry, TLC

CONSTANTS t1, t2, t3, i1, i2, i3, main, linked, other, gitA, gitB

TwoTasks == {t1, t2}
TwoIds == {i1, i2}
Worktrees == {main, linked}
OneDir == {gitA}
WorktreesAndOther == {main, linked, other}
TwoDirs == {gitA, gitB}

DirOfWorktrees == [p \in Worktrees |-> gitA]
DirOfAll == [p \in WorktreesAndOther |-> IF p = other THEN gitB ELSE gitA]

\* Tasks are interchangeable, and so are fresh handles.
TaskAndIdSymmetry == Permutations(Tasks) \cup Permutations(Ids)
=============================================================================
