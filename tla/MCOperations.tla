---- MODULE MCOperations ----
\* The tabs of the client and the operations of the Git backend, each on its
\* own: a behaviour chooses one module and runs it.
EXTENDS ConflictSession, WorktreeOperations, RefOperations, RepositoryTabs

VARIABLE focus  \* the component this behaviour runs

CONSTANTS t1, t2, r1, r2, inside

TwoTabs == {t1, t2}
TwoRoots == {r1, r2}
\* The repositories, and a folder inside the first.
WithInside == Roots \cup {inside}
RootOfFolder == [f \in Folders |-> IF f = inside THEN r1 ELSE f]
Symmetry == Permutations(Tabs)
Everything == {"open", "clone", "create", "reopen"}

Literal == [f \in Files |-> {f}]

C(parents, n) == [parents |-> parents, change |-> n, message |-> n]

\* Four commits in a line; a merge with a commit after it.
Linear == <<C(<<>>, 1), C(<<1>>, 2), C(<<2>>, 3), C(<<3>>, 4)>>
Merged == <<C(<<>>, 1), C(<<1>>, 2), C(<<1>>, 3), C(<<2, 3>>, 4), C(<<4>>, 5)>>
Histories == {Linear, Merged}

OperationInit ==
    /\ focus \in {"conflict", "worktree", "refs", "tabs"}
    /\ ConflictInit
    /\ WorktreeInit
    /\ focus # "worktree" =>
       /\ born /\ files = head
    /\ RefInit
    /\ focus # "refs" =>
       /\ graph = Linear /\ branches[Main] = 4 /\ branches[RefSide] = 3
       /\ at.branch = Main /\ ~dirty
    /\ IF focus = "tabs" THEN TabInit
       ELSE /\ disk = {}
            /\ TabInit

OperationNext ==
    /\ UNCHANGED focus
    /\ \/ /\ focus = "conflict" /\ ConflictNext
          /\ UNCHANGED <<worktreeVars, refVars, tabVars>>
       \/ /\ focus = "worktree" /\ WorktreeNext
          /\ UNCHANGED <<conflictVars, refVars, tabVars>>
       \/ /\ focus = "refs" /\ RefNext
          /\ UNCHANGED <<conflictVars, worktreeVars, tabVars>>
       \/ /\ focus = "tabs" /\ TabNext
          /\ UNCHANGED <<conflictVars, worktreeVars, refVars>>

OperationSpec == OperationInit /\ [][OperationNext]_<<focus, conflictVars, worktreeVars, refVars, tabVars>>

\* Every module keeps its types: the type invariant of each.
OperationsTypeOK ==
    /\ ConflictTypeOK
    /\ WorktreeTypeOK
    /\ RefTypeOK
    /\ TabTypeOK
====
