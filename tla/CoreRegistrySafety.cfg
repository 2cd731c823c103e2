\* Two calls over a repository, its linked worktree and an unrelated repository,
\* while gitcat changes them.
SPECIFICATION Spec
CONSTANTS
    t1 = t1
    t2 = t2
    t3 = t3
    i1 = i1
    i2 = i2
    i3 = i3
    main = main
    linked = linked
    other = other
    gitA = gitA
    gitB = gitB
    Tasks <- TwoTasks
    Paths <- WorktreesAndOther
    CommonDirs <- TwoDirs
    CommonDirOf <- DirOfAll
    Ids <- TwoIds
    NoId = NoId
    NoEntry = NoEntry
    MaxChanges = 2
    MaxExternal = 0
SYMMETRY TaskAndIdSymmetry
INVARIANTS
    MutationExclusion
    OneHandlePerPath
    GuardedOnExpected
PROPERTIES
    ImplementsPromise
