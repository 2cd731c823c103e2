\* Two calls that the runtime drives to their end, beside other programs.
SPECIFICATION FairSpec
CONSTANTS
    t1 = t1
    t2 = t2
    t3 = t3
    i1 = i1
    i2 = i2
    i3 = i3
    main = main
    linked = linked
    other = other
    gitA = gitA
    gitB = gitB
    Tasks <- TwoTasks
    Paths <- Worktrees
    CommonDirs <- OneDir
    CommonDirOf <- DirOfWorktrees
    Ids <- TwoIds
    NoId = NoId
    NoEntry = NoEntry
    MaxChanges = 0
    MaxExternal = 1
PROPERTIES
    CallsReturn
    ClosingIsReleased
