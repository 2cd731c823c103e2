\* Two conflicted paths, two files, four or five commits; two tabs and two
\* repositories: one operation of each at a time, beside another program.
SPECIFICATION OperationSpec
CONSTANTS
    ConflictPaths = {1, 2}
    ChunkSize = 1
    MaxRounds = 2
    MaxForeign = 1
    MaxCalls = 1
    Files = {"README.md", "a"}
    Readme = "README.md"
    PathMatches <- Literal
    MaxContent = 3
    MaxOutside = 2
    MaxOperations = 2
    Branches = {"main", "topic", "new"}
    Main = "main"
    RefSide = "topic"
    Tags = {"v1"}
    Graphs <- Histories
    MaxCommits = 8
    MaxAside = 1
    MaxRequests = 1
    t1 = t1
    t2 = t2
    r1 = r1
    r2 = r2
    inside = inside
    NoTab = NoTab
    NoHandle = NoHandle
    Tabs <- TwoTabs
    Roots <- TwoRoots
    Folders <- WithInside
    RootOf <- RootOfFolder
    Kinds <- Everything
    MaxHandles = 1
    MaxLaunches = 0
SYMMETRY Symmetry
INVARIANTS DiscardedIsHead TabShowsItsRepository
PROPERTIES  UnseenEditKept WorkIsKept CommitsSurvive OfferedIsAccepted
CHECK_DEADLOCK FALSE
