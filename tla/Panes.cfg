SPECIFICATION PanesSpec
CONSTANTS
    Files <- MCFiles
    DiffBound = 3
    PanelHistories <- MCHistories
    FirstRepo = "r1"
    PanelBound = 4
    SeedParents <- MCSeedParents
    SeedBranches <- MCSeedBranches
    SeedRemotes <- MCSeedRemotes
    SeedEntries <- MCSeedEntries
    FreshNames = {"x"}
    RenameTaken = FALSE
    Texts = {"a"}
    PageLimit = 2
    DemoBound = 3
    Logs <- MCLogs
    Wordings = {"", "a", "n"}
    RewordBound = 4
    PaneTabs = {"t1", "t2"}
    PaneFiles = {"f"}
    Words = {"", "w"}
    PaneBound = 3
    MergeDocuments <- MCDocuments
    MergeBound = 5
    Integrations <- MCIntegrations
    LinksOnly = {"gitlab"}
    Listed <- MCListed
    FormBound = 4
    TreePaths <- MCTreePaths
    OpenDepth = 1
    TreeBound = 3
    RowCount = 4
    PageRows = 3
    StashRows = {1, 3}
    Slots = 2
    ColumnWidths = {0, 41, 42, 60, 77, 96, 200}
    DefaultKeys <- MCKeys
    Unchecked = {"reopen"}
    Pressed <- MCPressed
    SystemKeys <- MCSystemKeys
    BareKeys = {"Tab", "Escape", "Backspace"}
    Presets <- MCPresets
    StateFiles <- MCStateFiles
    TypedNames = {0, 9}
    TypedNumbers = {999}
    TypedHosts = {"ghe"}
    HostRoom = 2
    EditBound = 2
    ColumnOrder <- MCColumnOrder
    ColumnFloor <- MCColumnFloor
    BornWidths <- MCBornWidths
    TightWidths <- MCTightWidths
    LaneExtents = {96, 176}
    Pointers = {0, 50, 3000}
    ColumnBound = 4
    RowScreens <- MCRowScreens
    ServiceLists <- MCLists
    OwnerOf <- MCOwnerOf
    CheckedAtMost = 1
    RowBound = 3
    Emails = {"e", "f"}
    AvatarRepos = {"a", "b", ""}
    AvatarBound = 3
    Targets = {"m", "n"}
    FirstTarget = "m"
    TrialTabs = {"t1", "t2"}
    TrialBound = 4
INVARIANTS
     PanelIsOfSelection  SavedIsChosen
    BranchLineIsClear LanesAreToldApart SavesAreAccepted PreviewEnds
    InitialsAreRetried AnswersAreOfScreen
PROPERTIES
     ReturnClearsItsOwn ToggleIsLocal DragEndsUnderPointer
CHECK_DEADLOCK FALSE
