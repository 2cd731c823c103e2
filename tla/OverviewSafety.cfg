\* Two tabs, the watcher and the fetch timer, whose fetches may fail.
SPECIFICATION Spec
CONSTANTS
    ra = ra
    rb = rb
    c1 = c1
    c2 = c2
    NoRepo = NoRepo
    NoClick = NoClick
    NoScreen = NoScreen
    Unread = Unread
    Repos <- TwoRepos
    Clicks <- NoClicks
    Watched = TRUE
    AutoFetch = TRUE
    Staging = FALSE
    MaxVersion = 1
    MaxLoads = 2
    MaxPages = 2
    MaxFailures = 0
SYMMETRY RepoSymmetry
INVARIANTS
    ScreenIsActive
PROPERTIES
    NewestAnswerWins
