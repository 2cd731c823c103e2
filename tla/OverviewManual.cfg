\* The fetch timer switched off: a tab, two optimistic mutations, the watcher.
SPECIFICATION FairSpec
CONSTANTS
    ra = ra
    rb = rb
    c1 = c1
    c2 = c2
    NoRepo = NoRepo
    NoClick = NoClick
    NoScreen = NoScreen
    Unread = Unread
    Repos <- OneRepo
    Clicks <- TwoClicks
    Watched = TRUE
    AutoFetch = FALSE
    Staging = TRUE
    MaxVersion = 1
    MaxLoads = 1
    MaxPages = 1
    MaxFailures = 1
INVARIANTS
    SpinnerHasLoad
PROPERTIES
    ToolbarIsReleased
