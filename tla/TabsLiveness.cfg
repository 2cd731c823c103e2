\* Two tabs and two repositories, every way into a tab, with a launch.
SPECIFICATION FairTabSpec
CONSTANTS
    t1 = t1
    t2 = t2
    t3 = t3
    r1 = r1
    r2 = r2
    inside = inside
    NoTab = NoTab
    NoHandle = NoHandle
    Tabs <- TwoTabs
    Roots <- TwoRoots
    Folders <- JustRoots
    RootOf <- RootOfFolder
    Kinds <- Everything
    MaxHandles = 1
    MaxLaunches = 1
PROPERTIES
    ActiveTabOpens
