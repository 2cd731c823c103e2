\* Four clicks, timers that fire, and a holder that may never let go.
SPECIFICATION FairSpec
CONSTANTS
    a = a
    b = b
    c = c
    d = d
    e = e
    fetch = fetch
    push = push
    Tasks <- FourTasks
    Keys <- TwoKeys
    NoKey = NoKey
    NoTask = NoTask
    Limit = 2
    Timeout = 2
INVARIANTS
    FirstComeFirstServed
    WaitingIsBounded
PROPERTIES
    AcceptedTasksEnd
