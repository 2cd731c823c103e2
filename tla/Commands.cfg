SPECIFICATION CommandSpec
CONSTANTS
    Repos = {r1, r2}
    FirstTab = r1
    Commands = {"push", "skip"}
    Shapes <- Screens
    KeptToasts = 1
    MaxAsked = 2
    MaxActionCalls = 1
    MaxChanges = 1
INVARIANTS RunsWhereAsked NoDeadItems MenuOwnAnswers
CHECK_DEADLOCK FALSE
