\* Two sign-ins and two requests, with an answer lost or a store that refuses.
SPECIFICATION Spec
CONSTANTS
    c1 = c1
    c2 = c2
    r1 = r1
    r2 = r2
    NoCode = NoCode
    NoCredential = NoCredential
    Codes <- TwoCodes
    Requests <- TwoRequests
    MaxPolls = 1
    MaxRenewals = 1
    MaxFailures = 1
    MaxSignOuts = 0
SYMMETRY Symmetry
INVARIANTS
    RefreshIsUsable
CHECK_DEADLOCK FALSE
