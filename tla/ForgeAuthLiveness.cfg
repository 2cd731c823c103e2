\* Two sign-ins followed to their deadline, and a sign-out.
SPECIFICATION FairSpec
CONSTANTS
    c1 = c1
    c2 = c2
    r1 = r1
    r2 = r2
    NoCode = NoCode
    NoCredential = NoCredential
    Codes <- TwoCodes
    Requests <- NoRequests
    MaxPolls = 2
    MaxRenewals = 0
    MaxFailures = 1
    MaxSignOuts = 1
PROPERTIES
    SignInEnds
CHECK_DEADLOCK FALSE
