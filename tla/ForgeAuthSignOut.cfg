\* A sign-out while a renewal is on its way.
SPECIFICATION Spec
CONSTANTS
    c1 = c1
    c2 = c2
    r1 = r1
    r2 = r2
    NoCode = NoCode
    NoCredential = NoCredential
    Codes <- TwoCodes
    Requests <- OneRequest
    MaxPolls = 1
    MaxRenewals = 1
    MaxFailures = 0
    MaxSignOuts = 1
INVARIANTS
    SignOutForgets
CHECK_DEADLOCK FALSE
