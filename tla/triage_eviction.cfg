SPECIFICATION Spec
CONSTANTS
    r1 = r1
    r2 = r2
    NoRun = NoRun
    Runs = {r1, r2}
    Watch <- OneTarget
    RepoOf <- SameRepo
    SeenCap = 1
    MaxAttempts = 1
    InitialBackoff = 1
    MaxBackoff = 2
    PerPage = 2
    Lookback = 1
    Conclusions = {"failure"}
    Faults = {"late"}
    MaxTime = 1
    MaxCrashes = 1
    MaxWriteFails = 1
INVARIANTS
    TypeOK
    ClosedRunsAreSeen
CONSTRAINT
    AtMostTwoMessages
SYMMETRY
    RunSymmetry
