SPECIFICATION Spec
CONSTANTS
    r1 = r1
    r2 = r2
    NoRun = NoRun
    Runs = {r1}
    Watch <- OneRun
    RepoOf <- SameRepo
    SeenCap = 1
    MaxAttempts = 3
    InitialBackoff = 1
    MaxBackoff = 2
    PerPage = 2
    Lookback = 5
    Conclusions = {"failure"}
    Faults = {"list", "stage", "send", "late", "gateway", "torn"}
    MaxTime = 5
    MaxCrashes = 2
    MaxWriteFails = 2
INVARIANTS
    AttemptsBounded
    SuccessWasPosted
    MessagesBounded
    DiskIsCurrent
PROPERTY
    BackoffHonoured
