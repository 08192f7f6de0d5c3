SPECIFICATION FairSpec
CONSTANTS
    r1 = r1
    r2 = r2
    NoRun = NoRun
    Runs = {r1, r2}
    Watch <- TwoRepos
    RepoOf <- OwnRepo
    SeenCap = 2
    MaxAttempts = 2
    InitialBackoff = 1
    MaxBackoff = 2
    PerPage = 2
    Lookback = 2
    Conclusions = {"failure"}
    Faults = {"list"}
    MaxTime = 1
    MaxCrashes = 0
    MaxWriteFails = 0
PROPERTY PassCoversAllRepositories
