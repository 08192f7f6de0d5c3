SPECIFICATION FairSpec
CONSTANTS
    n1 = n1
    n2 = n2
    team = team
    shop = shop
    system = system
    pod = pod
    service = service
    claim = claim
    job = job
    run1 = run1
    run2 = run2
    web = web
    NoNamespace = NoNamespace
    Nodes = {n1, n2}
    Namespaces = {team, shop, system}
    Objects = {pod, service, claim, job, run1, run2, web}
    KindOf <- Kinds
    NsOf <- Homes
    NodeOf <- Hosts
    CronRuns = {run1, run2}
    Fleets <- AllFleets
    Protected = {system, shop}
    InspectOrder <- Order
    FinishedJobGrace = 1
    EmptyNamespaceGrace = 1
    TerminatedPodGrace = 1
    ClusterCleanupCooldown = 1
    CleanupCooldown = 2
    SelfHealCooldown = 1
    Horizon = 2
    MaxRestarts = 1
INVARIANTS
    TypeOK
    FailureIsShown
PROPERTY
    OnlyFinishedAreDeleted
    NamespaceSeenEmpty
    EmptyNamespaceIsDeleted
    StoppedK3SIsRestarted
    FullDiskIsCleaned
