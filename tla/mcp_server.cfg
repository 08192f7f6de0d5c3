SPECIFICATION FairSpec
CONSTANTS
    t1 = t1
    t2 = t2
    r1 = r1
    r2 = r2
    k1 = k1
    k2 = k2
    a1 = a1
    a2 = a2
    x1 = x1
    x2 = x2
    NoClient = NoClient
    NoGrant = NoGrant
    NoConn = NoConn
    Clients = {a1, a2}
    Codes = {k1, k2}
    Tokens = {t1, t2}
    Exchanges = {x1, x2}
    Requests = {r1, r2}
    Conns = {c1, c2, c3}
    Sites <- AllSites
    TokenOf <- OneToken
    TokenLife = 1
    MaxFailures = 2
    MaxRestarts = 1
INVARIANTS
    TypeOK
    ReferencesAreLive
    LeaksArePaidFor
    CacheIsCurrent
    OneTokenPerCode
PROPERTY
    AdmittedWithLiveToken
    EveryRequestEnds
