SPECIFICATION CacheSpec

\* The bounds on time and tokens end every behaviour.
CHECK_DEADLOCK FALSE
SYMMETRY CacheSymmetry

CONSTANTS
    Handlers = {h1, h2}
    Users = {u}
    NoJob = NoJob
    TicksPerSecond = 2
    AccessLife = 1
    RefreshLife = 2
    MaxTokens = 4
    MaxLogins = 1
    MaxTime = 4
    FaultKinds = {"redis", "evict", "crash"}
    MaxFaults = 2

    Callers = {c1, c2, c3}
    Limit = 2
    Window = 3
    MaxClock = 5
    MaxFailures = 1

INVARIANTS
    TypeOK
    ExchangesBounded
    NoTokenLost
    LimiterTypeOK
    AdmittedBounded
    EntriesExplained

PROPERTY RevokedIsRefused
