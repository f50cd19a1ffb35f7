SPECIFICATION Spec

\* The bounds on time and tokens end every behaviour.
CHECK_DEADLOCK FALSE

CONSTANTS
    Handlers = {h1, h2}
    Users = {u}
    NoJob = NoJob
    TicksPerSecond = 2
    AccessLife = 1
    RefreshLife = 2
    MaxTokens = 6
    MaxLogins = 1
    MaxTime = 3
    FaultKinds = {}
    MaxFaults = 0

INVARIANT RefreshSingleUse
