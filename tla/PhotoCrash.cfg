SPECIFICATION Spec

\* The workers wait for more messages once the partition is consumed.
CHECK_DEADLOCK FALSE

CONSTANTS
    Workers = {w1, w2}
    NoWorker = NoWorker
    Photos = {1, 2, 3, 4}
    Rowless = {3}
    Corrupt <- MCCorrupt
    CartOf <- MCCartOf
    Logs <- CrashLogs
    Counts = {"none", "plenty"}
    LowCounts = {"none"}
    EmptyCounts = "none"
    None = None
    FaultKinds <- CrashOnly
    MaxFaults = 1

INVARIANT ReprocessingCompletes
