SPECIFICATION Spec

\* Once every distributor is deleted, no request changes a thing.
CHECK_DEADLOCK FALSE

CONSTANTS
    Handlers = {h1, h2}
    Gstins = {g}
    Null = Null
    Absent = Absent
    NoJob = NoJob
    Wants <- OneOrBoth
    MaxRows = 1
    MaxFaults = 0

PROPERTY ValidTransitionsOnly
