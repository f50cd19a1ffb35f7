SPECIFICATION Spec

\* Once every distributor is deleted, no request changes a thing.
CHECK_DEADLOCK FALSE

SYMMETRY HandlerSymmetry

CONSTANTS
    Handlers = {h1, h2}
    Gstins = {g}
    Null = Null
    Absent = Absent
    NoJob = NoJob
    Wants <- OneOrBoth
    MaxRows = 2
    MaxFaults = 1

INVARIANTS
    TypeOK
    GstinUnique
    AnnouncedExplained

PROPERTIES
    TransitionExplained
    DeletedStaysDeleted
