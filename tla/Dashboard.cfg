SPECIFICATION Spec

\* When nothing is left to do and every timer has fired, the page rests.
CHECK_DEADLOCK FALSE

CONSTANTS
    Missing = Missing
    Seed <- MCSeed
    Texts <- MCTexts
    TempsSet = {34, 38, 41}
    NeighborhoodsSet = {"typical-suburban", "stadium-ipl"}
    TelemetriesSet = {"normal", "strain", "outage"}
    Vectors = {"vending", "qcomm", "subs", "trucks"}
    Limit <- MCLimit

INVARIANTS
    TypeOK
    ClicksCredited
    BadgeCounts
    LastIngested
    TourSettles

PROPERTIES
    VanishedExplained
    DeployedLeaves
    IngestAgrees
