SPECIFICATION ServiceSpec

\* As in Service.cfg, the parts beside the algorithms may come to a stop.
CHECK_DEADLOCK FALSE

CONSTANTS
    Requests = {r1, r2}
    PoolSize = 1
    Outages = 2
    Stops = 1

    Forecasters = {f1, f2}
    MaxTrainings = 2
    MaxSaves = 2
    MaxMishaps = 1

    MinSamples = 2
    Snapshots <- MCSnapshots
    Crowds <- MCCrowds
    Threshold = 2
    MoodTimes = 12
    Fade <- MCFade
    Bend <- MCBend
    MoodEvents <- MCMoodEvents
    Categories = {"none", "cone", "kulfi"}
    MaxHistory = 170
    Readings <- MCReadings
    Moods <- MCMoods
    Photos <- MCPhotos

    Handlers = {h1, h2}
    Emails = {e}
    Phones = {p}
    Null = Null
    Blank = Blank
    NoUser = NoUser
    MaxFailed = 2
    MaxUsers = 2
    MaxAttempts = 0
    MaxFaults = 1

INVARIANT VacationsComplete
