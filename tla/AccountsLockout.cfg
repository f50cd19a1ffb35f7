SPECIFICATION AccountsSpec

\* Once the users that may be stored are deleted, no request changes a thing.
CHECK_DEADLOCK FALSE

CONSTANTS
    Handlers = {h1, h2}
    Emails = {e}
    Phones = {p}
    Null = Null
    Blank = Blank
    NoUser = NoUser
    MaxFailed = 2
    MaxUsers = 2
    MaxAttempts = 2
    MaxFaults = 0

INVARIANT LockedOut
