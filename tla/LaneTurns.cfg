SPECIFICATION Spec
CONSTANTS
    Inputs = {1, 2, 3}
    Reminders = {3}
    Notices = {1}
    Landed <- LandedAt
    Owner <- OwnedBy
    Window = 10
    Runners = {1, 2}
    MaxStops = 1
    MaxEarly = 1
    MaxFailed = 1
    MaxCrashes = 1
INVARIANTS
    TypeOK
    OneRunner
    HeardOnce
PROPERTIES
    NoticesBetweenTurns
    LossesKnown
CHECK_DEADLOCK FALSE
