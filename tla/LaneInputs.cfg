SPECIFICATION FairSpec
CONSTANTS
    Inputs = {1, 2}
    Reminders = {}
    Notices = {1, 2, 3, 4}
    Landed <- LandedAt
    Owner <- OwnedBy
    Window = 10
    Runners = {1, 2}
    MaxStops = 0
    MaxEarly = 0
    MaxFailed = 0
    MaxCrashes = 1
PROPERTIES
    InputsSettled
    NoticesDelivered
CHECK_DEADLOCK FALSE
