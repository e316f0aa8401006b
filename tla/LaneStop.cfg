SPECIFICATION Spec
CONSTANTS
    Inputs = {1, 2}
    Reminders = {}
    Notices = {}
    Landed <- LandedAt
    Owner <- OwnedBy
    Window = 10
    Runners = {1, 2}
    MaxStops = 1
    MaxEarly = 0
    MaxFailed = 0
    MaxCrashes = 0
INVARIANTS
    InputsAccounted
CHECK_DEADLOCK FALSE
