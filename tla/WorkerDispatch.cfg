SPECIFICATION Spec
CONSTANTS
    Tasks = {1, 2}
    Workers <- WorkersOf
    Readable = {"codex"}
    Overlaps <- OneRepository
    Slots = 2
    NoWorker = NoWorker
    Limits <- AloneAtTheDoorToTheEnd
    MaxCrashes = 1
INVARIANTS
    TypeOK
    DirectoriesFenced
    AtMostSixTurns
PROPERTIES
    Leases
    NoReplay
    CancelKept
CHECK_DEADLOCK FALSE
