SPECIFICATION FairSpec
CONSTANTS
    Tasks = {1}
    Workers <- WorkersOf
    Readable = {"codex"}
    Overlaps <- OneRepository
    Slots = 2
    NoWorker = NoWorker
    Limits <- JustAlone
    MaxCrashes = 1
PROPERTIES
    CancelSettles
CHECK_DEADLOCK FALSE
