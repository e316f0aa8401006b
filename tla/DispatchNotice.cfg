SPECIFICATION Spec
CONSTANTS
    Tasks = {1, 2}
    Workers <- WorkersOf
    Readable = {"codex"}
    Overlaps <- OneRepository
    Slots = 2
    NoWorker = NoWorker
    Limits <- JustAlone
    MaxCrashes = 0
INVARIANTS
    TerminalPublished
CHECK_DEADLOCK FALSE
