SPECIFICATION SmallSpec
CONSTANTS
    Tasks = {1, 2}
    Definitions <- Rivals
    Hosts = {local}
    Workers = {codex}
    local = local
    codex = codex
    MaxSlots = 1
    Numbers = {7}
    Heads = {h1, h2}
    NoHead = NoHead
    StopScopes <- Each
    Offers <- OneSlot
    MaxFaults = 1
PROPERTIES
    FinishCounted
    MergeNoticed
    PassEnds
    NothingForgotten
