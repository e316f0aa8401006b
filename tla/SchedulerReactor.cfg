SPECIFICATION Spec
CONSTANTS
    Tasks = {1, 2}
    Definitions <- Rivals
    Hosts = {local}
    Workers = {codex}
    local = local
    codex = codex
    MaxSlots = 2
    Numbers = {7}
    Heads = {h1}
    NoHead = NoHead
    StopScopes <- Each
    Offers <- TwoSlots
    MaxFaults = 1
INVARIANTS
    TypeOK
    LaunchedByClaim
    WorkersUnderLease
    NoTwoWriters
PROPERTIES
    NoStartAfterStop
    StoreSpec
