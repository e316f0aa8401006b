SPECIFICATION Spec
CONSTANTS
    Tasks = {1, 2, 3}
    Definitions <- DoubtfulGraphs
    Hosts = {local}
    Workers = {codex}
    local = local
    codex = codex
    MaxSlots = 2
    Numbers = {7}
    Heads = {h1}
    NoHead = NoHead
    StopScopes <- OneOrAll
INVARIANTS
    TypeOK
    AreaWaitsAreForeign
    ConflictHasOwner
PROPERTIES
    Leases
    SettledStaysSettled
