SPECIFICATION FairSpec
CONSTANTS
    Tasks = {1, 2}
    FileTasks = {2}
    Receipts <- ReceiptsOf
    Heads <- HeadsOf
    NoHead = NoHead
    NoReceipt = NoReceipt
    NoSignal = NoSignal
    MaxRuns = 1
    MaxMoves = 1
    MaxFaults = 1
INVARIANTS
    TypeOK
    RowForResult
PROPERTIES
    Delivers
    ResultsTold
CHECK_DEADLOCK FALSE
