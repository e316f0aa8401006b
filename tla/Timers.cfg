CONSTANTS
    t1 = t1
    reply = reply
    work = work
    TimerIds = {t1}
    Kinds = {"reminder", "job", "sensor"}
    Instants <- MCInstants
    Revisions = {1}
    Workers = 1
    Activities <- MCActivities
    Reported = {}
    Reply = reply
    MaxRequests = 1
    MaxFaults = 1
SPECIFICATION FairSpec
INVARIANTS TypeOK QuietExit ExitsOnce TriesBounded HandledMeansDone
PROPERTIES DrainEnds FiresSettle
