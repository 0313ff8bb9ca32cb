SPECIFICATION LiveSpec
CONSTANTS
    TypeIds = {t1}
    InstIds = {i1}
    Handlers = {}
    Statuses = {"OK"}
    Queries = {t1}
    DelThreads = {d1}
    Senders = {s1, s2}
    MaxPuts = 2
    MaxJobs = 2
    MaxEi = 1
    MaxBatch = 1
    MaxFaults = 0
    NULL = NULL
INVARIANTS TypeOK JobsSentAtMostOnce
PROPERTIES QueueDrains DeleteTakesEffect
