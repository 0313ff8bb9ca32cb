SPECIFICATION Spec
CONSTANTS
    TypeIds = {t1}
    InstIds = {i1}
    Handlers = {h1}
    Statuses = {"OK"}
    Queries = {t1}
    DelThreads = {d1}
    Senders = {}
    MaxPuts = 1
    MaxJobs = 2
    MaxEi = 0
    MaxBatch = 1
    MaxFaults = 0
    NULL = NULL
INVARIANT LoopRunsForever
