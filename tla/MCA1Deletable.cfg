SPECIFICATION Spec
CONSTANTS
    TypeIds = {t1}
    InstIds = {i1}
    Handlers = {h1}
    Statuses = {"OK"}
    Queries = {}
    DelThreads = {d1}
    Senders = {}
    MaxPuts = 2
    MaxJobs = 3
    MaxEi = 0
    MaxBatch = 1
    MaxFaults = 0
    NULL = NULL
INVARIANT DeletableAtRest
