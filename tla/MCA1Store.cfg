SPECIFICATION Spec
CONSTANTS
    TypeIds = {t1}
    InstIds = {i1, i2}
    Handlers = {h1}
    Statuses = {"OK"}
    Queries = {t1}
    DelThreads = {d1, d2}
    Senders = {}
    MaxPuts = 2
    MaxJobs = 3
    MaxEi = 0
    MaxBatch = 1
    MaxFaults = 1
    NULL = NULL
INVARIANTS InstanceHasType UpdateResetsStatuses DeleteNotForgotten
PROPERTIES ImplementsStore
SYMMETRY ThreadSymmetry
