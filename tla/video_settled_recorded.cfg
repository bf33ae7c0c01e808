CONSTANTS
    j1 = j1
    j2 = j2
    p1 = p1
    p2 = p2
    w1 = w1
    w2 = w2
    a1 = a1
    Jobs = {j1}
    AcceptanceJobs = {}
    Procs = {p1}
    Workers = {w1}
    WorkerOf <- DistinctIds
    NoWorker = NoWorker
    ReconcileLimits = {3}
    AttemptLimit = 3
    Accounts = {a1}
    Owner <- OneOwner
    MayCrash = FALSE
SPECIFICATION SettlementSpec
INVARIANT
    SettlementIsRecorded
