CONSTANTS
    j1 = j1
    j2 = j2
    p1 = p1
    p2 = p2
    w1 = w1
    w2 = w2
    a1 = a1
    Jobs = {j1, j2}
    AcceptanceJobs = {j2}
    Procs = {p1, p2}
    Workers = {w1, w2}
    WorkerOf <- DistinctIds
    NoWorker = NoWorker
    ReconcileLimits = {1, 4}
    AttemptLimit = 4
    Accounts = {a1}
    Owner <- OneOwner
    MayCrash = TRUE
SPECIFICATION FairSettlementSpec
INVARIANTS
    SettlementTypeOK
    AttemptsAreExclusive
    AnswersAreBooked
PROPERTIES
    CompletedByLatestClaim
    JobsTerminate
    ImplementsPaidDelivery
    SettlementResolves
