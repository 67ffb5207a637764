SPECIFICATION FairSpec
CONSTANTS
    Tenants = 2
    Workers = {w1, w2}
    Ticks = {t1}
    Retry = Retry
    Nobody = Nobody
    MaxJobs = 1
INVARIANTS TypeOK StopJoinsEverything OneJobPerTenant DrainLeavesNothing
PROPERTY StopReturns
CHECK_DEADLOCK FALSE
