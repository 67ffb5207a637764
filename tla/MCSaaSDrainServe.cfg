SPECIFICATION ServedSpec
CONSTANTS
    Tenants = 2
    Workers = {w1}
    Ticks = {t1}
    Retry = Retry
    Nobody = Nobody
    MaxJobs = 1
PROPERTY EveryTenantIsServed
CHECK_DEADLOCK FALSE
