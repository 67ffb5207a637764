SPECIFICATION FairSpec
CONSTANTS
    m1 = m1
    m2 = m2
    g1 = g1
    g2 = g2
    Messages = {m1, m2}
    Workers = {g1}
    Slots = {1, 2, 3, 4}
    AlertTypes = {"mirror"}
    Batched = {}
    MaxAttempts = 1
    MaxPending = 1
    DailyCap = 1
    Frequency = "daily"
    LastDay = 2
PROPERTIES EventuallySettled
CHECK_DEADLOCK FALSE
