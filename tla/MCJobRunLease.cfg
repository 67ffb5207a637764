SPECIFICATION FairSpec
CONSTANTS
    w1 = w1
    p1 = p1
    p2 = p2
    Windows = {w1}
    Procs = {p1, p2}
    Runners <- ThreeRunners
    TokenIds = {0, 1, 2}
    Registered <- OldBuildOnly
    LeaseDuration = 2
    RetryDelay = 1
    MaxAttempts = 2
    Period = 2
    Retention = 3
    Staleness = 1
INVARIANTS TypeOK BudgetIsExact LostLeaseStaysLost
PROPERTIES FencedWrites NoStealOfLiveLease TerminalIsFinal EventuallyTerminal
