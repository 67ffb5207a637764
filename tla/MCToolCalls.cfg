SPECIFICATION FairSpec
CONSTANTS
    k1 = k1
    k2 = k2
    a1 = a1
    a2 = a2
    Calls = {c1, c2, c3}
    NoCall = NoCall
    Keys = {k1, k2}
    NoKey = NoKey
    Arguments = {a1, a2}
    Requests <- OneConflict
    Deployments <- EveryDeployment
INVARIANTS TypeOK AppliedAtMostOnce SuccessIsTheOriginal ReservedWithItsWrite TwoSwapsSuffice
PROPERTIES NoAppendLost EveryCallEnds
CHECK_DEADLOCK FALSE
