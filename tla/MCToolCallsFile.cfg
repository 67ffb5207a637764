SPECIFICATION Spec
CONSTANTS
    k1 = k1
    k2 = k2
    a1 = a1
    a2 = a2
    Calls = {c1, c2}
    NoCall = NoCall
    Keys = {k1}
    NoKey = NoKey
    Arguments = {a1, a2}
    Requests <- OneRequest
    Deployments <- OnlyLocalFiles
INVARIANT RetryWithTheKeyIsSafe
CHECK_DEADLOCK FALSE
