SPECIFICATION Spec
CONSTANTS
    Workers = {w1}
    NoWorker = NoWorker
    MaxAttempts = 2
    Lease = 2
    ClaimAge = 0
    JobTimeout = 1
    Members = {m1, m2}
    Learners = {m1}
    NoMember = NoMember
    Requests = {q1}
    NoRequest = NoRequest
    Kinds = {"erase"}
    Quantum = 3
    BatchLimit = 1
    MaxRows = 1
INVARIANT ErasureRemovesEverything
