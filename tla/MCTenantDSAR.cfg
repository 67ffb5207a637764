SPECIFICATION FairSpec
CONSTANTS
    Workers = {w1, w2}
    NoWorker = NoWorker
    MaxAttempts = 2
    Lease = 2
    ClaimAge = 0
    JobTimeout = 1
    Members = {m1, m2}
    Learners = {m1}
    NoMember = NoMember
    Requests = {q1}
    NoRequest = NoRequest
    Kinds = {"export", "erase"}
    Quantum = 3
    BatchLimit = 1
    MaxRows = 1
INVARIANTS
    TypeOK
    TenantKeepsOwner
    ErasedLearnerIsOut
    JobCompletedWithRequest
    OnlyFailuresSpendAttempts
PROPERTY EventuallyDecided
