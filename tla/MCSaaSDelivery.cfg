SPECIFICATION FairSpec
CONSTANTS
    Workers = {w1, w2}
    NoWorker = NoWorker
    MaxAttempts = 2
    Lease = 3
    ClaimAge = 1
    JobTimeout = 1
    Integrations = {i1}
    Events = {e1}
    Relays = {r1}
    NoEvent = NoEvent
    MaxRelays = 1
INVARIANTS
    TypeOK
    LeaseOutlivesAttempt
    SettledTogether
    OnePostPerAttempt
    NoSubscriberMissed
PROPERTIES
    ImplementsAtLeastOnce
    EventuallySettled
