SPECIFICATION Spec
CONSTANTS
    m1 = m1
    m2 = m2
    g1 = g1
    g2 = g2
    Messages = {m1, m2}
    Workers = {g1, g2}
    Slots = {1, 2, 3, 4}
    AlertTypes = {"olm"}
    Batched = {"olm"}
    MaxAttempts = 2
    MaxPending = 2
    DailyCap = 1
    Frequency = "as_scheduled"
    LastDay = 1
SYMMETRY Symmetric
INVARIANTS TypeOK NoUnauthorisedDuplicate SingleHolder NoOrphanReservation
PROPERTIES ReservationFollowsRows SettledIsFinal
CHECK_DEADLOCK FALSE
