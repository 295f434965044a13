CONSTANTS
    Requests = {r1, r2}
    OrderIds = {o1, o2, o3}
    NoId = NoId
    alice = alice
    bob = bob
    o1 = o1
    o2 = o2
    o3 = o3
    Users = {alice, bob}
    Bodies <- MCBodies
    MaxDialAttempts = 2
    MaxServiceCrashes = 1
    MaxBrokerOutages = 1
SPECIFICATION FairSpec
INVARIANTS
    TypeOK
    ConfirmedOrderIsStored
    EventTellsOfStoredOrder
    NothingIsDoubled
    ErrorAnswerIsNotAnnounced
    ConfirmedIsAnnouncedUnlessOutage
PROPERTIES
    StoredOrdersNeverChange
    RequestsAreAnswered
    ImplementsPlacement
CHECK_DEADLOCK FALSE
