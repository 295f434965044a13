CONSTANTS
    Requests = {r1, r2}
    OrderIds = {o1, o2, o3}
    NoId = NoId
    alice = alice
    bob = bob
    o1 = o1
    o2 = o2
    o3 = o3
    Users = {alice, bob}
    Bodies <- MCBodies
    MaxDialAttempts = 2
    MaxServiceCrashes = 1
    MaxBrokerOutages = 2
SPECIFICATION Spec
PROPERTIES
    ConfirmedWhileBrokerUpIsAnnounced
CHECK_DEADLOCK FALSE
