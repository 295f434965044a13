CONSTANTS
    Users = {ann, bob}
    None = None
    desk = desk
    lamp = lamp
    office = office
    light = light
    home = home
    Products = {desk, lamp}
    Categories = {office, light, home}
    Quantities = {0, 2}
    RawScores <- MCRawScores
    InitialShelf <- MCShelf
    PopularSize = 2
    Limits = {1, 2}
    MaxOrders = 3
    MaxRemovals = 1
SPECIFICATION Spec
SYMMETRY MCSymmetry
INVARIANTS
    TypeOK
    ScoresInRange
    AnswerFits
PROPERTIES
    FallbackFills
CHECK_DEADLOCK FALSE
