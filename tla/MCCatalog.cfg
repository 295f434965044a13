CONSTANTS
    Requests = {r1, r2, r3}
    tea = tea
    books = books
    Details = {tea, coffee}
    CategoryIds = {books, drinks}
    NotAnId = NotAnId
    InitialProducts <- MCInitialProducts
    InitialCategories <- MCInitialCategories
    MaxListed = 1
    MaxFaults = 1
    MaxRestarts = 1
SYMMETRY RequestSymmetry
SPECIFICATION Spec
INVARIANTS
    TypeOK
    ProductsHaveCategories
    StoredAsLastAsked
    DeletedOnce
    UpdateAnswerIsNotStale
PROPERTIES
    DeletedForGood
CHECK_DEADLOCK FALSE
