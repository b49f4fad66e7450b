SPECIFICATION PagesSpec
CONSTANTS
    Ids = {1, 2, 3}
    Dates = {1, 2}
    PageSize = 1
    NoCursor = NoCursor
    LastPage = LastPage
INVARIANT EveryWalkIsWhole
CHECK_DEADLOCK FALSE
