SPECIFICATION FairSpec
CONSTANTS
    Rows = 3
    Cells = {a, b}
    Shapes = {"grid", "growing", "integer_growing"}
    WholeRows = TRUE
    MaxRuns = 2
CHECK_DEADLOCK FALSE
INVARIANTS TypeOK FollowerIsExact
PROPERTIES FollowerCatchesUp
