SPECIFICATION Spec
CONSTANTS
    Workers = {w1, w2}
    Kinds = {"qcodes", "quantify", "qanary"}
    Arrays = 2
    Points = 3
    RefreshInterval = 2
    Final = TRUE
    MaxClock = 4
SYMMETRY Symmetric
CHECK_DEADLOCK FALSE
INVARIANTS TypeOK NeverGoesBack MissesOnlyRecent EndIsPublished
